-------------------------- MODULE MQTTPublisherProofs --------------------------
(* Theorems about MQTTPublisher: its steps are steps of the database or stutter,
   so what is proved of the database holds with it; and the database's rwMutex_
   is all the publisher needs, for any threads, leaves and numbers of tries.    *)
EXTENDS MQTTPublisher, VssDatabaseProofs

(* A step of the composition is one of the database, or leaves it alone. *)
LEMMA StepImplements == [PublisherNext]_allVars => [Next]_vars
PROOF
  <1>1. ASSUME NEW t \in Callers, sendPathValue(t)
        PROVE  UNCHANGED vars
    BY <1>1 DEF sendPathValue, MatchPath, ConnectFails, Connect, GiveUp, mosquitto_publish, Sending
  <1>2. ASSUME NEW t \in Callers, QuietStep(t) \/ publishForVSSPath(t)
        PROVE  RequestStep(t)
    BY <1>2 DEF RequestStep, publishForVSSPath
  <1> QED
    BY <1>1, <1>2 DEF PublisherNext, PublisherStep, Next, allVars

(* With the publisher the database does what it promises without: the publisher
   takes time inside setSignal and changes nothing.                            *)
THEOREM PublisherImplementsDatabase == PublisherSpec => Spec
PROOF
  <1>1. PublisherInit => Init
    BY DEF PublisherInit
  <1> QED
    BY <1>1, StepImplements, PTL DEF PublisherSpec, Spec

(* Sets, with the sending inside them, and updates still take effect atomically. *)
THEOREM PublisherImplementsLeafStore == PublisherSpec => ImplementsLeafStore
PROOF
  <1> QED
    BY PublisherImplementsDatabase, DatabaseImplementsLeafStore, PTL

LEMMA DatabaseHolds == PublisherSpec => []DInv
PROOF
  <1> QED
    BY PublisherImplementsDatabase, DatabaseInvariant, PTL

(* The thread that sends is the one that holds rwMutex_. *)
LEMMA OneSender ==
  ASSUME DInv, NEW t \in Callers, NEW u \in Callers, pc[t] = "publish", pc[u] = "publish"
  PROVE  t = u
PROOF
  BY DEF DInv, RequestInv, InSetSignal

-----------------------------------------------------------------------------
(* The types, and that the network thread runs once the publisher is connected.
   Only a thread in publishForVSSPath is beyond "match".                       *)

LoopInv ==
  /\ loops = IF isConnected THEN 1 ELSE 0
  /\ \A t \in Callers : send[t] # "match" => pc[t] = "publish"
  /\ \A t \in Callers : send[t] = "connect" => ~isConnected

LEMMA InitLoopInv == PublisherInit => PublisherTypeOK /\ LoopInv
PROOF
  <1> SUFFICES ASSUME PublisherInit
               PROVE  PublisherTypeOK /\ LoopInv
    OBVIOUS
  <1>1. retry \in [Callers -> 0 .. connection_retry]
    BY PublisherConstants DEF PublisherInit
  <1>2. sent \in [Signals -> Seq(Nat)] /\ handed \in [Signals -> Seq(Nat)]
    BY DEF PublisherInit
  <1>3. isConnected = FALSE /\ loops = 0 /\ send = [t \in Callers |-> "match"]
    BY DEF PublisherInit
  <1> QED
    BY <1>1, <1>2, <1>3 DEF PublisherTypeOK, LoopInv, Places

-----------------------------------------------------------------------------
(* What the other steps of the database do to the requests *)

InSet(t) == pc[t] \in {"writable", "attributable", "lockSet", "store", "publish"}

(* Such a step is of a thread outside publishForVSSPath, and it begins at most
   one set request, whose value is new.                                        *)
QuietEffect(t) ==
  /\ pc[t] # "publish"
  /\ \A u \in Callers \ {t} : pc'[u] = pc[u] /\ req'[u] = req[u]
  /\ \/ sets' = sets /\ (InSet(t)' => InSet(t) /\ req'[t] = req[t])
     \/ sets' = sets + 1 /\ req'[t].val = sets'

LEMMA QuietEffects ==
  ASSUME TypeOK, NEW t \in Callers,
         ClientStep(t) \/ QuietStep(t) \/ (t = IoThread /\ ClientUpdate)
  PROVE  QuietEffect(t)
PROOF
  <1>1. pc \in [Callers -> Locations] /\ req \in [Callers -> Request] /\ IoThread \in Callers
    BY DEF TypeOK, Callers
  <1>2. ASSUME NEW p \in Locations, Goto(t, p), pc[t] # "publish", UNCHANGED sets,
               p \in {"attributable", "lockSet", "store", "publish"} => InSet(t),
               p # "writable"
        PROVE  QuietEffect(t)
    BY <1>1, <1>2 DEF Goto, QuietEffect, InSet
  <1>3. ASSUME Return(t), pc[t] # "publish", UNCHANGED sets
        PROVE  QuietEffect(t)
    BY <1>1, <1>3 DEF Return, QuietEffect, InSet
  <1>4. ASSUME NEW p, NEW r, Enter(t, p, r), UNCHANGED sets,
               p \notin {"writable", "attributable", "lockSet", "store", "publish"}
        PROVE  QuietEffect(t)
    BY <1>1, <1>4 DEF Enter, QuietEffect, InSet
  <1>5. ASSUME NEW s \in Signals, NEW a \in Attrs, CallSet(t, s, a)
        PROVE  QuietEffect(t)
    <2> DEFINE r == [NoRequest EXCEPT !.sig = s, !.attr = a, !.val = sets']
    <2>1. r.val = sets'
      BY DEF NoRequest
    <2>2. Enter(t, "writable", r) /\ sets' = sets + 1
      BY <1>5 DEF CallSet
    <2> HIDE DEF r
    <2> QED
      BY <1>1, <2>1, <2>2 DEF Enter, QuietEffect
  <1>6. ASSUME NEW s \in Signals, NEW a \in Attrs, CallGet(t, s, a)
        PROVE  QuietEffect(t)
    BY <1>4, <1>6 DEF CallGet, history
  <1>7. ASSUME t = IoThread, ClientUpdate
        PROVE  QuietEffect(t)
    <2>1. ASSUME NEW s \in Signals, NEW new, NEW first \in {"lockMeta", "diffMeta"},
                 CallUpdate(s, new, first)
          PROVE  QuietEffect(t)
      <3> DEFINE r == [NoRequest EXCEPT !.sig = s, !.new = new]
      <3>1. Enter(t, first, r) /\ UNCHANGED sets
        BY <1>7, <2>1 DEF CallUpdate
      <3> HIDE DEF r
      <3> QED
        BY <1>4, <3>1
    <2> QED
      BY <1>7, <2>1 DEF ClientUpdate, CallUpdateMetaData, CallUpdateVSSTree
  <1>8. CASE CheckWritable(t) \/ CheckAttributable(t) \/ SetRead(t) \/ Store(t)
    BY <1>2, <1>3, <1>8 DEF CheckWritable, CheckAttributable, SetRead, Store, InSet, Locations,
                            history
  <1>9. CASE GetAttributable(t) \/ GetSignal(t)
    BY <1>2, <1>3, <1>9 DEF GetAttributable, GetSignal, Locations, history
  <1>10. CASE t = IoThread /\ UpdateStep
    BY <1>2, <1>3, <1>10 DEF UpdateStep, MetaRead, MetaReplace, DiffMeta, ApplyMeta, DiffData,
                             ApplyData, Locations, history
  <1> QED
    BY <1>5, <1>6, <1>7, <1>8, <1>9, <1>10 DEF ClientStep, QuietStep

(* The steps of the composition, by what they do. *)
LEMMA Steps ==
  ASSUME TypeOK, [PublisherNext]_allVars
  PROVE  \/ \E t \in Callers : QuietEffect(t) /\ UNCHANGED publisher
         \/ \E t \in Callers : sendPathValue(t) \/ publishForVSSPath(t)
         \/ UNCHANGED allVars
PROOF
  <1>1. IoThread \in Callers
    BY DEF Callers
  <1> QED
    BY <1>1, QuietEffects DEF PublisherNext, PublisherStep

LEMMA AppendTypes ==
  ASSUME NEW S, NEW f \in [S -> Seq(Nat)], NEW s, NEW v \in Nat
  PROVE  [f EXCEPT ![s] = Append(@, v)] \in [S -> Seq(Nat)]
PROOF
  <1>1. s \in S => Append(f[s], v) \in Seq(Nat)
    OBVIOUS
  <1> DEFINE q == Append(f[s], v)
  <1> HIDE DEF q
  <1>2. [f EXCEPT ![s] = q] \in [S -> Seq(Nat)]
    BY <1>1 DEF q
  <1> QED
    BY <1>2 DEF q

LEMMA LoopStep ==
  DInv /\ PublisherTypeOK /\ LoopInv /\ [PublisherNext]_allVars => PublisherTypeOK' /\ LoopInv'
PROOF
  <1> SUFFICES ASSUME DInv, PublisherTypeOK, LoopInv, [PublisherNext]_allVars
               PROVE  PublisherTypeOK' /\ LoopInv'
    OBVIOUS
  <1>0. TypeOK /\ pc \in [Callers -> Locations] /\ req \in [Callers -> Request]
    BY DEF DInv, TypeOK
  <1>1. ASSUME NEW t \in Callers, QuietEffect(t), UNCHANGED publisher
        PROVE  PublisherTypeOK' /\ LoopInv'
    BY <1>1 DEF publisher, sending, PublisherTypeOK, LoopInv, QuietEffect
  <1>2. ASSUME NEW t \in Callers, MatchPath(t)
        PROVE  PublisherTypeOK' /\ LoopInv'
    BY <1>2 DEF MatchPath, Sending, SendGoto, PublisherTypeOK, LoopInv, Places, vars, request
  <1>3. ASSUME NEW t \in Callers, ConnectFails(t)
        PROVE  PublisherTypeOK' /\ LoopInv'
    <2>1. retry' \in [Callers -> 0 .. connection_retry]
      BY <1>3, PublisherConstants DEF ConnectFails, TryLeft, PublisherTypeOK
    <2>2. ~isConnected /\ isConnected' = FALSE /\ UNCHANGED <<pc, send, loops, sent, handed>>
      BY <1>3 DEF ConnectFails, Sending, LoopInv, vars, request
    <2> QED
      BY <2>1, <2>2 DEF PublisherTypeOK, LoopInv
  <1>4. ASSUME NEW t \in Callers, Connect(t)
        PROVE  PublisherTypeOK' /\ LoopInv'
    <2>1. /\ ~isConnected /\ loops = 0 /\ pc[t] = "publish" /\ send[t] = "connect"
          /\ isConnected' = TRUE /\ loops' = loops + 1 /\ send' = [send EXCEPT ![t] = "publish"]
          /\ UNCHANGED <<pc, retry, sent, handed>>
      BY <1>4 DEF Connect, Sending, SendGoto, LoopInv, vars, request
    <2>2. \A u \in Callers : send'[u] # "match" => pc'[u] = "publish"
      BY <2>1 DEF LoopInv, PublisherTypeOK
    <2>3. \A u \in Callers : send'[u] # "connect"
      BY <2>1, OneSender DEF LoopInv, PublisherTypeOK
    <2> QED
      BY <2>1, <2>2, <2>3 DEF PublisherTypeOK, LoopInv, Places
  <1>5. ASSUME NEW t \in Callers, GiveUp(t)
        PROVE  PublisherTypeOK' /\ LoopInv'
    BY <1>5 DEF GiveUp, Sending, SendGoto, PublisherTypeOK, LoopInv, Places, vars, request
  <1>6. ASSUME NEW t \in Callers, mosquitto_publish(t)
        PROVE  PublisherTypeOK' /\ LoopInv'
    <2>1. req[t].val \in Nat
      BY <1>0 DEF Request
    <2>2. sent' \in [Signals -> Seq(Nat)]
      <3>1. sent' \in {sent, [sent EXCEPT ![req[t].sig] = Append(@, req[t].val)]}
        BY <1>6 DEF mosquitto_publish
      <3>2. sent \in [Signals -> Seq(Nat)]
        BY DEF PublisherTypeOK
      <3>3. [sent EXCEPT ![req[t].sig] = Append(@, req[t].val)] \in [Signals -> Seq(Nat)]
        BY <2>1, <3>2, AppendTypes
      <3> QED
        BY <3>1, <3>2, <3>3
    <2> QED
      BY <1>6, <2>2 DEF mosquitto_publish, Sending, SendGoto, PublisherTypeOK, LoopInv, Places,
                        vars, request
  <1>7. ASSUME NEW t \in Callers, publishForVSSPath(t)
        PROVE  PublisherTypeOK' /\ LoopInv'
    <2>1. req[t].val \in Nat
      BY <1>0 DEF Request
    <2>2. handed' \in [Signals -> Seq(Nat)]
      <3>1. handed' = [handed EXCEPT ![req[t].sig] = Append(@, req[t].val)]
        BY <1>7 DEF publishForVSSPath
      <3>2. handed \in [Signals -> Seq(Nat)]
        BY DEF PublisherTypeOK
      <3> QED
        BY <2>1, <3>1, <3>2, AppendTypes
    <2>3. retry' \in [Callers -> 0 .. connection_retry]
      BY <1>7, PublisherConstants DEF publishForVSSPath, PublisherTypeOK
    <2>4. /\ send' = [send EXCEPT ![t] = "match"] /\ pc' = [pc EXCEPT ![t] = "idle"]
          /\ UNCHANGED <<isConnected, loops, sent>>
      BY <1>7 DEF publishForVSSPath, SendGoto, Publish, Return
    <2> QED
      BY <1>0, <2>2, <2>3, <2>4 DEF PublisherTypeOK, LoopInv, Places
  <1>8. CASE UNCHANGED allVars
    BY <1>8 DEF allVars, vars, request, publisher, sending, PublisherTypeOK, LoopInv
  <1> QED
    BY <1>0, <1>1, <1>2, <1>3, <1>4, <1>5, <1>6, <1>7, <1>8, Steps DEF sendPathValue

LEMMA LoopInvariant == PublisherSpec => [](PublisherTypeOK /\ LoopInv)
PROOF
  <1> QED
    BY InitLoopInv, LoopStep, DatabaseHolds, PTL DEF PublisherSpec

(* The publisher's variables keep their types; a value is tried no more often
   than connection_retry_ says.                                                *)
THEOREM PublisherTypes == PublisherSpec => []PublisherTypeOK
PROOF
  <1> QED
    BY LoopInvariant, PTL

(* The network thread of the publisher is started at most once, although start
   checks and sets isConnected_ without a lock: rwMutex_ is held around it.     *)
THEOREM NetworkThreadStartedOnce == PublisherSpec => []LoopStartedOnce
PROOF
  <1>1. LoopInv => LoopStartedOnce
    BY DEF LoopInv, LoopStartedOnce
  <1> QED
    BY <1>1, LoopInvariant, PTL

-----------------------------------------------------------------------------
(* Order *)

(* The values of set requests that are under way differ from each other and from
   those that have been handed to the subscribers.                             *)
DistinctInv ==
  /\ \A t \in Callers : InSet(t) => req[t].val <= sets
  /\ \A t, u \in Callers : t # u /\ InSet(t) /\ InSet(u) => req[t].val # req[u].val
  /\ \A s \in Signals : \A p \in DOMAIN handed[s] :
       /\ handed[s][p] <= sets
       /\ \A t \in Callers : InSet(t) => handed[s][p] # req[t].val

(* What was sent has been handed to the subscribers as well, except for what the
   thread that holds rwMutex_ has sent last.                                   *)
Handed(s, v) == \E p \in DOMAIN handed[s] : handed[s][p] = v
InProgress(s, v) ==
  \E t \in Callers : pc[t] = "publish" /\ send[t] = "done" /\ req[t].sig = s /\ req[t].val = v

SentInv ==
  \A s \in Signals : \A i \in DOMAIN sent[s] :
    \/ Handed(s, sent[s][i])
    \/ i = Len(sent[s]) /\ InProgress(s, sent[s][i])

OrderInv == DistinctInv /\ SentInv /\ SameOrder

LEMMA InitOrderInv == PublisherInit => OrderInv
PROOF
  BY DEF PublisherInit, Init, OrderInv, DistinctInv, SentInv, SameOrder, InSet

LEMMA AppendValues ==
  ASSUME NEW q \in Seq(Nat), NEW v \in Nat
  PROVE  /\ DOMAIN Append(q, v) = DOMAIN q \cup {Len(q) + 1}
         /\ DOMAIN q = 1 .. Len(q) /\ Len(q) \in Nat
         /\ \A i \in DOMAIN q : Append(q, v)[i] = q[i] /\ i < Len(q) + 1
         /\ Append(q, v)[Len(q) + 1] = v /\ Len(Append(q, v)) = Len(q) + 1
PROOF
  OBVIOUS

LEMMA QuietKeepsOrder ==
  ASSUME DInv, PublisherTypeOK, LoopInv, OrderInv,
         NEW t \in Callers, QuietEffect(t), UNCHANGED publisher
  PROVE  OrderInv'
PROOF
  <1>0. UNCHANGED <<sent, handed, send>>
    BY DEF publisher, sending
  <1>1. sets \in Nat /\ \A u \in Callers : req[u].val \in Nat /\ req[u] \in Request
    BY DEF DInv, TypeOK, Request
  <1>2. \A s \in Signals : handed[s] \in Seq(Nat)
    BY DEF PublisherTypeOK
  <1>3. \A u \in Callers \ {t} : (InSet(u)' <=> InSet(u)) /\ req'[u] = req[u]
    BY DEF QuietEffect, InSet
  <1>4. DistinctInv'
    <2>1. CASE sets' = sets /\ (InSet(t)' => InSet(t) /\ req'[t] = req[t])
      BY <1>0, <1>3, <2>1 DEF OrderInv, DistinctInv
    <2>2. CASE sets' = sets + 1 /\ req'[t].val = sets'
      <3>1. \A u \in Callers : InSet(u)' => req'[u].val <= sets'
        BY <1>1, <1>3, <2>2 DEF OrderInv, DistinctInv
      <3>2. \A u \in Callers \ {t} : InSet(u)' => req'[u].val < req'[t].val
        BY <1>1, <1>3, <2>2 DEF OrderInv, DistinctInv
      <3>3. \A u, v \in Callers : u # v /\ InSet(u)' /\ InSet(v)' => req'[u].val # req'[v].val
        <4>1. \A u, v \in Callers \ {t} : u # v /\ InSet(u)' /\ InSet(v)' => req'[u].val # req'[v].val
          BY <1>3 DEF OrderInv, DistinctInv
        <4>2. \A u \in Callers \ {t} : InSet(u)' => req'[u].val # req'[t].val
          BY <1>1, <1>3, <2>2, <3>2
        <4> QED
          BY <4>1, <4>2
      <3>4. ASSUME NEW s \in Signals, NEW p \in DOMAIN handed[s]
            PROVE  /\ handed[s][p] <= sets'
                   /\ \A u \in Callers : InSet(u)' => handed[s][p] # req'[u].val
        <4>1. handed[s][p] \in Nat /\ handed[s][p] <= sets
          BY <1>2 DEF OrderInv, DistinctInv
        <4>2. handed[s][p] <= sets' /\ handed[s][p] # req'[t].val
          BY <1>1, <2>2, <4>1
        <4> QED
          BY <1>3, <4>2 DEF OrderInv, DistinctInv
      <3> QED
        BY <1>0, <3>1, <3>3, <3>4 DEF DistinctInv
    <2> QED
      BY <2>1, <2>2 DEF QuietEffect
  <1>5. SentInv'
    <2>1. ASSUME NEW s \in Signals, NEW v, InProgress(s, v)
          PROVE  InProgress(s, v)'
      BY <1>0, <2>1 DEF InProgress, QuietEffect
    <2> QED
      BY <1>0, <2>1 DEF OrderInv, SentInv, Handed
  <1>6. SameOrder'
    BY <1>0 DEF OrderInv, SameOrder
  <1> QED
    BY <1>4, <1>5, <1>6 DEF OrderInv

(* Steps of sendPathValue before mosquitto_publish: nobody else is sending. *)
LEMMA ConnectKeepsOrder ==
  ASSUME DInv, OrderInv, PublisherTypeOK, NEW t \in Callers, UNCHANGED <<vars, sent, handed>>,
         send[t] # "done", NEW p \in Places, send' = [send EXCEPT ![t] = p]
  PROVE  OrderInv'
PROOF
  <1>1. DistinctInv' /\ SameOrder'
    BY DEF vars, request, history, OrderInv, DistinctInv, InSet, SameOrder
  <1>2. ASSUME NEW s \in Signals, NEW v, InProgress(s, v)
        PROVE  InProgress(s, v)'
    BY <1>2 DEF InProgress, vars, request, PublisherTypeOK
  <1>3. SentInv'
    BY <1>2 DEF OrderInv, SentInv, Handed
  <1> QED
    BY <1>1, <1>3 DEF OrderInv

LEMMA SendKeepsOrder ==
  ASSUME DInv, PublisherTypeOK, OrderInv, NEW t \in Callers, mosquitto_publish(t)
  PROVE  OrderInv'
PROOF
  <1>0. req[t].sig \in Signals /\ req[t].val \in Nat
    BY DEF mosquitto_publish, Sending, DInv, TypeOK, RequestInv, Request
  <1>s. PICK s \in Signals, v \in Nat : s = req[t].sig /\ v = req[t].val
    BY <1>0
  <1>1. /\ pc[t] = "publish" /\ send[t] = "publish" /\ send' = [send EXCEPT ![t] = "done"]
        /\ UNCHANGED <<vars, handed>>
        /\ sent' = [sent EXCEPT ![s] = Append(@, v)] \/ sent' = sent
    BY <1>s DEF mosquitto_publish, Sending, SendGoto
  <1>2. CASE sent' = sent
    BY <1>1, <1>2, ConnectKeepsOrder DEF Places
  <1>3. CASE sent' = [sent EXCEPT ![s] = Append(@, v)]
    <2>1. s \in Signals /\ v \in Nat /\ \A z \in Signals : sent[z] \in Seq(Nat)
      BY DEF PublisherTypeOK
    <2>2. /\ pc' = pc /\ req' = req /\ sets' = sets
      BY <1>1 DEF vars, request, history
    <2>3. /\ sent'[s] = Append(sent[s], v)
          /\ \A z \in Signals \ {s} : sent'[z] = sent[z]
      BY <1>3, <2>1 DEF PublisherTypeOK
    <2>4. /\ DOMAIN sent'[s] = DOMAIN sent[s] \cup {Len(sent[s]) + 1}
          /\ \A i \in DOMAIN sent[s] : sent'[s][i] = sent[s][i] /\ i < Len(sent[s]) + 1
          /\ sent'[s][Len(sent[s]) + 1] = v /\ Len(sent'[s]) = Len(sent[s]) + 1
          /\ DOMAIN sent[s] = 1 .. Len(sent[s]) /\ Len(sent[s]) \in Nat
      BY <2>1, <2>3, AppendValues
    <2>5. \A z, w : ~InProgress(z, w)
      <3>1. ASSUME NEW u \in Callers, pc[u] = "publish" PROVE send[u] # "done"
        BY <1>1, <3>1, OneSender
      <3> QED
        BY <3>1 DEF InProgress
    <2>6. pc'[t] = "publish" /\ send'[t] = "done" /\ req'[t].sig = s /\ req'[t].val = v
      BY <1>s, <1>1, <2>2 DEF PublisherTypeOK
    <2>7. ~Handed(s, v)
      BY <1>s, <1>1 DEF Handed, OrderInv, DistinctInv, InSet
    <2>8. DistinctInv'
      BY <1>1, <2>2 DEF OrderInv, DistinctInv, InSet
    <2>9. SentInv'
      <3>1. \A z \in Signals : \A i \in DOMAIN sent[z] : Handed(z, sent[z][i])
        BY <2>5 DEF OrderInv, SentInv
      <3>2. ASSUME NEW z \in Signals, NEW i \in DOMAIN sent'[z]
            PROVE  \/ Handed(z, sent'[z][i])
                   \/ i = Len(sent'[z]) /\ z = s /\ sent'[z][i] = v
        <4>1. CASE z # s
          BY <2>3, <3>1, <4>1
        <4>2. CASE z = s /\ i \in DOMAIN sent[s]
          BY <2>4, <3>1, <4>2
        <4>3. CASE z = s /\ i = Len(sent[s]) + 1
          BY <2>4, <4>3
        <4> QED
          BY <2>4, <4>1, <4>2, <4>3
      <3> QED
        BY <1>1, <2>6, <3>2 DEF SentInv, Handed, InProgress
    <2>10. SameOrder'
      <3>1. ASSUME NEW i \in DOMAIN sent'[s], NEW j \in DOMAIN sent'[s],
                   NEW p \in DOMAIN handed[s], NEW q \in DOMAIN handed[s],
                   i < j, sent'[s][i] = handed[s][p], sent'[s][j] = handed[s][q]
            PROVE  p < q
        <4>1. j # Len(sent[s]) + 1
          BY <2>4, <2>7, <3>1 DEF Handed
        <4>2. j \in DOMAIN sent[s] /\ i \in DOMAIN sent[s]
          BY <2>4, <3>1, <4>1
        <4> QED
          BY <2>1, <2>4, <3>1, <4>2 DEF OrderInv, SameOrder
      <3>2. ASSUME NEW z \in Signals \ {s}, NEW i \in DOMAIN sent'[z], NEW j \in DOMAIN sent'[z],
                   NEW p \in DOMAIN handed[z], NEW q \in DOMAIN handed[z],
                   i < j, sent'[z][i] = handed[z][p], sent'[z][j] = handed[z][q]
            PROVE  p < q
        BY <2>3, <3>2 DEF OrderInv, SameOrder
      <3> QED
        BY <1>1, <3>1, <3>2 DEF SameOrder
    <2> QED
      BY <2>8, <2>9, <2>10 DEF OrderInv
  <1> QED
    BY <1>1, <1>2, <1>3

LEMMA PublishKeepsOrder ==
  ASSUME DInv, PublisherTypeOK, LoopInv, OrderInv, NEW t \in Callers, publishForVSSPath(t)
  PROVE  OrderInv'
PROOF
  <1>0. req[t].sig \in Signals /\ req[t].val \in Nat
    BY DEF publishForVSSPath, Publish, DInv, TypeOK, RequestInv, Request
  <1>s. PICK s \in Signals, v \in Nat : s = req[t].sig /\ v = req[t].val
    BY <1>0
  <1>n. PICK n \in Nat : n = Len(handed[s]) + 1
    BY DEF PublisherTypeOK
  <1>1. /\ pc[t] = "publish" /\ send[t] = "done" /\ pc' = [pc EXCEPT ![t] = "idle"]
        /\ req' = [req EXCEPT ![t] = NoRequest]
        /\ send' = [send EXCEPT ![t] = "match"] /\ sets' = sets /\ sent' = sent
        /\ handed' = [handed EXCEPT ![s] = Append(@, v)]
    BY <1>s DEF publishForVSSPath, Publish, Return, SendGoto
  <1>2. sets \in Nat /\ \A z \in Signals : handed[z] \in Seq(Nat)
    BY DEF DInv, TypeOK, PublisherTypeOK
  <1>3. /\ handed'[s] = Append(handed[s], v)
        /\ \A z \in Signals \ {s} : handed'[z] = handed[z]
    BY <1>1, <1>2 DEF PublisherTypeOK
  <1>4. /\ DOMAIN handed'[s] = DOMAIN handed[s] \cup {n}
        /\ \A p \in DOMAIN handed[s] : handed'[s][p] = handed[s][p] /\ p < n
        /\ handed'[s][n] = v
    BY <1>n, <1>2, <1>3, AppendValues
  <1>5. ~InSet(t)' /\ \A u \in Callers \ {t} : (InSet(u)' <=> InSet(u)) /\ req'[u] = req[u]
    BY <1>1 DEF InSet, DInv, TypeOK
  <1>6. /\ InSet(t) /\ v <= sets
        /\ \A u \in Callers \ {t} : InSet(u) => req[u].val # v
    BY <1>s, <1>1 DEF InSet, OrderInv, DistinctInv
  <1>7. ~Handed(s, v)
    BY <1>s, <1>2, <1>6 DEF Handed, OrderInv, DistinctInv
  <1>8. ASSUME NEW z \in Signals, NEW i \in DOMAIN sent[z], ~Handed(z, sent[z][i])
        PROVE  z = s /\ sent[z][i] = v /\ i = Len(sent[z])
    <2>1. i = Len(sent[z]) /\ InProgress(z, sent[z][i])
      BY <1>8 DEF OrderInv, SentInv
    <2>2. PICK u \in Callers : pc[u] = "publish" /\ req[u].sig = z /\ req[u].val = sent[z][i]
      BY <2>1 DEF InProgress
    <2>3. u = t
      BY <1>1, <2>2, OneSender
    <2> QED
      BY <1>s, <2>1, <2>2, <2>3
  <1>9. ASSUME NEW z \in Signals, NEW w, Handed(z, w)
        PROVE  Handed(z, w)'
    <2>1. PICK p \in DOMAIN handed[z] : handed[z][p] = w
      BY <1>9 DEF Handed
    <2>2. p \in DOMAIN handed'[z] /\ handed'[z][p] = w
      BY <1>3, <1>4, <2>1
    <2> QED
      BY <2>2 DEF Handed
  <1>10. Handed(s, v)'
    BY <1>4 DEF Handed
  <1>11. DistinctInv'
    <2>1. \A u \in Callers : InSet(u)' => req'[u].val <= sets'
      BY <1>1, <1>5 DEF OrderInv, DistinctInv
    <2>2. \A u, w \in Callers : u # w /\ InSet(u)' /\ InSet(w)' => req'[u].val # req'[w].val
      BY <1>5 DEF OrderInv, DistinctInv
    <2>3. ASSUME NEW z \in Signals, NEW p \in DOMAIN handed'[z]
          PROVE  /\ handed'[z][p] <= sets'
                 /\ \A u \in Callers : InSet(u)' => handed'[z][p] # req'[u].val
      <3>1. CASE z = s /\ p = n
        BY <1>1, <1>4, <1>5, <1>6, <3>1
      <3>2. CASE ~(z = s /\ p = n)
        <4>1. p \in DOMAIN handed[z] /\ handed'[z][p] = handed[z][p]
          BY <1>3, <1>4, <3>2
        <4> QED
          BY <1>1, <1>5, <4>1 DEF OrderInv, DistinctInv
      <3> QED
        BY <3>1, <3>2
    <2> QED
      BY <2>1, <2>2, <2>3 DEF DistinctInv
  <1>12. SentInv'
    <2>1. ASSUME NEW z \in Signals, NEW i \in DOMAIN sent[z]
          PROVE  \E p \in DOMAIN handed'[z] : handed'[z][p] = sent[z][i]
      <3>1. CASE Handed(z, sent[z][i])
        BY <1>9, <3>1 DEF Handed
      <3>2. CASE ~Handed(z, sent[z][i])
        BY <1>8, <1>10, <3>2 DEF Handed
      <3> QED
        BY <3>1, <3>2
    <2> QED
      BY <1>1, <2>1 DEF SentInv, Handed
  <1>13. SameOrder'
    <2>1. ASSUME NEW i \in DOMAIN sent[s], NEW j \in DOMAIN sent[s], i < j,
                 NEW p \in DOMAIN handed'[s], NEW q \in DOMAIN handed'[s],
                 sent[s][i] = handed'[s][p], sent[s][j] = handed'[s][q]
          PROVE  p < q
      <3>1. p # n
        <4>1. ~ i = Len(sent[s])
          BY <1>2, <2>1 DEF PublisherTypeOK
        <4>2. sent[s][i] # v
          BY <1>2, <1>7, <1>8, <2>1, <4>1
        <4> QED
          BY <1>4, <2>1, <4>2
      <3>2. p \in DOMAIN handed[s] /\ handed'[s][p] = handed[s][p] /\ p < n
        BY <1>4, <2>1, <3>1
      <3>3. CASE q = n
        BY <3>2, <3>3
      <3>4. CASE q # n
        BY <1>2, <1>4, <2>1, <3>2, <3>4 DEF OrderInv, SameOrder
      <3> QED
        BY <3>3, <3>4
    <2>2. ASSUME NEW z \in Signals \ {s}, NEW i \in DOMAIN sent[z], NEW j \in DOMAIN sent[z],
                 NEW p \in DOMAIN handed'[z], NEW q \in DOMAIN handed'[z],
                 i < j, sent[z][i] = handed'[z][p], sent[z][j] = handed'[z][q]
          PROVE  p < q
      BY <1>3, <2>2 DEF OrderInv, SameOrder
    <2> QED
      BY <1>1, <2>1, <2>2 DEF SameOrder
  <1> QED
    BY <1>11, <1>12, <1>13 DEF OrderInv

LEMMA OrderStep ==
  DInv /\ PublisherTypeOK /\ LoopInv /\ OrderInv /\ [PublisherNext]_allVars => OrderInv'
PROOF
  <1> SUFFICES ASSUME DInv, PublisherTypeOK, LoopInv, OrderInv, [PublisherNext]_allVars
      PROVE  OrderInv'
    OBVIOUS
  <1>1. ASSUME NEW t \in Callers, QuietEffect(t), UNCHANGED publisher PROVE OrderInv'
    BY <1>1, QuietKeepsOrder
  <1>2. ASSUME NEW t \in Callers, MatchPath(t) \/ ConnectFails(t) \/ Connect(t) \/ GiveUp(t)
        PROVE  OrderInv'
    <2>1. /\ UNCHANGED <<vars, sent, handed>> /\ send[t] # "done"
          /\ \E p \in Places : send' = [send EXCEPT ![t] = p]
      <3>1. CASE ConnectFails(t)
        <4>1. send' = [send EXCEPT ![t] = send[t]] /\ send[t] \in Places
          BY <3>1 DEF ConnectFails, PublisherTypeOK
        <4> QED
          BY <3>1, <4>1 DEF ConnectFails, Sending
      <3>2. CASE MatchPath(t) \/ Connect(t) \/ GiveUp(t)
        BY <3>2 DEF MatchPath, Connect, GiveUp, Sending, SendGoto, Places
      <3> QED
        BY <1>2, <3>1, <3>2
    <2> QED
      BY <2>1, ConnectKeepsOrder
  <1>3. ASSUME NEW t \in Callers, mosquitto_publish(t) PROVE OrderInv'
    BY <1>3, SendKeepsOrder
  <1>4. ASSUME NEW t \in Callers, publishForVSSPath(t) PROVE OrderInv'
    BY <1>4, PublishKeepsOrder
  <1>5. CASE UNCHANGED allVars
    <2>1. /\ UNCHANGED <<pc, req, sets, send, sent, handed>>
      BY <1>5 DEF allVars, vars, request, history, publisher, sending
    <2> QED
      BY <2>1 DEF OrderInv, DistinctInv, SentInv, SameOrder, InSet, Handed, InProgress
  <1>6. TypeOK
    BY DEF DInv
  <1> QED
    BY <1>1, <1>2, <1>3, <1>4, <1>5, <1>6, Steps DEF sendPathValue

(* The broker and the subscribers get the values of a leaf in the same order: the
   lock is held from the change of the tree until both have been told.         *)
THEOREM SameOrderEverywhere == PublisherSpec => []SameOrder
PROOF
  <1>1. OrderInv => SameOrder
    BY DEF OrderInv
  <1> QED
    BY <1>1, InitOrderInv, OrderStep, LoopInvariant, DatabaseHolds, PTL DEF PublisherSpec
=============================================================================
