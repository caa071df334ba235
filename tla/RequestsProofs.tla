----------------------------- MODULE RequestsProofs -----------------------------
(* Theorems about Requests, for any clients, threads, addresses and tokens: the
   permissions that are used are those of the token last accepted, a status of
   200 is told exactly for calls without an error on any path, and what is stored
   is of the leaf's type.

   What a path or a key means (Matches, Dotted, the queries) is left unexpanded:
   of it, ConversionsProofs has what is needed.                                *)
EXTENDS Requests, ConversionsProofs, FiniteSetTheorems

-----------------------------------------------------------------------------
(* The records and maps that steps change *)

(* The numbers that a path of a call can come to. *)
Numbers == Codes \cup {unknownError}

LEMMA AfterFields ==
  ASSUME NEW c \in Call, NEW code
  PROVE  /\ After(c, code).op = c.op /\ After(c, code).session = c.session
         /\ After(c, code).ctx = c.ctx /\ After(c, code).size = c.size
         /\ After(c, code).todo = Tail(c.todo)
         /\ After(c, code).kept = IF code = 200 THEN c.kept + 1 ELSE c.kept
         /\ After(c, code).lost = IF code = unknownError THEN c.lost + 1 ELSE c.lost
         /\ After(c, code).code = IF Succeeds(code) THEN (IF c.op = "set" THEN 200 ELSE c.code)
                                  ELSE IF code = 0 THEN c.code ELSE code
PROOF
  BY DEF Call, After

LEMMA AfterFailed ==
  ASSUME NEW c \in Call, NEW code
  PROVE  After(c, code).failed = (c.failed \/ ~Succeeds(code))
PROOF
  BY DEF Call, After

LEMMA TodoLength ==
  ASSUME NEW c \in Call
  PROVE  /\ Len(c.todo) \in Nat
         /\ c.todo = <<>> <=> Len(c.todo) = 0
         /\ c.todo # <<>> => /\ Tail(c.todo) \in Lists
                             /\ Len(Tail(c.todo)) = Len(c.todo) - 1
PROOF
  <1>1. ASSUME NEW S, NEW s \in Seq(S)
        PROVE  /\ Len(s) \in Nat
               /\ s = <<>> <=> Len(s) = 0
               /\ s # <<>> => Tail(s) \in Seq(S) /\ Len(Tail(s)) = Len(s) - 1
    OBVIOUS
  <1>2. c.todo \in Seq(Texts) \/ c.todo \in Seq(Texts \X Values)
    BY DEF Call, Lists
  <1> QED
    BY <1>1, <1>2 DEF Lists

LEMMA AfterTypes ==
  ASSUME NEW c \in Call, NEW code \in Numbers, c.todo # <<>>
  PROVE  After(c, code) \in Call
PROOF
  <1> DEFINE t == Tail(c.todo)
             k == IF code = 200 THEN c.kept + 1 ELSE c.kept
             m == IF code = unknownError THEN c.lost + 1 ELSE c.lost
             f == c.failed \/ ~Succeeds(code)
             n == IF Succeeds(code) THEN (IF c.op = "set" THEN 200 ELSE c.code)
                  ELSE IF code = 0 THEN c.code ELSE code
  <1>1. t \in Lists
    BY TodoLength
  <1>2. k \in Nat /\ m \in Nat
    BY DEF Call
  <1>3. f \in BOOLEAN
    BY DEF Call
  <1>4. n \in Codes
    BY DEF Call, Codes, Numbers, Succeeds
  <1>5. After(c, code) = [c EXCEPT !.todo = t, !.kept = k, !.lost = m, !.failed = f, !.code = n]
    BY DEF After
  <1> HIDE DEF t, k, m, f, n
  <1> QED
    BY <1>1, <1>2, <1>3, <1>4, <1>5 DEF Call

LEMMA ValidTypes ==
  ASSUME NEW t \in Tokens
  PROVE  ValidPermissions(Claims[t].perms) \in Permissions
PROOF
  <1> DEFINE p == Claims[t].perms
             D == {j \in DOMAIN p : HasValidRight(p[j])}
  <1>1. p \in Seq([key: Seq(STRING), right: SUBSET STRING])
    BY RequestConstants
  <1>2. D \in SUBSET Ranks
    BY DEF Ranks
  <1>3. ASSUME NEW i \in D
        PROVE  p[i] \in [key: Keys, right: Rights]
    <2>0. i \in DOMAIN p
      OBVIOUS
    <2>1. p[i] \in [key: Seq(STRING), right: SUBSET STRING]
      <3>1. ASSUME NEW T, NEW s \in Seq(T), NEW j \in DOMAIN s
            PROVE  s[j] \in T
        OBVIOUS
      <3> QED
        BY <1>1, <2>0, <3>1
    <2>2. p[i].key \in Keys
      BY DEF Keys, KeysOf
    <2>3. p[i].right \in Rights
      BY DEF HasValidRight
    <2> HIDE DEF p
    <2> QED
      BY <2>1, <2>2, <2>3
  <1>4. ValidPermissions(p) \in [D -> [key: Keys, right: Rights]]
    BY <1>3 DEF ValidPermissions
  <1> QED
    BY <1>2, <1>4 DEF Permissions

LEMMA NewChannelTypes == NewChannel \in Channel
PROOF
  <1>1. <<>> \in [{} -> [key: Keys, right: Rights]]
    OBVIOUS
  <1>2. <<>> \in Permissions
    BY <1>1 DEF Permissions
  <1> QED
    BY <1>2 DEF NewChannel, Channel

(* What a token makes of a channel: the permissions are those of the token when
   it is accepted, and left alone when it is not.                              *)
LEMMA AuthorizeEffect ==
  ASSUME NEW ch \in Channel, NEW t \in Tokens, NEW r \in processAuthorize(ch, t)
  PROVE  /\ r.channel \in Channel
         /\ r.ok \in BOOLEAN
         /\ r.ok => /\ r.channel.perms = ValidPermissions(Claims[t].perms)
                    /\ r.channel.modifyTree <=> ch.modifyTree \/ Claims[t].modifyTree
         /\ ~r.ok => r.channel.perms = ch.perms /\ r.channel.modifyTree = ch.modifyTree
PROOF
  <1> DEFINE v == ValidPermissions(Claims[t].perms)
             m == TokenOnly(ch, t).modifyTree \/ Claims[t].modifyTree
             n == resolvePermissions(TokenOnly(ch, t), t)
  <1>1. v \in Permissions
    BY ValidTypes
  <1>2. /\ TokenOnly(ch, t) \in Channel
        /\ TokenOnly(ch, t).perms = ch.perms /\ TokenOnly(ch, t).modifyTree = ch.modifyTree
    BY DEF TokenOnly, Channel
  <1>3. m \in BOOLEAN
    BY <1>2, RequestConstants DEF Channel
  <1>4. n = [TokenOnly(ch, t) EXCEPT !.modifyTree = m, !.perms = v]
    BY DEF resolvePermissions
  <1>5. m <=> ch.modifyTree \/ Claims[t].modifyTree
    BY <1>2
  <1> HIDE DEF v, m, n
  <1>6. n \in Channel /\ n.perms = v /\ n.modifyTree = m
    BY <1>1, <1>2, <1>3, <1>4 DEF Channel
  <1>7. \/ r = [ok |-> FALSE, channel |-> ch]
        \/ r = [ok |-> TRUE, channel |-> n]
        \/ r = [ok |-> FALSE, channel |-> TokenOnly(ch, t)]
    BY DEF processAuthorize, n
  <1> HIDE DEF processAuthorize
  <1>8. CASE r = [ok |-> FALSE, channel |-> ch]
    BY <1>8
  <1>9. CASE r = [ok |-> TRUE, channel |-> n]
    BY <1>5, <1>6, <1>9 DEF v
  <1>10. CASE r = [ok |-> FALSE, channel |-> TokenOnly(ch, t)]
    BY <1>2, <1>10
  <1> QED
    BY <1>7, <1>8, <1>9, <1>10

-----------------------------------------------------------------------------
(* The call of one thread is replaced *)

LEMMA NoCallTypes ==
  /\ NoCall \in Call
  /\ NoCall.op = "idle" /\ NoCall.ctx = None /\ NoCall.todo = <<>>
  /\ NoCall.size = 0 /\ NoCall.kept = 0 /\ NoCall.lost = 0
  /\ NoCall.failed = FALSE /\ NoCall.code = 0
PROOF
  <1>1. <<>> \in Lists
    BY DEF Lists
  <1> QED
    BY <1>1 DEF NoCall, Call, Ops, Codes

Started(op, k, list) ==
  [NoCall EXCEPT !.op = op, !.session = k, !.todo = list, !.size = Len(list)]

LEMMA StartTypes ==
  ASSUME NEW op \in {"get", "getMetaData", "set"}, NEW k \in Sessions \cup {None},
         NEW list \in Lists
  PROVE  LET c == Started(op, k, list) IN
         /\ c \in Call
         /\ c.op = op /\ c.ctx = None /\ c.kept = 0 /\ c.lost = 0 /\ ~c.failed /\ c.code = 0
         /\ c.size = Len(list) /\ c.todo = list /\ c.session = k
PROOF
  <1>1. Len(list) \in Nat
    BY DEF Lists
  <1>2. NoCall \in Call /\ op \in Ops
    BY NoCallTypes DEF Ops
  <1> QED
    BY <1>1, <1>2, NoCallTypes DEF Started, Call

Refused(code) == [NoCall EXCEPT !.op = "answered", !.code = code]

LEMMA RefuseTypes ==
  ASSUME NEW code \in Codes
  PROVE  LET c == Refused(code)
         IN  /\ c \in Call
             /\ c.op = "answered" /\ c.ctx = None /\ c.code = code
             /\ c.size = 0 /\ c.kept = 0 /\ c.lost = 0
PROOF
  <1>1. NoCall \in Call /\ "answered" \in Ops
    BY NoCallTypes DEF Ops
  <1> QED
    BY <1>1, NoCallTypes DEF Refused, Call

(* The call of a stream that begins. *)
StreamCall(k, a) == [NoCall EXCEPT !.op = "stream", !.session = k, !.ctx = a]

LEMMA StreamTypes ==
  ASSUME NEW k \in Sessions \cup {None}, NEW a \in Contexts
  PROVE  LET c == StreamCall(k, a)
         IN  c \in Call /\ c.op = "stream" /\ c.ctx = a /\ c.session = k /\ c.lost = 0
PROOF
  <1>1. NoCall \in Call /\ "stream" \in Ops
    BY NoCallTypes DEF Ops
  <1> QED
    BY <1>1, NoCallTypes DEF Call, StreamCall

LEMMA GetCodes ==
  ASSUME NEW perms, NEW x
  PROVE  processGet(perms, x) \subseteq Codes \ {unknownError}
PROOF
  BY DEF processGet, pathNotFound, noAccess, notSetResponse, unknownError, Codes

LEMMA SetCodes ==
  ASSUME NEW perms, NEW x, NEW v, NEW r \in processSet(perms, x, v)
  PROVE  r.code \in Numbers
PROOF
  <1>1. r.code \in {pathNotFound, noAccess, valueOutOfBounds, unknownError, 200}
    BY DEF processSet, ErrorNumber
  <1> QED
    BY <1>1 DEF pathNotFound, noAccess, valueOutOfBounds, Codes, Numbers

LEMMA StatusCodes ==
  ASSUME NEW c \in Call
  PROVE  StatusCode(c) \in Codes
PROOF
  BY DEF StatusCode, Call, Codes

(* The part of the type invariant that is about the pool threads. *)
CallsTyped ==
  /\ call \in [Threads -> Call]
  /\ \A g \in Threads : call[g].op \in {"stream", "closing"} => call[g].ctx \in Open
  /\ \A g, h \in Threads : g # h => call[g].ctx = None \/ call[g].ctx # call[h].ctx

LEMMA CallReplaced ==
  ASSUME CallsTyped, NEW g \in Threads, NEW new \in Call, call' = [call EXCEPT ![g] = new],
         Open \subseteq Open',
         new.op \in {"stream", "closing"} => new.ctx \in Open',
         \/ new.ctx \in {None, call[g].ctx}
         \/ \A h \in Threads : call[h].ctx # new.ctx
  PROVE  CallsTyped'
PROOF
  <1>1. /\ call' \in [Threads -> Call]
        /\ call'[g] = new /\ \A h \in Threads : h # g => call'[h] = call[h]
    BY DEF CallsTyped
  <1>2. \A h \in Threads : call'[h].op \in {"stream", "closing"} => call'[h].ctx \in Open'
    BY <1>1 DEF CallsTyped
  <1>3. ASSUME NEW h \in Threads, NEW i \in Threads, h # i
        PROVE  call'[h].ctx = None \/ call'[h].ctx # call'[i].ctx
    <2>1. CASE h # g /\ i # g
      BY <1>1, <1>3, <2>1 DEF CallsTyped
    <2>2. CASE h = g
      BY <1>1, <1>3, <2>2 DEF CallsTyped
    <2>3. CASE i = g
      BY <1>1, <1>3, <2>3 DEF CallsTyped
    <2> QED
      BY <2>1, <2>2, <2>3
  <1> QED
    BY <1>1, <1>2, <1>3 DEF CallsTyped

-----------------------------------------------------------------------------
(* The type invariant *)

(* What authChecker may do to the channels of gRPC sessions: add a new one. *)
MapGrows ==
  /\ Known \subseteq Known' /\ Known' \subseteq Sessions
  /\ grpcSessionMap' \in [Known' -> Channel]
  /\ \A k \in Known : grpcSessionMap'[k] = grpcSessionMap[k]
  /\ \A k \in Known' \ Known : grpcSessionMap'[k] = NewChannel

LEMMA CheckerGrows ==
  ASSUME TypeOK, NEW k \in Sessions \cup {None}, authChecker(k)
  PROVE  MapGrows /\ (k # None => k \in Known')
PROOF
  <1>1. CASE k \in Known \cup {None}
    BY <1>1 DEF authChecker, MapGrows, TypeOK, Known
  <1>2. CASE k \notin Known \cup {None}
    <2>1. grpcSessionMap' = With(grpcSessionMap, k, NewChannel)
      BY <1>2 DEF authChecker
    <2>2. /\ Known' = Known \cup {k}
          /\ grpcSessionMap'[k] = NewChannel
          /\ \A j \in Known : j # k => grpcSessionMap'[j] = grpcSessionMap[j]
      BY <2>1 DEF With, Known
    <2>3. grpcSessionMap \in [Known -> Channel]
      BY DEF TypeOK
    <2>4. grpcSessionMap' \in [Known \cup {k} -> Channel]
      BY <2>1, <2>3, NewChannelTypes DEF With
    <2> QED
      BY <1>2, <2>2, <2>4 DEF MapGrows, TypeOK
  <1> QED
    BY <1>1, <1>2

LEMMA InitTypes == Init => TypeOK
PROOF
  <1> SUFFICES ASSUME Init
               PROVE  TypeOK
    OBVIOUS
  <1>1. Known = {} /\ Open = {}
    BY DEF Init, Known, Open
  <1>2. grpcSessionMap \in [Known -> Channel]
    BY <1>1 DEF Init
  <1>3. grpcSubscribeSessionMap \in [Open -> [channel: Channel, from: Sessions]]
    BY <1>1 DEF Init
  <1>4. session \in [WsClients -> Channel]
    BY NewChannelTypes DEF Init
  <1>5. CallsTyped
    BY NoCallTypes DEF Init, CallsTyped
  <1>6. callers \in [Contexts -> SUBSET Sessions]
    BY DEF Init
  <1> QED
    BY <1>1, <1>2, <1>3, <1>4, <1>5, <1>6 DEF Init, TypeOK, CallsTyped

LEMMA WsAuthorizeTypes ==
  ASSUME TypeOK, NEW c \in WsClients, NEW t \in Tokens, WsAuthorize(c, t)
  PROVE  TypeOK'
PROOF
  <1>1. PICK r \in processAuthorize(session[c], t) :
          /\ session' = [session EXCEPT ![c] = r.channel]
          /\ IF r.ok THEN Accept(c, t) ELSE UNCHANGED history
          /\ UNCHANGED <<data, grpcSessionMap, grpcSubscribeSessionMap, call, subs>>
    BY DEF WsAuthorize
  <1>2. session' \in [WsClients -> Channel]
    BY <1>1, AuthorizeEffect DEF TypeOK
  <1>3. /\ accepted' \in [Clients -> SUBSET Tokens] /\ last' \in [Clients -> Tokens \cup {None}]
        /\ callers' = callers
    BY <1>1 DEF Accept, history, TypeOK, Clients
  <1> QED
    BY <1>1, <1>2, <1>3 DEF TypeOK, data, Known, Open

LEMMA GrpcAuthorizeTypes ==
  ASSUME TypeOK, NEW k \in Sessions, NEW t \in Tokens, GrpcAuthorize(k, t)
  PROVE  TypeOK'
PROOF
  <1>1. PICK r \in processAuthorize(NewChannel, t) :
          r.ok /\ grpcSessionMap' = With(grpcSessionMap, k, r.channel)
    BY DEF GrpcAuthorize
  <1>2. r.channel \in Channel
    BY <1>1, AuthorizeEffect, NewChannelTypes
  <1>3. Known' = Known \cup {k} /\ grpcSessionMap' \in [Known' -> Channel]
    <2>1. grpcSessionMap \in [Known -> Channel]
      BY DEF TypeOK
    <2>2. grpcSessionMap' \in [Known \cup {k} -> Channel]
      BY <1>1, <1>2, <2>1 DEF With
    <2>3. Known' = Known \cup {k}
      BY <1>1 DEF With, Known
    <2> QED
      BY <2>2, <2>3
  <1>4. /\ accepted' \in [Clients -> SUBSET Tokens] /\ last' \in [Clients -> Tokens \cup {None}]
        /\ callers' = callers
    BY DEF GrpcAuthorize, Accept, TypeOK, Clients
  <1> QED
    BY <1>3, <1>4 DEF TypeOK, GrpcAuthorize, data, Open

(* Steps of the pool threads that leave the channels alone. *)
LEMMA CallStepTypes ==
  ASSUME TypeOK, CallsTyped', UNCHANGED <<desc, channels, history>>
  PROVE  TypeOK'
PROOF
  BY DEF TypeOK, CallsTyped, channels, history, Known, Open

LEMMA PathStepTypes ==
  ASSUME TypeOK, NEW g \in Threads, NEW code \in Numbers,
         call[g].todo # <<>>, Done(g, code), UNCHANGED <<desc, channels, history>>
  PROVE  TypeOK'
PROOF
  <1>1. call[g] \in Call /\ CallsTyped
    BY DEF TypeOK, CallsTyped
  <1>2. After(call[g], code) \in Call
    BY <1>1, AfterTypes
  <1>3. /\ After(call[g], code).op = call[g].op
        /\ After(call[g], code).ctx = call[g].ctx
    BY <1>1, AfterFields
  <1>4. Open' = Open
    BY DEF channels, Open
  <1>5. CallsTyped'
    BY <1>1, <1>2, <1>3, <1>4, CallReplaced DEF Done, CallsTyped
  <1> QED
    BY <1>5, CallStepTypes

LEMMA CallBeginTypes ==
  ASSUME TypeOK, NEW g \in Threads, NEW new \in Call,
         call' = [call EXCEPT ![g] = new], new.ctx = None, new.op \notin {"stream", "closing"},
         MapGrows, UNCHANGED <<desc, session, grpcSubscribeSessionMap, history>>
  PROVE  TypeOK'
PROOF
  <1>1. CallsTyped'
    BY CallReplaced DEF TypeOK, CallsTyped, Open
  <1> QED
    BY <1>1 DEF TypeOK, CallsTyped, MapGrows, history, Open

LEMMA CallTypes ==
  ASSUME TypeOK, NEW g \in Threads, NEW k \in Sessions \cup {None}
  PROVE  /\ \A op \in {"get", "getMetaData"}, list \in GetCalls : CallGet(g, op, k, list) => TypeOK'
         /\ \A list \in SetCalls : CallSet(g, k, list) => TypeOK'
PROOF
  <1>1. 404 \in Codes /\ 400 \in Codes
    BY DEF Codes
  <1>2. ASSUME NEW code \in Codes, Refuse(g, code), MapGrows,
               UNCHANGED <<desc, session, grpcSubscribeSessionMap, history>>
        PROVE  TypeOK'
    BY <1>2, CallBeginTypes, RefuseTypes DEF Refuse, Refused
  <1>3. ASSUME NEW op \in {"get", "getMetaData", "set"}, NEW list \in Lists,
               Start(g, op, k, list), MapGrows,
               UNCHANGED <<desc, session, grpcSubscribeSessionMap, history>>
        PROVE  TypeOK'
    <2> DEFINE new == Started(op, k, list)
    <2>1. new \in Call /\ new.op = op /\ new.ctx = None
      BY StartTypes
    <2>2. call' = [call EXCEPT ![g] = new]
      BY <1>3 DEF Start, Started
    <2> HIDE DEF new
    <2> QED
      BY <1>3, <2>1, <2>2, CallBeginTypes
  <1>4. ASSUME NEW op \in {"get", "getMetaData"}, NEW list \in GetCalls, CallGet(g, op, k, list)
        PROVE  TypeOK'
    <2>1. list \in Lists
      BY RequestConstants DEF Lists
    <2>2. MapGrows
      BY <1>4, CheckerGrows DEF CallGet
    <2>3. Refuse(g, 404) \/ Refuse(g, 400) \/ Start(g, op, k, list)
      BY <1>4 DEF CallGet
    <2>4. UNCHANGED <<desc, session, grpcSubscribeSessionMap, history>>
      BY <1>4 DEF CallGet, data
    <2> QED
      BY <1>1, <1>2, <1>3, <2>1, <2>2, <2>3, <2>4
  <1>5. ASSUME NEW list \in SetCalls, CallSet(g, k, list)
        PROVE  TypeOK'
    <2>1. list \in Lists
      <3>1. list \in Seq(Texts \X Values)
        BY RequestConstants
      <3> QED
        BY <3>1 DEF Lists
    <2>2. MapGrows
      BY <1>5, CheckerGrows DEF CallSet
    <2>3. Refuse(g, 404) \/ Start(g, "set", k, list)
      BY <1>5 DEF CallSet
    <2>4. UNCHANGED <<desc, session, grpcSubscribeSessionMap, history>>
      BY <1>5 DEF CallSet, data
    <2> QED
      BY <1>1, <1>2, <1>3, <2>1, <2>2, <2>3, <2>4
  <1> QED
    BY <1>4, <1>5

LEMMA CallSubscribeTypes ==
  ASSUME TypeOK, NEW g \in Threads, NEW k \in Sessions \cup {None}, NEW a \in Contexts,
         CallSubscribe(g, k, a)
  PROVE  TypeOK'
PROOF
  <1> DEFINE new == StreamCall(k, a)
  <1>1. new \in Call /\ new.op = "stream" /\ new.ctx = a
    BY StreamTypes
  <1>2. Stream(g, k, a) => /\ call' = [call EXCEPT ![g] = new]
                           /\ callers' \in [Contexts -> SUBSET Sessions]
    BY DEF Stream, StreamCall, TypeOK
  <1> HIDE DEF new
  <1>3. /\ \A h \in Threads : call[h].ctx # a
        /\ CallsTyped
        /\ UNCHANGED <<desc, accepted, last>>
    BY DEF CallSubscribe, data, TypeOK, CallsTyped
  <1>4. CASE a \in Open
    <2>1. Stream(g, k, a) /\ UNCHANGED channels
      BY <1>4 DEF CallSubscribe
    <2>2. CallsTyped'
      BY <1>1, <1>2, <1>3, <1>4, <2>1, CallReplaced DEF channels, Open
    <2> QED
      BY <1>2, <1>3, <2>1, <2>2 DEF TypeOK, CallsTyped, channels, Known, Open
  <1>5. CASE a \notin Open /\ k = None
    <2>1. Refuse(g, 404) /\ UNCHANGED <<channels, callers>>
      BY <1>5 DEF CallSubscribe
    <2>2. 404 \in Codes
      BY DEF Codes
    <2>3. CallsTyped'
      <3>1. Refused(404) \in Call /\ Refused(404).op = "answered" /\ Refused(404).ctx = None
        BY <2>2, RefuseTypes
      <3>2. call' = [call EXCEPT ![g] = Refused(404)] /\ Open' = Open
        BY <2>1 DEF Refuse, Refused, channels, Open
      <3>3. Open \subseteq Open'
        BY <3>2
      <3> DEFINE refused == Refused(404)
      <3>4. refused \in Call /\ call' = [call EXCEPT ![g] = refused]
        BY <3>1, <3>2
      <3>5. /\ refused.op \in {"stream", "closing"} => refused.ctx \in Open'
            /\ refused.ctx \in {None, call[g].ctx}
        BY <3>1
      <3> HIDE DEF refused
      <3> QED
        BY <1>3, <3>3, <3>4, <3>5, CallReplaced
    <2> QED
      BY <1>3, <2>1, <2>3, CallStepTypes DEF history
  <1>6. CASE a \notin Open /\ k # None
    <2> DEFINE entry == [channel |-> grpcSessionMap'[k], from |-> k]
    <2>1. /\ authChecker(k) /\ Stream(g, k, a) /\ UNCHANGED session
          /\ grpcSubscribeSessionMap' = With(grpcSubscribeSessionMap, a, entry)
      BY <1>6 DEF CallSubscribe
    <2>2. MapGrows /\ k \in Known'
      BY <1>6, <2>1, CheckerGrows
    <2>3. entry \in [channel: Channel, from: Sessions]
      BY <1>6, <2>2 DEF MapGrows
    <2> HIDE DEF entry
    <2>4. Open' = Open \cup {a}
      BY <2>1 DEF Open, With
    <2>5. grpcSubscribeSessionMap \in [Open -> [channel: Channel, from: Sessions]]
      BY DEF TypeOK
    <2>6. grpcSubscribeSessionMap' \in [Open \cup {a} -> [channel: Channel, from: Sessions]]
      BY <2>1, <2>3, <2>5 DEF With
    <2>7. CallsTyped'
      BY <1>1, <1>2, <1>3, <2>1, <2>4, CallReplaced
    <2> QED
      BY <1>2, <1>3, <2>1, <2>2, <2>4, <2>6, <2>7 DEF TypeOK, CallsTyped, MapGrows
  <1> QED
    BY <1>4, <1>5, <1>6

LEMMA PoolTypes ==
  ASSUME TypeOK, NEW g \in Threads
  PROVE  /\ GetStep(g) \/ GetMetaDataStep(g) \/ SetStep(g) \/ FinishCall(g) => TypeOK'
         /\ CloseStream(g) \/ Return(g) => TypeOK'
         /\ \A x \in Texts : StreamSubscribe(g, x) \/ StreamRefused(g, x) => TypeOK'
PROOF
  <1>1. call[g] \in Call /\ CallsTyped
    BY DEF TypeOK, CallsTyped
  <1>2. 0 \in Numbers /\ 200 \in Numbers /\ pathNotFound \in Numbers
    BY DEF Codes, Numbers, pathNotFound
  <1>3. ASSUME GetStep(g)
        PROVE  TypeOK'
    <2>1. PICK code \in processGet(PermsOf(g), Head(call[g].todo)) :
            Done(g, IF code = 200 /\ Cardinality(LeafPathsOf[Head(call[g].todo)]) > 1
                    THEN 0 ELSE code)
      BY <1>3 DEF GetStep
    <2>2. code \in Numbers
      BY GetCodes DEF Numbers
    <2>3. \E n \in Numbers : Done(g, n)
      BY <1>2, <2>1, <2>2
    <2> QED
      BY <1>3, <2>3, PathStepTypes DEF GetStep, data
  <1>4. ASSUME GetMetaDataStep(g)
        PROVE  TypeOK'
    <2>1. \E n \in Numbers : Done(g, n)
      BY <1>2, <1>4 DEF GetMetaDataStep
    <2> QED
      BY <1>4, <2>1, PathStepTypes DEF GetMetaDataStep, data
  <1>5. ASSUME SetStep(g)
        PROVE  TypeOK'
    <2>1. \E n \in Numbers : Done(g, n)
      BY <1>2, <1>5, SetCodes DEF SetStep
    <2> QED
      BY <1>5, <2>1, PathStepTypes DEF SetStep
  <1>6. ASSUME FinishCall(g)
        PROVE  TypeOK'
    <2> DEFINE n == StatusCode(call[g])
    <2>1. n \in Codes
      BY <1>1, StatusCodes
    <2>2. call' = [call EXCEPT ![g] = [call[g] EXCEPT !.op = "answered", !.code = n]]
      BY <1>1, <1>6 DEF FinishCall, CallsTyped
    <2> HIDE DEF n
    <2> DEFINE new == [call[g] EXCEPT !.op = "answered", !.code = n]
    <2>3. "answered" \in Ops
      BY DEF Ops
    <2>4. new \in Call /\ new.op = "answered" /\ new.ctx = call[g].ctx
      BY <1>1, <2>1, <2>3 DEF Call
    <2> HIDE DEF new
    <2>5. call' = [call EXCEPT ![g] = new] /\ Open' = Open
      BY <1>6, <2>2 DEF new, FinishCall, channels, Open
    <2>6. CallsTyped'
      BY <1>1, <2>4, <2>5, CallReplaced
    <2> QED
      BY <1>6, <2>6, CallStepTypes DEF FinishCall, data
  <1>7. ASSUME CloseStream(g) \/ Return(g)
        PROVE  TypeOK'
    <2>1. call' = [call EXCEPT ![g] = NoCall] /\ Open' = Open
      BY <1>7 DEF CloseStream, Return, channels, Open
    <2>2. CallsTyped'
      BY <1>1, <2>1, CallReplaced, NoCallTypes
    <2> QED
      BY <1>7, <2>2, CallStepTypes DEF CloseStream, Return, data
  <1>8. ASSUME NEW x \in Texts, StreamSubscribe(g, x)
        PROVE  TypeOK'
    <2> DEFINE new == [call[g] EXCEPT !.kept = @ + 1]
    <2>1. new \in Call /\ new.op = "stream" /\ new.ctx = call[g].ctx
      BY <1>1, <1>8 DEF StreamSubscribe, Call
    <2>2. call' = [call EXCEPT ![g] = new] /\ Open' = Open
      BY <1>1, <1>8 DEF StreamSubscribe, CallsTyped, channels, Open
    <2> HIDE DEF new
    <2>3. call[g].ctx \in Open
      BY <1>1, <1>8 DEF StreamSubscribe, CallsTyped
    <2>4. CallsTyped'
      BY <1>1, <2>1, <2>2, <2>3, CallReplaced
    <2> QED
      BY <1>8, <2>4, CallStepTypes DEF StreamSubscribe, data
  <1>9. ASSUME NEW x \in Texts, StreamRefused(g, x)
        PROVE  TypeOK'
    <2> DEFINE new == [call[g] EXCEPT !.op = "closing"]
    <2>1. new \in Call /\ new.op = "closing" /\ new.ctx = call[g].ctx
      BY <1>1 DEF Call, Ops
    <2>2. call' = [call EXCEPT ![g] = new] /\ Open' = Open
      BY <1>1, <1>9 DEF StreamRefused, CallsTyped, channels, Open
    <2> HIDE DEF new
    <2>3. call[g].ctx \in Open
      BY <1>1, <1>9 DEF StreamRefused, CallsTyped
    <2>4. CallsTyped'
      BY <1>1, <2>1, <2>2, <2>3, CallReplaced
    <2> QED
      BY <1>9, <2>4, CallStepTypes DEF StreamRefused, data
  <1> QED
    BY <1>3, <1>4, <1>5, <1>6, <1>7, <1>8, <1>9

LEMMA TypesStep == TypeOK /\ [Next]_vars => TypeOK'
PROOF
  <1> SUFFICES ASSUME TypeOK, [Next]_vars
               PROVE  TypeOK'
    OBVIOUS
  <1>1. CASE \E c \in WsClients : WsRequest(c)
    <2>1. PICK c \in WsClients : WsRequest(c)
      BY <1>1
    <2>2. CASE \E t \in Tokens : WsAuthorize(c, t)
      BY <2>2, WsAuthorizeTypes
    <2>3. CASE UNCHANGED <<desc, channels, call, history>>
      BY <2>3, CallStepTypes DEF TypeOK, CallsTyped, channels, Open
    <2> QED
      BY <2>1, <2>2, <2>3 DEF WsRequest, WsSubscribe, WsSet, data
  <1>2. CASE \E k \in Sessions, t \in Tokens : GrpcAuthorize(k, t)
    BY <1>2, GrpcAuthorizeTypes
  <1>3. CASE \E g \in Threads : GrpcCall(g)
    BY <1>3, CallTypes, CallSubscribeTypes, PoolTypes DEF GrpcCall
  <1>4. CASE UNCHANGED vars
    BY <1>4 DEF vars, TypeOK, data, channels, history, Known, Open
  <1> QED
    BY <1>1, <1>2, <1>3, <1>4 DEF Next

(* The type invariant: what the WebSocket sessions, the gRPC sessions, the streams
   and the calls of the pool threads hold is of its type, and no two calls have a
   context at one address.                                                     *)
THEOREM RequestTypes == Spec => []TypeOK
PROOF
  <1> QED
    BY InitTypes, TypesStep, PTL DEF Spec

-----------------------------------------------------------------------------
(* Permissions *)

(* What a channel may hold of a client that last was told l is accepted, and was
   told so of the tokens acc.                                                  *)
Follows(ch, l, acc) ==
  /\ ch.perms = IF l = None THEN <<>> ELSE ValidPermissions(Claims[l].perms)
  /\ ch.modifyTree <=> \E t \in acc : Claims[t].modifyTree
  /\ l # None => l \in acc

(* With it, what makes PermissionsOfLastToken inductive: a session that is not in
   the map yet has had no token.                                               *)
PermissionsInv ==
  /\ \A c \in WsClients : Follows(session[c], last[c], accepted[c])
  /\ \A k \in Known : Follows(grpcSessionMap[k], last[k], accepted[k])
  /\ \A k \in Sessions \ Known : last[k] = None /\ accepted[k] = {}

LEMMA FollowsNew == Follows(NewChannel, None, {})
PROOF
  BY DEF Follows, NewChannel

LEMMA FollowsAuthorize ==
  ASSUME NEW ch \in Channel, NEW l, NEW acc \in SUBSET Tokens, Follows(ch, l, acc),
         NEW t \in Tokens, NEW r \in processAuthorize(ch, t)
  PROVE  IF r.ok THEN Follows(r.channel, t, acc \cup {t}) ELSE Follows(r.channel, l, acc)
PROOF
  <1>1. /\ r.channel \in Channel /\ r.ok \in BOOLEAN
        /\ r.ok => /\ r.channel.perms = ValidPermissions(Claims[t].perms)
                   /\ r.channel.modifyTree <=> ch.modifyTree \/ Claims[t].modifyTree
        /\ ~r.ok => r.channel.perms = ch.perms /\ r.channel.modifyTree = ch.modifyTree
    BY AuthorizeEffect
  <1>2. t # None
    BY RequestConstants
  <1>3. CASE r.ok
    BY <1>1, <1>2, <1>3 DEF Follows
  <1>4. CASE ~r.ok
    BY <1>1, <1>4 DEF Follows
  <1> QED
    BY <1>3, <1>4

LEMMA PermissionsInit == Init => PermissionsInv
PROOF
  BY FollowsNew DEF Init, PermissionsInv, Known, Clients

(* Whatever else happens, channels of gRPC sessions are only added, as new. *)
LEMMA OtherSteps ==
  ASSUME TypeOK, [Next]_vars,
         ~ \E c \in WsClients, t \in Tokens : WsAuthorize(c, t),
         ~ \E k \in Sessions, t \in Tokens : GrpcAuthorize(k, t)
  PROVE  MapGrows /\ UNCHANGED <<session, accepted, last>>
PROOF
  <1>1. UNCHANGED grpcSessionMap => MapGrows
    BY DEF MapGrows, TypeOK, Known
  <1>2. CASE \E c \in WsClients : WsRequest(c)
    BY <1>1, <1>2 DEF WsRequest, WsSubscribe, WsSet, channels, history
  <1>3. ASSUME NEW g \in Threads, NEW k \in Sessions \cup {None},
               \/ \E list \in GetCalls : CallGet(g, "get", k, list) \/ CallGet(g, "getMetaData", k, list)
               \/ \E list \in SetCalls : CallSet(g, k, list)
        PROVE  MapGrows /\ UNCHANGED <<session, accepted, last>>
    BY <1>3, CheckerGrows DEF CallGet, CallSet, history
  <1>4. ASSUME NEW g \in Threads, NEW k \in Sessions \cup {None}, NEW a \in Contexts,
               CallSubscribe(g, k, a)
        PROVE  MapGrows /\ UNCHANGED <<session, accepted, last>>
    BY <1>1, <1>4, CheckerGrows DEF CallSubscribe, channels
  <1>5. ASSUME NEW g \in Threads,
               \/ \E x \in Texts : StreamSubscribe(g, x) \/ StreamRefused(g, x)
               \/ GetStep(g) \/ GetMetaDataStep(g) \/ SetStep(g) \/ FinishCall(g)
               \/ CloseStream(g) \/ Return(g)
        PROVE  MapGrows /\ UNCHANGED <<session, accepted, last>>
    <2>1. UNCHANGED <<channels, history>>
      BY <1>5 DEF StreamSubscribe, StreamRefused, GetStep, GetMetaDataStep, SetStep,
                  FinishCall, CloseStream, Return
    <2> QED
      BY <1>1, <2>1 DEF channels, history
  <1>6. CASE \E g \in Threads : GrpcCall(g)
    BY <1>3, <1>4, <1>5, <1>6 DEF GrpcCall
  <1>7. CASE UNCHANGED vars
    BY <1>1, <1>7 DEF vars, channels, history
  <1> QED
    BY <1>2, <1>6, <1>7 DEF Next

LEMMA PermissionsStep == TypeOK /\ PermissionsInv /\ [Next]_vars => PermissionsInv'
PROOF
  <1> SUFFICES ASSUME TypeOK, PermissionsInv, [Next]_vars
               PROVE  PermissionsInv'
    OBVIOUS
  <1>0. /\ WsClients \cap Sessions = {} /\ Known \subseteq Sessions
        /\ accepted \in [Clients -> SUBSET Tokens] /\ last \in [Clients -> Tokens \cup {None}]
        /\ session \in [WsClients -> Channel] /\ grpcSessionMap \in [Known -> Channel]
    BY RequestConstants DEF TypeOK
  <1>1. ASSUME NEW c \in WsClients, NEW t \in Tokens, WsAuthorize(c, t)
        PROVE  PermissionsInv'
    <2>1. PICK r \in processAuthorize(session[c], t) :
            /\ session' = [session EXCEPT ![c] = r.channel]
            /\ IF r.ok THEN Accept(c, t) ELSE UNCHANGED history
            /\ grpcSessionMap' = grpcSessionMap
      BY <1>1 DEF WsAuthorize
    <2>2. IF r.ok THEN Follows(r.channel, t, accepted[c] \cup {t})
                  ELSE Follows(r.channel, last[c], accepted[c])
      BY <1>0, FollowsAuthorize DEF PermissionsInv, Clients
    <2>3. Follows(session'[c], last'[c], accepted'[c])
      BY <1>0, <2>1, <2>2 DEF Accept, history, Clients
    <2>4. \A d \in Clients \ {c} : last'[d] = last[d] /\ accepted'[d] = accepted[d]
      BY <1>0, <2>1 DEF Accept, history
    <2> QED
      BY <1>0, <2>1, <2>3, <2>4 DEF PermissionsInv, Clients, Known
  <1>2. ASSUME NEW k \in Sessions, NEW t \in Tokens, GrpcAuthorize(k, t)
        PROVE  PermissionsInv'
    <2>1. PICK r \in processAuthorize(NewChannel, t) :
            r.ok /\ grpcSessionMap' = With(grpcSessionMap, k, r.channel)
      BY <1>2 DEF GrpcAuthorize
    <2>2. k \notin Known /\ Accept(k, t) /\ session' = session
      BY <1>2 DEF GrpcAuthorize
    <2>3. last[k] = None /\ accepted[k] = {}
      BY <2>2 DEF PermissionsInv
    <2>4. Follows(r.channel, t, {} \cup {t})
      BY <2>1, FollowsNew, FollowsAuthorize, NewChannelTypes
    <2>5. /\ last'[k] = t /\ accepted'[k] = {} \cup {t}
          /\ \A d \in Clients \ {k} : last'[d] = last[d] /\ accepted'[d] = accepted[d]
      BY <1>0, <2>2, <2>3 DEF Accept, Clients
    <2>6. /\ Known' = Known \cup {k} /\ grpcSessionMap'[k] = r.channel
          /\ \A j \in Known : grpcSessionMap'[j] = grpcSessionMap[j]
      BY <2>1, <2>2 DEF With, Known
    <2> QED
      BY <1>0, <2>2, <2>4, <2>5, <2>6 DEF PermissionsInv, Clients
  <1>3. ASSUME MapGrows, UNCHANGED <<session, accepted, last>>
        PROVE  PermissionsInv'
    BY <1>3, FollowsNew DEF PermissionsInv, MapGrows
  <1> QED
    BY <1>1, <1>2, <1>3, OtherSteps

LEMMA PermissionsFollow == TypeOK /\ PermissionsInv => PermissionsOfLastToken
PROOF
  BY RequestConstants DEF TypeOK, PermissionsInv, PermissionsOfLastToken, Follows, Present, ChannelOfClient

(* Permissions never come from a token other than the one that the client was
   last told is accepted: not from one that was refused after the channel had
   taken it, and not, for a session of grpcSessionMap, before there was one.   *)
THEOREM PermissionsAreOfLastToken == Spec => []PermissionsOfLastToken
PROOF
  <1> QED
    BY InitTypes, TypesStep, PermissionsInit, PermissionsStep, PermissionsFollow, PTL DEF Spec

-----------------------------------------------------------------------------
(* Access *)

(* Access that is not denied is by a key of the last token. *)
LEMMA AccessByKey ==
  ASSUME TypeOK, PermissionsOfLastToken, NEW c \in Present, NEW path, NEW right,
         checkSignalAccess(ChannelOfClient(c).perms, path, right)
  PROVE  /\ last[c] \in Tokens /\ last[c] # None
         /\ \E i \in DOMAIN Claims[last[c]].perms :
              /\ right \in Claims[last[c]].perms[i].right
              /\ Claims[last[c]].perms[i].key \in Seq(STRING)
              /\ \/ Claims[last[c]].perms[i].key = path
                 \/ Matches(path, Claims[last[c]].perms[i].key)
PROOF
  <1> DEFINE perms == ChannelOfClient(c).perms
             given == Claims[last[c]].perms
  <1>1. PICK i \in DOMAIN perms :
          right \in perms[i].right /\ (perms[i].key = path \/ Matches(path, perms[i].key))
    BY DEF checkSignalAccess, Exact, Matching
  <1>2. perms = IF last[c] = None THEN <<>> ELSE ValidPermissions(given)
    BY DEF PermissionsOfLastToken
  <1>3. last[c] # None
    BY <1>1, <1>2
  <1>4. last[c] \in Tokens
    BY <1>3, RequestConstants DEF TypeOK, Present, Clients
  <1>5. i \in DOMAIN given /\ perms[i] = given[i]
    BY <1>1, <1>2, <1>3 DEF ValidPermissions
  <1>6. given[i].key \in Seq(STRING)
    <2>1. given \in Seq([key: Seq(STRING), right: SUBSET STRING])
      BY <1>4, RequestConstants
    <2>2. ASSUME NEW T, NEW p \in Seq(T), NEW j \in DOMAIN p
          PROVE  p[j] \in T
      OBVIOUS
    <2> HIDE DEF given
    <2>3. given[i] \in [key: Seq(STRING), right: SUBSET STRING]
      BY <1>5, <2>1, <2>2
    <2> QED
      BY <2>3
  <1> HIDE DEF perms
  <1> QED
    BY <1>1, <1>3, <1>4, <1>5, <1>6

LEMMA AccessIsGranted ==
  ASSUME TypeOK, PermissionsOfLastToken, NEW c \in Present, NEW T, NEW path \in Seq(T),
         NEW right, checkSignalAccess(ChannelOfClient(c).perms, path, right)
  PROVE  GrantedTo(c, path, right)
PROOF
  <1> DEFINE given == Claims[last[c]].perms
  <1>1. /\ last[c] # None
        /\ \E i \in DOMAIN given :
             /\ right \in given[i].right
             /\ given[i].key \in Seq(STRING)
             /\ given[i].key = path \/ Matches(path, given[i].key)
    BY AccessByKey
  <1>2. PICK i \in DOMAIN given :
             /\ right \in given[i].right
             /\ given[i].key \in Seq(STRING)
             /\ given[i].key = path \/ Matches(path, given[i].key)
    BY <1>1
  <1>3. Covers(given[i].key, path)
    BY <1>2, KeyNotation DEF Covers
  <1>4. Granted(last[c], path, right)
    BY <1>2, <1>3 DEF Granted
  <1> QED
    BY <1>1, <1>4 DEF GrantedTo

LEMMA TextTypes ==
  ASSUME NEW x \in Texts
  PROVE  /\ x \in Seq(STRING) /\ Alternates(x)
         /\ \E T : VSSGen1Path(x) \in Seq(T)
PROOF
  <1>1. x \in Seq(STRING) /\ Alternates(x)
    BY TextConstants DEF Alternates
  <1>2. VSSGen1Path(x) \in Seq(STRING \cup {".", "/"})
    BY <1>1, Gen1Types
  <1> QED
    BY <1>1, <1>2

LEMMA LeafTypes ==
  ASSUME NEW l \in Leaves
  PROVE  l \in Seq(STRING) /\ l # <<>> /\ \E T : Dotted(l) \in Seq(T)
PROOF
  BY TextConstants, DottedTypes

(* Access to a path, in whatever notation, is access to the leaf it names. *)
LEMMA LeafIsGranted ==
  ASSUME TypeOK, PermissionsOfLastToken, NEW c \in Present, NEW x \in Texts, NEW right,
         checkSignalAccess(ChannelOfClient(c).perms, VSSGen1Path(x), right),
         NEW l \in LeavesOf(x)
  PROVE  GrantedTo(c, Dotted(l), right)
PROOF
  <1>1. PICK i \in DOMAIN Claims[last[c]].perms :
          /\ right \in Claims[last[c]].perms[i].right
          /\ Claims[last[c]].perms[i].key \in Seq(STRING)
          /\ \/ Claims[last[c]].perms[i].key = VSSGen1Path(x)
             \/ Matches(VSSGen1Path(x), Claims[last[c]].perms[i].key)
    BY AccessByKey
  <1>2. Matches(VSSGen1Path(x), Claims[last[c]].perms[i].key)
    BY <1>1, TextTypes, MatchesItself
  <1>3. l \in Leaves /\ Selects(JSONPath(x), l)
    BY DEF LeavesOf, ResultsOf, Results
  <1>4. Matches(Dotted(l), gen2togen1(Claims[last[c]].perms[i].key))
    BY <1>1, <1>2, <1>3, TextTypes, LeafTypes, MatchCoversSelected
  <1> QED
    BY <1>1, <1>4, AccessByKey DEF GrantedTo, Granted, Covers

LEMMA ReadsFollow == TypeOK /\ PermissionsOfLastToken => ReadsGranted
PROOF
  <1> SUFFICES ASSUME TypeOK, PermissionsOfLastToken, NEW c \in Present, NEW x \in Texts,
                      200 \in processGet(ChannelOfClient(c).perms, x)
               PROVE  \A l \in LeafPathsOf[x] : GrantedTo(c, Dotted(l), "r")
    BY DEF ReadsGranted
  <1>1. AllReadable(ChannelOfClient(c).perms, x)
    BY DEF processGet, pathNotFound, noAccess, notSetResponse
  <1>2. LeafPathsOf[x] \subseteq Leaves
    BY DEF LeafPathsOf, LeafPaths
  <1> QED
    BY <1>1, <1>2, LeafTypes, AccessIsGranted DEF AllReadable

(* A get is answered with values only if the client's token grants reading every
   leaf of the answer, for any tree, token and path.                           *)
THEOREM ReadsAreGranted == Spec => []ReadsGranted
PROOF
  <1> QED
    BY RequestTypes, PermissionsAreOfLastToken, ReadsFollow, PTL

-----------------------------------------------------------------------------
(* Subscriptions *)

(* The channel of a subscribe call is, while it lives, the channel of the session
   it was made from, which streamed at this address: sessions are not authorized
   anew.                                                                       *)
StreamsInv ==
  \A a \in Open :
    /\ grpcSubscribeSessionMap[a].from \in Known \cap callers[a]
    /\ grpcSubscribeSessionMap[a].channel = grpcSessionMap[grpcSubscribeSessionMap[a].from]

SubsInv ==
  /\ \A s \in subs : s.client \notin WsClients => s.chan \in Contexts
  /\ SubscriptionsGranted

LEMMA StreamsInit == Init => StreamsInv /\ SubsInv
PROOF
  BY DEF Init, StreamsInv, SubsInv, SubscriptionsGranted, Open

(* What was accepted, and who called, is remembered. *)
HistoryGrows ==
  /\ \A a \in Contexts : callers[a] \subseteq callers'[a]
  /\ \A c \in Clients : accepted[c] \subseteq accepted'[c]

LEMMA HistoryStep == TypeOK /\ [Next]_vars => HistoryGrows
PROOF
  <1> SUFFICES ASSUME TypeOK, [Next]_vars
               PROVE  HistoryGrows
    OBVIOUS
  <1>1. ASSUME UNCHANGED <<accepted, callers>>
        PROVE  HistoryGrows
    BY <1>1 DEF HistoryGrows
  <1>2. ASSUME NEW c \in Clients, NEW t \in Tokens, Accept(c, t)
        PROVE  HistoryGrows
    BY <1>2 DEF Accept, TypeOK, HistoryGrows
  <1>3. CASE \E c \in WsClients : WsRequest(c)
    BY <1>1, <1>2, <1>3 DEF WsRequest, WsAuthorize, WsSubscribe, WsSet, history, Clients
  <1>4. CASE \E k \in Sessions, t \in Tokens : GrpcAuthorize(k, t)
    BY <1>2, <1>4 DEF GrpcAuthorize, Clients
  <1>5. ASSUME NEW g \in Threads, NEW k \in Sessions \cup {None}, NEW a \in Contexts,
               CallSubscribe(g, k, a)
        PROVE  HistoryGrows
    <2>1. accepted' = accepted /\ (Stream(g, k, a) \/ callers' = callers)
      BY <1>5 DEF CallSubscribe
    <2> QED
      BY <1>1, <2>1 DEF Stream, TypeOK, HistoryGrows
  <1>6. ASSUME NEW g \in Threads, GrpcCall(g)
        PROVE  HistoryGrows
    BY <1>1, <1>5, <1>6 DEF GrpcCall, CallGet, CallSet, StreamSubscribe, StreamRefused,
       GetStep, GetMetaDataStep, SetStep, FinishCall, CloseStream, Return, history
  <1>7. CASE UNCHANGED vars
    BY <1>1, <1>7 DEF vars, history
  <1> QED
    BY <1>3, <1>4, <1>6, <1>7 DEF Next

LEMMA StreamsStep == TypeOK /\ StreamsInv /\ [Next]_vars => StreamsInv'
PROOF
  <1> SUFFICES ASSUME TypeOK, StreamsInv, [Next]_vars
               PROVE  StreamsInv'
    OBVIOUS
  <1>1. ASSUME NEW k \in Sessions, NEW t \in Tokens, GrpcAuthorize(k, t)
        PROVE  StreamsInv'
    <2>1. PICK ch : grpcSessionMap' = With(grpcSessionMap, k, ch)
      BY <1>1 DEF GrpcAuthorize
    <2>2. k \notin Known /\ grpcSubscribeSessionMap' = grpcSubscribeSessionMap
      BY <1>1 DEF GrpcAuthorize
    <2>3. Known \subseteq Known' /\ \A j \in Known : grpcSessionMap'[j] = grpcSessionMap[j]
      BY <2>1, <2>2 DEF With, Known
    <2>4. callers' = callers
      BY <1>1 DEF GrpcAuthorize, Accept
    <2> QED
      BY <2>2, <2>3, <2>4 DEF StreamsInv, Open
  <1>2. ASSUME NEW c \in WsClients, NEW t \in Tokens, WsAuthorize(c, t)
        PROVE  StreamsInv'
    BY <1>2 DEF WsAuthorize, Accept, history, StreamsInv, Open, Known
  <1>3. ASSUME MapGrows, UNCHANGED grpcSubscribeSessionMap
        PROVE  StreamsInv'
    BY <1>3, HistoryStep DEF MapGrows, HistoryGrows, StreamsInv, TypeOK, Open
  <1>4. ASSUME MapGrows, NEW g \in Threads, NEW k \in Sessions \cup {None}, NEW a \in Contexts,
               CallSubscribe(g, k, a)
        PROVE  StreamsInv'
    <2>1. CASE UNCHANGED grpcSubscribeSessionMap
      BY <1>3, <1>4, <2>1
    <2>2. CASE /\ k # None /\ authChecker(k) /\ Stream(g, k, a)
               /\ grpcSubscribeSessionMap' =
                    With(grpcSubscribeSessionMap, a, [channel |-> grpcSessionMap'[k], from |-> k])
      <3>1. k \in Known' /\ (Stream(g, k, a) => k \in callers'[a])
        BY <2>2, CheckerGrows DEF Stream, TypeOK
      <3> DEFINE entry == [channel |-> grpcSessionMap'[k], from |-> k]
      <3>2. entry.channel = grpcSessionMap'[k] /\ entry.from = k
        OBVIOUS
      <3> HIDE DEF entry
      <3>3. grpcSubscribeSessionMap' = With(grpcSubscribeSessionMap, a, entry)
        BY <2>2 DEF entry
      <3>4. /\ Open' = Open \cup {a} /\ grpcSubscribeSessionMap'[a] = entry
            /\ \A b \in Open \ {a} : grpcSubscribeSessionMap'[b] = grpcSubscribeSessionMap[b]
        BY <3>3 DEF With, Open
      <3> QED
        BY <1>4, <2>2, <3>1, <3>2, <3>4, HistoryStep
           DEF StreamsInv, MapGrows, HistoryGrows, TypeOK
    <2> QED
      BY <1>4, <2>1, <2>2 DEF CallSubscribe, channels
  <1>5. \/ UNCHANGED grpcSubscribeSessionMap
        \/ \E g \in Threads, k \in Sessions \cup {None}, a \in Contexts : CallSubscribe(g, k, a)
    <2>1. CASE \E c \in WsClients : WsRequest(c)
      BY <2>1 DEF WsRequest, WsAuthorize, WsSubscribe, WsSet, channels
    <2>2. CASE \E k \in Sessions, t \in Tokens : GrpcAuthorize(k, t)
      BY <2>2 DEF GrpcAuthorize
    <2>3. ASSUME NEW g \in Threads, NEW k \in Sessions \cup {None},
                 \/ \E list \in GetCalls : CallGet(g, "get", k, list) \/ CallGet(g, "getMetaData", k, list)
                 \/ \E list \in SetCalls : CallSet(g, k, list)
          PROVE  UNCHANGED grpcSubscribeSessionMap
      BY <2>3 DEF CallGet, CallSet
    <2>4. ASSUME NEW g \in Threads,
                 \/ \E x \in Texts : StreamSubscribe(g, x) \/ StreamRefused(g, x)
                 \/ GetStep(g) \/ GetMetaDataStep(g) \/ SetStep(g) \/ FinishCall(g)
                 \/ CloseStream(g) \/ Return(g)
          PROVE  UNCHANGED grpcSubscribeSessionMap
      BY <2>4 DEF StreamSubscribe, StreamRefused, GetStep, GetMetaDataStep, SetStep,
                  FinishCall, CloseStream, Return, channels
    <2>5. CASE \E g \in Threads : GrpcCall(g)
      BY <2>3, <2>4, <2>5 DEF GrpcCall
    <2>6. CASE UNCHANGED vars
      BY <2>6 DEF vars, channels
    <2> QED
      BY <2>1, <2>2, <2>5, <2>6 DEF Next
  <1> QED
    BY <1>1, <1>2, <1>3, <1>4, <1>5, OtherSteps

LEMMA SubsKept ==
  ASSUME TypeOK, SubsInv, HistoryGrows, subs' \subseteq subs
  PROVE  SubsInv'
PROOF
  <1>1. ASSUME NEW s \in subs, s \in subs'
        PROVE  \E c \in JudgedAs(s)' : \E t \in accepted'[c] : Granted(t, VSSGen1Path(s.path), "r")
    <2>1. PICK c \in JudgedAs(s) : \E t \in accepted[c] : Granted(t, VSSGen1Path(s.path), "r")
      BY DEF SubsInv, SubscriptionsGranted
    <2>2. c \in Clients /\ c \in JudgedAs(s)'
      BY <2>1 DEF SubsInv, JudgedAs, HistoryGrows, TypeOK, Clients
    <2>3. accepted[c] \subseteq accepted'[c]
      BY <2>2 DEF HistoryGrows
    <2> QED
      BY <2>1, <2>2, <2>3
  <1> QED
    BY <1>1 DEF SubsInv, SubscriptionsGranted

LEMMA SubscribeGranted ==
  ASSUME TypeOK, SubsInv, NEW chan, NEW client, NEW perms, NEW x \in Texts,
         subscribe(chan, client, perms, x), client \notin WsClients => chan \in Contexts,
         NEW c \in (IF client \in WsClients THEN {client} ELSE callers[chan]),
         \E t \in accepted[c] : Granted(t, VSSGen1Path(x), "r"),
         UNCHANGED history
  PROVE  SubsInv'
PROOF
  <1>1. PICK i : subs' = subs \cup {[id |-> i, chan |-> chan, client |-> client, path |-> x]}
    BY DEF subscribe
  <1> DEFINE new == [id |-> i, chan |-> chan, client |-> client, path |-> x]
  <1>2. new.chan = chan /\ new.client = client /\ new.path = x
    OBVIOUS
  <1>3. subs' = subs \cup {new}
    BY <1>1
  <1> HIDE DEF new
  <1>4. c \in JudgedAs(new)
    BY <1>2 DEF JudgedAs
  <1>5. accepted' = accepted /\ callers' = callers
    BY DEF history
  <1>6. \A s \in subs \cup {new} : s.client \notin WsClients => s.chan \in Contexts
    BY <1>2 DEF SubsInv
  <1>7. \A s \in subs \cup {new} : \E d \in JudgedAs(s) : \E t \in accepted[d] :
          Granted(t, VSSGen1Path(s.path), "r")
    BY <1>2, <1>4 DEF SubsInv, SubscriptionsGranted
  <1> QED
    BY <1>3, <1>5, <1>6, <1>7 DEF SubsInv, SubscriptionsGranted, JudgedAs

LEMMA SubsStep ==
  TypeOK /\ PermissionsInv /\ StreamsInv /\ SubsInv /\ [Next]_vars => SubsInv'
PROOF
  <1> SUFFICES ASSUME TypeOK, PermissionsInv, StreamsInv, SubsInv, [Next]_vars
               PROVE  SubsInv'
    OBVIOUS
  <1>0. PermissionsOfLastToken
    BY PermissionsFollow
  <1>1. ASSUME NEW c \in Present, NEW x \in Texts, MaySubscribe(ChannelOfClient(c).perms, x)
        PROVE  \E t \in accepted[c] : Granted(t, VSSGen1Path(x), "r")
    <2>1. GrantedTo(c, VSSGen1Path(x), "r")
      BY <1>0, <1>1, TextTypes, AccessIsGranted DEF MaySubscribe
    <2>2. last[c] \in accepted[c]
      BY <1>0, <2>1 DEF GrantedTo, PermissionsOfLastToken
    <2> QED
      BY <2>1, <2>2 DEF GrantedTo
  <1>2. ASSUME NEW c \in WsClients, NEW x \in Texts, WsSubscribe(c, x)
        PROVE  SubsInv'
    <2>1. c \in Present /\ ChannelOfClient(c) = session[c]
      BY DEF Present, ChannelOfClient
    <2>2. subscribe(c, c, session[c].perms, x) /\ UNCHANGED history
      BY <1>2 DEF WsSubscribe
    <2>3. MaySubscribe(ChannelOfClient(c).perms, x)
      BY <2>1, <2>2 DEF subscribe
    <2>4. c \in (IF c \in WsClients THEN {c} ELSE callers[c])
      OBVIOUS
    <2> QED
      BY <1>1, <2>1, <2>2, <2>3, <2>4, SubscribeGranted
  <1>3. ASSUME NEW g \in Threads, NEW x \in Texts, StreamSubscribe(g, x)
        PROVE  SubsInv'
    <2> DEFINE k == ChannelOf(g).from
               a == call[g].ctx
               client == call[g].session
    <2>1. a \in Open /\ a \in Contexts /\ client \notin WsClients
      BY <1>3, RequestConstants DEF TypeOK, StreamSubscribe, Call, Clients
    <2>2. k \in Known /\ k \in callers[a] /\ ChannelOf(g).channel = grpcSessionMap[k]
      BY <2>1 DEF StreamsInv, ChannelOf
    <2>3. k \in Present /\ ChannelOfClient(k) = grpcSessionMap[k]
      BY <2>2, RequestConstants DEF Present, ChannelOfClient, TypeOK
    <2>4. subscribe(a, client, ChannelOf(g).channel.perms, x) /\ UNCHANGED history
      BY <1>3 DEF StreamSubscribe
    <2>5. MaySubscribe(ChannelOfClient(k).perms, x)
      BY <2>2, <2>3, <2>4 DEF subscribe
    <2> HIDE DEF k, a, client
    <2>6. k \in (IF client \in WsClients THEN {client} ELSE callers[a])
      BY <2>1, <2>2
    <2>7. \E t \in accepted[k] : Granted(t, VSSGen1Path(x), "r")
      BY <1>1, <2>3, <2>5
    <2> QED
      BY <2>1, <2>4, <2>6, <2>7, SubscribeGranted
  <1>4. ASSUME subs' \subseteq subs
        PROVE  SubsInv'
    BY <1>4, HistoryStep, SubsKept
  <1>5. CASE \E c \in WsClients : WsRequest(c)
    BY <1>2, <1>4, <1>5 DEF WsRequest, WsAuthorize, WsSet
  <1>6. CASE \E k \in Sessions, t \in Tokens : GrpcAuthorize(k, t)
    BY <1>4, <1>6 DEF GrpcAuthorize
  <1>7. CASE \E g \in Threads : GrpcCall(g)
    <2>1. PICK g \in Threads : GrpcCall(g)
      BY <1>7
    <2>2. ASSUME NEW k \in Sessions \cup {None},
                 \/ \E list \in GetCalls : CallGet(g, "get", k, list) \/ CallGet(g, "getMetaData", k, list)
                 \/ \E list \in SetCalls : CallSet(g, k, list)
                 \/ \E a \in Contexts : CallSubscribe(g, k, a)
          PROVE  SubsInv'
      BY <1>4, <2>2 DEF CallGet, CallSet, CallSubscribe
    <2>3. ASSUME \/ \E x \in Texts : StreamRefused(g, x)
                 \/ GetStep(g) \/ GetMetaDataStep(g) \/ SetStep(g) \/ FinishCall(g) \/ Return(g)
          PROVE  SubsInv'
      BY <1>4, <2>3 DEF StreamRefused, GetStep, GetMetaDataStep, SetStep, FinishCall, Return
    <2>4. ASSUME CloseStream(g)
          PROVE  SubsInv'
      BY <1>4, <2>4 DEF CloseStream
    <2> QED
      BY <1>3, <2>1, <2>2, <2>3, <2>4 DEF GrpcCall
  <1>8. CASE UNCHANGED vars
    BY <1>4, <1>8 DEF vars
  <1> QED
    BY <1>5, <1>6, <1>7, <1>8 DEF Next

(* A subscription is on a path that a token grants reading which was accepted from
   the client: from the WebSocket session itself, or from a session that streamed
   at the address of the gRPC call.                                            *)
THEOREM SubscriptionsAreGranted == Spec => []SubscriptionsGranted
PROOF
  <1>1. SubsInv => SubscriptionsGranted
    BY DEF SubsInv
  <1> QED
    BY <1>1, InitTypes, TypesStep, PermissionsInit, PermissionsStep, StreamsInit,
       StreamsStep, SubsStep, PTL DEF Spec

-----------------------------------------------------------------------------
(* Leaves and their descriptions *)

Types == {"number", "boolean", "string", "array", "unsupported"}
Typed(d) == d.type \in Types /\ {d.lo, d.hi, d.min, d.max} \subseteq Int /\ d.lo <= d.hi
Whole(v) == Form(v) = "number" => Content(v) \in Int

(* A path that can be written is one leaf. *)
LEMMA OneLeaf ==
  ASSUME NEW x \in Texts, pathIsReadable(x), NEW l \in LeavesOf(x), NEW m \in LeavesOf(x)
  PROVE  l = m
PROOF
  <1>1. ResultsOf[x] \in SUBSET Nodes(Leaves)
    BY DEF ResultsOf, Results
  <1>2. IsFiniteSet(ResultsOf[x])
    BY <1>1, FS_Subset, TreeConstants
  <1>3. PICK n : ResultsOf[x] = {n}
    BY <1>2, FS_Singleton DEF pathIsReadable
  <1> QED
    BY <1>3 DEF LeavesOf

LEMMA DescriptionsTyped ==
  ASSUME TypeOK, NEW l \in Leaves
  PROVE  Typed(desc[l])
PROOF
  BY TreeConstants DEF TypeOK, Typed, Types

-----------------------------------------------------------------------------
(* The paths of set calls *)

(* What is left of a set call is left of a list of paths and values, and it has
   a session: authChecker made it known.                                       *)
SetsTyped ==
  \A g \in Threads : call[g].op = "set" =>
    call[g].todo \in Seq(Texts \X Values) /\ call[g].session \in Known

LEMMA KnownGrows == TypeOK /\ [Next]_vars => Known \subseteq Known'
PROOF
  <1> SUFFICES ASSUME TypeOK, [Next]_vars
               PROVE  Known \subseteq Known'
    OBVIOUS
  <1>1. ASSUME NEW c \in WsClients, NEW t \in Tokens, WsAuthorize(c, t)
        PROVE  Known \subseteq Known'
    BY <1>1 DEF WsAuthorize, Known
  <1>2. ASSUME NEW k \in Sessions, NEW t \in Tokens, GrpcAuthorize(k, t)
        PROVE  Known \subseteq Known'
    <2>1. PICK ch : grpcSessionMap' = With(grpcSessionMap, k, ch)
      BY <1>2 DEF GrpcAuthorize
    <2> QED
      BY <2>1 DEF With, Known
  <1> QED
    BY <1>1, <1>2, OtherSteps DEF MapGrows

LEMMA SetsStep == TypeOK /\ SetsTyped /\ [Next]_vars => SetsTyped'
PROOF
  <1> SUFFICES ASSUME TypeOK, SetsTyped, [Next]_vars
               PROVE  SetsTyped'
    OBVIOUS
  <1>0. Known \subseteq Known'
    BY KnownGrows
  <1>1. ASSUME UNCHANGED call
        PROVE  SetsTyped'
    BY <1>0, <1>1 DEF SetsTyped
  <1>2. ASSUME NEW g \in Threads, NEW new, call' = [call EXCEPT ![g] = new],
               new.op = "set" => new.todo \in Seq(Texts \X Values) /\ new.session \in Known'
        PROVE  SetsTyped'
    BY <1>0, <1>2 DEF SetsTyped, TypeOK
  <1>3. CASE \/ \E c \in WsClients : WsRequest(c)
             \/ \E k \in Sessions, t \in Tokens : GrpcAuthorize(k, t)
             \/ UNCHANGED vars
    BY <1>1, <1>3 DEF WsRequest, WsAuthorize, WsSubscribe, WsSet, GrpcAuthorize, vars
  <1>4. ASSUME NEW g \in Threads, GrpcCall(g)
        PROVE  SetsTyped'
    <2>0. call[g] \in Call /\ call \in [Threads -> Call]
      BY DEF TypeOK
    <2>1. ASSUME NEW code, Refuse(g, code)
          PROVE  SetsTyped'
      <3>1. Refused(code).op = "answered"
        BY NoCallTypes DEF Refused, Call
      <3>2. call' = [call EXCEPT ![g] = Refused(code)]
        BY <2>1 DEF Refuse, Refused
      <3> QED
        BY <1>2, <3>1, <3>2
    <2>2. ASSUME NEW op \in {"get", "getMetaData"}, NEW k \in Sessions \cup {None},
                 NEW list \in GetCalls, CallGet(g, op, k, list)
          PROVE  SetsTyped'
      <3>1. CASE Refuse(g, 404) \/ Refuse(g, 400)
        BY <2>1, <3>1
      <3>2. CASE Start(g, op, k, list)
        <4>1. list \in Lists
          BY RequestConstants DEF Lists
        <4>2. Started(op, k, list).op = op
          BY <4>1, StartTypes
        <4>3. call' = [call EXCEPT ![g] = Started(op, k, list)]
          BY <3>2 DEF Start, Started
        <4> QED
          BY <1>2, <4>2, <4>3
      <3> QED
        BY <2>2, <3>1, <3>2 DEF CallGet
    <2>3. ASSUME NEW k \in Sessions \cup {None}, NEW list \in SetCalls, CallSet(g, k, list)
          PROVE  SetsTyped'
      <3>1. CASE Refuse(g, 404)
        BY <2>1, <3>1
      <3>2. CASE k # None /\ Start(g, "set", k, list)
        <4>1. list \in Seq(Texts \X Values)
          BY RequestConstants
        <4>2. Started("set", k, list).todo = list /\ Started("set", k, list).session = k
          <5>1. list \in Lists
            BY <4>1 DEF Lists
          <5> QED
            BY <5>1, StartTypes
        <4>3. call' = [call EXCEPT ![g] = Started("set", k, list)]
          BY <3>2 DEF Start, Started
        <4>4. k \in Known'
          BY <2>3, <3>2, CheckerGrows DEF CallSet
        <4> QED
          BY <1>2, <4>1, <4>2, <4>3, <4>4
      <3>3. Refuse(g, 404) \/ (k # None /\ Start(g, "set", k, list))
        BY <2>3 DEF CallSet
      <3> QED
        BY <3>1, <3>2, <3>3
    <2>4. ASSUME NEW k \in Sessions \cup {None}, NEW a \in Contexts, CallSubscribe(g, k, a)
          PROVE  SetsTyped'
      <3>1. CASE Refuse(g, 404)
        BY <2>1, <3>1
      <3>2. CASE Stream(g, k, a)
        <4> DEFINE new == StreamCall(k, a)
        <4>1. new.op = "stream"
          BY StreamTypes
        <4>2. call' = [call EXCEPT ![g] = new]
          BY <3>2 DEF Stream, StreamCall
        <4> HIDE DEF new
        <4> QED
          BY <1>2, <4>1, <4>2
      <3> QED
        BY <2>4, <3>1, <3>2 DEF CallSubscribe
    <2>5. ASSUME NEW code, Done(g, code), call[g].todo # <<>>
          PROVE  SetsTyped'
      <3> DEFINE new == After(call[g], code)
      <3>1. /\ new.op = call[g].op /\ new.todo = Tail(call[g].todo)
            /\ new.session = call[g].session
        BY <2>0, AfterFields
      <3>2. call' = [call EXCEPT ![g] = new]
        BY <2>5 DEF Done
      <3> HIDE DEF new
      <3>3. ASSUME NEW s \in Seq(Texts \X Values), s # <<>>
            PROVE  Tail(s) \in Seq(Texts \X Values)
        BY <3>3
      <3>4. new.op = "set" => new.todo \in Seq(Texts \X Values) /\ new.session \in Known'
        BY <1>0, <2>5, <3>1, <3>3 DEF SetsTyped
      <3> QED
        BY <1>2, <3>2, <3>4
    <2>6. CASE GetStep(g) \/ GetMetaDataStep(g) \/ SetStep(g)
      BY <2>5, <2>6 DEF GetStep, GetMetaDataStep, SetStep
    <2>7. CASE \/ \E x \in Texts : StreamSubscribe(g, x) \/ StreamRefused(g, x)
               \/ FinishCall(g)
      <3> DEFINE n == StatusCode(call[g])
                 kept     == [call[g] EXCEPT !.kept = @ + 1]
                 closing  == [call[g] EXCEPT !.op = "closing"]
                 answered == [call[g] EXCEPT !.op = "answered", !.code = n]
      <3>1. /\ kept.op = call[g].op /\ kept.todo = call[g].todo /\ kept.session = call[g].session
            /\ closing.op = "closing" /\ answered.op = "answered"
        BY <2>0 DEF Call
      <3>2. \/ call' = [call EXCEPT ![g] = kept] \/ call' = [call EXCEPT ![g] = closing]
            \/ call' = [call EXCEPT ![g] = answered]
        BY <2>0, <2>7 DEF StreamSubscribe, StreamRefused, FinishCall
      <3> HIDE DEF kept, closing, answered
      <3> QED
        BY <1>0, <1>2, <3>1, <3>2 DEF SetsTyped
    <2>8. CASE CloseStream(g) \/ Return(g)
      <3>1. call' = [call EXCEPT ![g] = NoCall]
        BY <2>8 DEF CloseStream, Return
      <3> QED
        BY <1>2, <3>1, NoCallTypes
    <2> QED
      BY <1>4, <2>2, <2>3, <2>4, <2>6, <2>7, <2>8 DEF GrpcCall
  <1> QED
    BY <1>3, <1>4 DEF Next

LEMMA SetsInit == Init => SetsTyped
PROOF
  BY NoCallTypes DEF Init, SetsTyped

LEMMA HeadTypes ==
  ASSUME SetsTyped, NEW g \in Threads, SetStep(g)
  PROVE  Head(call[g].todo)[1] \in Texts /\ Head(call[g].todo)[2] \in Values
PROOF
  <1>1. ASSUME NEW s \in Seq(Texts \X Values), s # <<>>
        PROVE  Head(s) \in Texts \X Values
    BY <1>1
  <1>2. Head(call[g].todo) \in Texts \X Values
    BY <1>1 DEF SetStep, SetsTyped
  <1> QED
    BY <1>2

-----------------------------------------------------------------------------
(* The status of gRPC calls *)

(* A call under way has failed exactly when fewer paths succeeded, or were counted
   as if, than are done; as long as none did it has no status 200 to leave behind. *)
SomeUnsupported == \E l \in Leaves : desc[l].type = "unsupported"
Told(c)         == c.kept + c.lost

Counted(c) ==
  /\ c.lost > 0 => SomeUnsupported
  /\ c.op \in {"get", "getMetaData", "set"} =>
       /\ Told(c) + Len(c.todo) <= c.size
       /\ c.failed => Told(c) + Len(c.todo) < c.size
       /\ Told(c) + Len(c.todo) < c.size => c.failed
       /\ Told(c) = 0 => c.code # 200
  /\ c.op = "answered" =>
       /\ c.code = 200 => Told(c) = c.size
       /\ c.size > 0 /\ Told(c) = c.size => c.code = 200

CountsInv == \A g \in Threads : Counted(call[g])

LEMMA CountsFollow == CountsInv => StatusTellsAll
PROOF
  BY DEF CountsInv, Counted, Told, SomeUnsupported, StatusTellsAll

LEMMA CountsInit == Init => CountsInv
PROOF
  BY NoCallTypes DEF Init, CountsInv, Counted

LEMMA CountedAfter ==
  ASSUME NEW c \in Call, NEW code \in Numbers, Counted(c), c.todo # <<>>,
         c.op \in {"get", "getMetaData", "set"}, code = unknownError => SomeUnsupported
  PROVE  Counted(After(c, code))
PROOF
  <1> DEFINE d == After(c, code)
  <1>1. /\ d.op = c.op /\ d.size = c.size /\ d.todo = Tail(c.todo)
        /\ d.kept = IF code = 200 THEN c.kept + 1 ELSE c.kept
        /\ d.lost = IF code = unknownError THEN c.lost + 1 ELSE c.lost
        /\ d.code = IF Succeeds(code) THEN (IF c.op = "set" THEN 200 ELSE c.code)
                    ELSE IF code = 0 THEN c.code ELSE code
    BY AfterFields
  <1>2. d.failed = (c.failed \/ ~Succeeds(code)) /\ c.failed \in BOOLEAN
    BY AfterFailed DEF Call
  <1>3. Len(c.todo) \in Nat /\ Len(d.todo) = Len(c.todo) - 1 /\ Len(d.todo) \in Nat
    BY <1>1, TodoLength DEF After
  <1>4. c.kept \in Nat /\ c.lost \in Nat /\ c.size \in Nat
    BY DEF Call
  <1> HIDE DEF d
  <1>0. /\ c.lost > 0 => SomeUnsupported
        /\ Told(c) + Len(c.todo) <= c.size
        /\ c.failed => Told(c) + Len(c.todo) < c.size
        /\ Told(c) + Len(c.todo) < c.size => c.failed
        /\ Told(c) = 0 => c.code # 200
    BY DEF Counted
  <1>5. CASE Succeeds(code)
    <2>1. d.failed <=> c.failed
      BY <1>2, <1>5
    <2>2. Told(d) + Len(d.todo) = Told(c) + Len(c.todo) /\ Told(d) # 0
      <3>1. \/ d.kept = c.kept + 1 /\ d.lost = c.lost
            \/ d.kept = c.kept /\ d.lost = c.lost + 1
        BY <1>1, <1>5 DEF Succeeds, unknownError
      <3>2. Len(d.todo) = Len(c.todo) - 1
        BY <1>3
      <3>3. \A k, m, n \in Nat : /\ ((k + 1) + m) + (n - 1) = (k + m) + n /\ (k + 1) + m # 0
                                 /\ (k + (m + 1)) + (n - 1) = (k + m) + n /\ k + (m + 1) # 0
        OBVIOUS
      <3>4. /\ d.kept = c.kept + 1 /\ d.lost = c.lost =>
                 Told(d) + Len(d.todo) = Told(c) + Len(c.todo) /\ Told(d) # 0
            /\ d.kept = c.kept /\ d.lost = c.lost + 1 =>
                 Told(d) + Len(d.todo) = Told(c) + Len(c.todo) /\ Told(d) # 0
        <4> DEFINE n == Len(c.todo)
        <4>1. n \in Nat /\ Len(d.todo) = n - 1
          BY <1>3, <3>2
        <4> HIDE DEF n
        <4>2. Told(d) = d.kept + d.lost /\ Told(c) = c.kept + c.lost
          BY DEF Told
        <4>3. /\ d.kept = c.kept + 1 /\ d.lost = c.lost =>
                   Told(d) + (n - 1) = Told(c) + n /\ Told(d) # 0
              /\ d.kept = c.kept /\ d.lost = c.lost + 1 =>
                   Told(d) + (n - 1) = Told(c) + n /\ Told(d) # 0
          BY <1>4, <3>3, <4>1, <4>2
        <4> QED
          BY <4>1, <4>3 DEF n
      <3> QED
        BY <3>1, <3>4
    <2>3. d.lost > 0 => SomeUnsupported
      BY <1>0, <1>1, <1>4
    <2> QED
      BY <1>0, <1>1, <2>1, <2>2, <2>3 DEF Counted, d
  <1>6. CASE ~Succeeds(code)
    <2>1. d.failed
      BY <1>2, <1>6
    <2>2. Told(d) = Told(c) /\ d.lost = c.lost
      BY <1>1, <1>6 DEF Succeeds, Told
    <2>3. Told(d) + Len(d.todo) < d.size /\ Told(d) + Len(d.todo) <= d.size
      BY <1>0, <1>1, <1>3, <1>4, <2>2 DEF Told
    <2>4. Told(d) = 0 => d.code # 200
      BY <1>0, <1>1, <1>6, <2>2 DEF Succeeds
    <2> QED
      BY <1>0, <1>1, <2>1, <2>2, <2>3, <2>4 DEF Counted, d
  <1> QED
    BY <1>5, <1>6 DEF d

LEMMA CountedAnswer ==
  ASSUME NEW c \in Call, Counted(c), c.todo = <<>>, c.op \in {"get", "getMetaData", "set"},
         NEW d, d.op = "answered", d.code = StatusCode(c),
         d.kept = c.kept, d.lost = c.lost, d.size = c.size
  PROVE  Counted(d)
PROOF
  <1>1. Len(c.todo) = 0 /\ Told(c) \in Nat /\ c.size \in Nat /\ Told(d) = Told(c)
    BY TodoLength DEF Call, Told
  <1>2. CASE c.failed
    <2>1. Told(c) < c.size
      BY <1>1, <1>2 DEF Counted
    <2>2. StatusCode(c) = IF c.size > 1 THEN 400 ELSE c.code
      BY <1>2 DEF StatusCode
    <2>3. StatusCode(c) # 200
      BY <1>1, <2>1, <2>2 DEF Counted
    <2> QED
      BY <1>1, <2>1, <2>3 DEF Counted
  <1>3. CASE ~c.failed
    <2>1. StatusCode(c) = 200
      BY <1>3 DEF StatusCode
    <2>2. Told(c) = c.size
      BY <1>1, <1>3 DEF Counted
    <2> QED
      BY <1>1, <2>1, <2>2 DEF Counted
  <1> QED
    BY <1>2, <1>3

(* The tree keeps its descriptions. *)
LEMMA DescriptionKept == [Next]_vars => UNCHANGED desc
PROOF
  <1> SUFFICES ASSUME [Next]_vars
               PROVE  UNCHANGED desc
    OBVIOUS
  <1>1. ASSUME NEW c \in WsClients, WsRequest(c)
        PROVE  UNCHANGED desc
    BY <1>1 DEF WsRequest, WsAuthorize, WsSubscribe, WsSet, data
  <1>2. ASSUME NEW k \in Sessions, NEW t \in Tokens, GrpcAuthorize(k, t)
        PROVE  UNCHANGED desc
    BY <1>2 DEF GrpcAuthorize, data
  <1>3. ASSUME NEW g \in Threads, GrpcCall(g)
        PROVE  UNCHANGED desc
    BY <1>3 DEF GrpcCall, CallGet, CallSet, CallSubscribe, StreamSubscribe, StreamRefused,
       GetStep, GetMetaDataStep, SetStep, FinishCall, CloseStream, Return, data
  <1> QED
    BY <1>1, <1>2, <1>3 DEF Next, vars, data

LEMMA CountsReplaced ==
  ASSUME TypeOK, CountsInv, NEW g \in Threads, NEW new, Counted(new), UNCHANGED desc,
         call' = [call EXCEPT ![g] = new]
  PROVE  CountsInv'
PROOF
  BY DEF TypeOK, CountsInv, Counted, SomeUnsupported

(* What a set over gRPC makes of a value is the answer to a type that is not
   supported only for a leaf of such a type.                                   *)
LEMMA FieldSupported ==
  ASSUME NEW v, NEW d, Typed(d), NEW r \in checkAndSanitizeType(FieldOf(v, d), d),
         r = Unsupported
  PROVE  d.type = "unsupported"
PROOF
  <1>0. \A c : <<"number", c>> # Unsupported /\ <<"bool", c>> # Unsupported
    <2>1. \A c : <<"number", c>>[1] # Unsupported[1] /\ <<"bool", c>>[1] # Unsupported[1]
      BY DEF Unsupported
    <2> QED
      BY <2>1
  <1>1. Error # Unsupported
    <2>1. Error[1] # Unsupported[1]
      BY DEF Error, Unsupported
    <2> QED
      BY <2>1
  <1>2. CASE d.type = "number"
    <2>1. r \in AsNumber(FieldOf(v, d), d) \/ r = Error
      BY <1>2 DEF checkAndSanitizeType, checkNumTypes
    <2>2. r = Error \/ \E c : r = <<"number", c>>
      BY <2>1 DEF AsNumber
    <2> QED
      BY <1>0, <1>1, <2>2
  <1>3. CASE d.type = "boolean"
    <2>1. r = Error \/ \E c : r = <<"bool", c>>
      BY <1>3 DEF checkAndSanitizeType, checkBoolType
    <2> QED
      BY <1>0, <1>1, <2>1
  <1>4. CASE d.type \in {"string", "array"}
    <2>1. r = FieldOf(v, d) \/ r = Error
      BY <1>4 DEF checkAndSanitizeType, checkEnumType, checkArrayType
    <2>2. FieldOf(v, d) = IF Form(v) \in {"text", "digits"} THEN v ELSE <<"text", "">>
      BY <1>4 DEF FieldOf
    <2>3. Form(Unsupported) = "unsupported"
      BY DEF Form, Unsupported
    <2>4. Form(<<"text", "">>) = "text"
      BY DEF Form
    <2>5. Form(FieldOf(v, d)) \in {"text", "digits"}
      BY <2>2, <2>4, Zenon
    <2> QED
      BY <1>1, <2>1, <2>3, <2>5
  <1> QED
    BY <1>2, <1>3, <1>4 DEF Typed, Types

LEMMA LostIsUnsupported ==
  ASSUME TypeOK, NEW x, NEW v, NEW perms, pathIsReadable(x), x \in Texts,
         NEW l \in LeavesOf(x), NEW r \in processSet(perms, x, FieldOf(v, desc[l])),
         r.code = unknownError
  PROVE  SomeUnsupported
PROOF
  <1> DEFINE w == FieldOf(v, desc[l])
  <1>1. r \in {[code |-> ErrorNumber(q), value |-> q] :
                 q \in UNION {checkAndSanitizeType(w, desc[m]) : m \in LeavesOf(x)}}
    BY DEF processSet, pathNotFound, noAccess, unknownError
  <1>2. PICK m \in LeavesOf(x) : \E q \in checkAndSanitizeType(w, desc[m]) :
          r.code = ErrorNumber(q)
    BY <1>1
  <1>3. PICK q \in checkAndSanitizeType(w, desc[m]) : r.code = ErrorNumber(q)
    BY <1>2
  <1>4. q = Unsupported
    BY <1>3 DEF ErrorNumber, unknownError, valueOutOfBounds
  <1>5. m = l /\ l \in Leaves
    BY OneLeaf DEF LeavesOf
  <1>6. q \in checkAndSanitizeType(FieldOf(v, desc[l]), desc[l])
    BY <1>3, <1>5
  <1>7. desc[l].type = "unsupported"
    BY <1>4, <1>5, <1>6, DescriptionsTyped, FieldSupported
  <1> QED
    BY <1>5, <1>7 DEF SomeUnsupported

LEMMA CountsStep == TypeOK /\ SetsTyped /\ CountsInv /\ [Next]_vars => CountsInv'
PROOF
  <1> SUFFICES ASSUME TypeOK, SetsTyped, CountsInv, [Next]_vars
               PROVE  CountsInv'
    OBVIOUS
  <1>0. UNCHANGED desc
    BY DescriptionKept
  <1>1. ASSUME UNCHANGED call
        PROVE  CountsInv'
    BY <1>0, <1>1 DEF CountsInv, Counted, SomeUnsupported
  <1>2. ASSUME NEW g \in Threads, NEW code \in {400, 404}, Refuse(g, code)
        PROVE  CountsInv'
    <2> DEFINE new == [NoCall EXCEPT !.op = "answered", !.code = code]
    <2>1. new.op = "answered" /\ new.code = code /\ new.size = 0 /\ new.lost = 0
      BY RefuseTypes DEF Codes, Refused
    <2>2. call' = [call EXCEPT ![g] = new]
      BY <1>2 DEF Refuse
    <2> HIDE DEF new
    <2>3. Counted(new)
      BY <2>1 DEF Counted
    <2> QED
      BY <1>0, <2>2, <2>3, CountsReplaced
  <1>3. ASSUME NEW g \in Threads, NEW k \in Sessions \cup {None}, NEW list \in Lists,
               NEW op \in {"get", "getMetaData", "set"}, Start(g, op, k, list)
        PROVE  CountsInv'
    <2> DEFINE new == Started(op, k, list)
    <2>1. /\ new.op = op /\ new.kept = 0 /\ new.lost = 0 /\ ~new.failed /\ new.code = 0
          /\ new.size = Len(list) /\ new.todo = list
      BY StartTypes
    <2>2. Len(list) \in Nat
      BY DEF Lists
    <2>3. call' = [call EXCEPT ![g] = new]
      BY <1>3 DEF Start, Started
    <2> HIDE DEF new
    <2>4. Counted(new)
      BY <2>1, <2>2 DEF Counted, Told
    <2> QED
      BY <1>0, <2>3, <2>4, CountsReplaced
  <1>4. ASSUME NEW g \in Threads, NEW code \in Numbers, Done(g, code),
               code = unknownError => SomeUnsupported,
               call[g].op \in {"get", "getMetaData", "set"}, call[g].todo # <<>>
        PROVE  CountsInv'
    <2>1. call[g] \in Call /\ Counted(call[g])
      BY DEF TypeOK, CountsInv
    <2>2. Counted(After(call[g], code))
      BY <1>4, <2>1, CountedAfter
    <2>3. call' = [call EXCEPT ![g] = After(call[g], code)]
      BY <1>4, <2>1 DEF Done, TypeOK
    <2> QED
      BY <1>0, <2>2, <2>3, CountsReplaced
  <1>6. CASE \E c \in WsClients : WsRequest(c)
    BY <1>1, <1>6 DEF WsRequest, WsAuthorize, WsSubscribe, WsSet
  <1>7. CASE \E k \in Sessions, t \in Tokens : GrpcAuthorize(k, t)
    BY <1>1, <1>7 DEF GrpcAuthorize
  <1>8. ASSUME NEW g \in Threads, GrpcCall(g)
        PROVE  CountsInv'
    <2>0. call[g] \in Call /\ {0, 200, pathNotFound} \subseteq Numbers \ {unknownError}
      BY DEF TypeOK, Codes, Numbers, pathNotFound, unknownError
    <2>1. ASSUME NEW op \in {"get", "getMetaData"}, NEW k \in Sessions \cup {None},
                 NEW list \in GetCalls, CallGet(g, op, k, list)
          PROVE  CountsInv'
      <3>1. list \in Lists
        BY RequestConstants DEF Lists
      <3> QED
        BY <1>2, <1>3, <2>1, <3>1 DEF CallGet
    <2>2. ASSUME NEW k \in Sessions \cup {None}, NEW list \in SetCalls, CallSet(g, k, list)
          PROVE  CountsInv'
      <3>1. list \in Seq(Texts \X Values)
        BY RequestConstants
      <3>2. list \in Lists
        BY <3>1 DEF Lists
      <3> QED
        BY <1>2, <1>3, <2>2, <3>2 DEF CallSet
    <2>3. ASSUME NEW k \in Sessions \cup {None}, NEW a \in Contexts, CallSubscribe(g, k, a)
          PROVE  CountsInv'
      <3> DEFINE new == StreamCall(k, a)
      <3>1. new.op = "stream" /\ new.lost = 0
        BY StreamTypes
      <3>2. Stream(g, k, a) => call' = [call EXCEPT ![g] = new]
        BY DEF Stream, StreamCall
      <3> HIDE DEF new
      <3>3. Stream(g, k, a) \/ Refuse(g, 404)
        BY <2>3 DEF CallSubscribe
      <3>4. Counted(new)
        BY <3>1 DEF Counted
      <3> QED
        BY <1>0, <1>2, <3>2, <3>3, <3>4, CountsReplaced
    <2>4. ASSUME NEW x \in Texts, StreamSubscribe(g, x) \/ StreamRefused(g, x)
          PROVE  CountsInv'
      <3>1. CASE StreamSubscribe(g, x)
        <4> DEFINE new == [call[g] EXCEPT !.kept = @ + 1]
        <4>1. new.op = "stream" /\ new.lost = call[g].lost
          BY <2>0, <3>1 DEF StreamSubscribe, Call
        <4>2. call' = [call EXCEPT ![g] = new]
          BY <3>1 DEF StreamSubscribe, TypeOK
        <4> HIDE DEF new
        <4>3. Counted(new)
          BY <4>1 DEF CountsInv, Counted
        <4> QED
          BY <1>0, <4>2, <4>3, CountsReplaced
      <3>2. CASE StreamRefused(g, x)
        <4> DEFINE new == [call[g] EXCEPT !.op = "closing"]
        <4>1. new.op = "closing" /\ new.lost = call[g].lost
          BY <2>0 DEF Call
        <4>2. call' = [call EXCEPT ![g] = new]
          BY <3>2 DEF StreamRefused, TypeOK
        <4> HIDE DEF new
        <4>3. Counted(new)
          BY <4>1 DEF CountsInv, Counted
        <4> QED
          BY <1>0, <4>2, <4>3, CountsReplaced
      <3> QED
        BY <2>4, <3>1, <3>2
    <2>5. ASSUME GetStep(g)
          PROVE  CountsInv'
      <3>1. PICK code \in processGet(PermsOf(g), Head(call[g].todo)) :
              Done(g, IF code = 200 /\ Cardinality(LeafPathsOf[Head(call[g].todo)]) > 1
                      THEN 0 ELSE code)
        BY <2>5 DEF GetStep
      <3>2. \E n \in Numbers \ {unknownError} : Done(g, n)
        BY <2>0, <3>1, GetCodes DEF Numbers
      <3> QED
        BY <1>4, <2>5, <3>2 DEF GetStep
    <2>6. ASSUME GetMetaDataStep(g)
          PROVE  CountsInv'
      <3>1. \E n \in Numbers \ {unknownError} : Done(g, n)
        BY <2>0, <2>6 DEF GetMetaDataStep
      <3> QED
        BY <1>4, <2>6, <3>1 DEF GetMetaDataStep
    <2>7. ASSUME SetStep(g)
          PROVE  CountsInv'
      <3> DEFINE x == Head(call[g].todo)[1]
                 v == Head(call[g].todo)[2]
      <3>1. CASE Done(g, 0)
        BY <1>4, <2>0, <2>7, <3>1 DEF SetStep
      <3>2. CASE /\ pathIsReadable(x)
                 /\ \E l \in LeavesOf(x) :
                      \E r \in processSet(PermsOf(g), x, FieldOf(v, desc[l])) : Done(g, r.code)
        <4>1. PICK l \in LeavesOf(x) :
                \E r \in processSet(PermsOf(g), x, FieldOf(v, desc[l])) : Done(g, r.code)
          BY <3>2
        <4>2. PICK r \in processSet(PermsOf(g), x, FieldOf(v, desc[l])) : Done(g, r.code)
          BY <4>1
        <4>3. x \in Texts
          BY <2>7, HeadTypes
        <4> HIDE DEF x, v
        <4>4. r.code \in Numbers /\ (r.code = unknownError => SomeUnsupported)
          BY <3>2, <4>3, SetCodes, LostIsUnsupported
        <4> QED
          BY <1>4, <2>7, <4>2, <4>4 DEF SetStep
      <3> QED
        BY <2>7, <3>1, <3>2 DEF SetStep
    <2>8. ASSUME FinishCall(g)
          PROVE  CountsInv'
      <3> DEFINE n == StatusCode(call[g])
      <3>1. call' = [call EXCEPT ![g] = [call[g] EXCEPT !.op = "answered", !.code = n]]
        BY <2>8 DEF FinishCall, TypeOK
      <3> HIDE DEF n
      <3> DEFINE new == [call[g] EXCEPT !.op = "answered", !.code = n]
      <3>2. /\ new.op = "answered" /\ new.code = n
            /\ new.kept = call[g].kept /\ new.lost = call[g].lost /\ new.size = call[g].size
        BY <2>0 DEF Call
      <3>3. call' = [call EXCEPT ![g] = new]
        BY <3>1
      <3> HIDE DEF new
      <3>4. Counted(new)
        BY <2>0, <2>8, <3>2, CountedAnswer DEF n, FinishCall, CountsInv
      <3> QED
        BY <1>0, <3>3, <3>4, CountsReplaced
    <2>9. ASSUME CloseStream(g) \/ Return(g)
          PROVE  CountsInv'
      <3>1. call' = [call EXCEPT ![g] = NoCall] 
        BY <2>9 DEF CloseStream, Return
      <3>2. Counted(NoCall)
        BY NoCallTypes DEF Counted
      <3> QED
        BY <1>0, <3>1, <3>2, CountsReplaced
    <2> QED
      BY <1>8, <2>1, <2>2, <2>3, <2>4, <2>5, <2>6, <2>7, <2>8, <2>9 DEF GrpcCall
  <1>9. CASE UNCHANGED vars
    BY <1>1, <1>9 DEF vars
  <1> QED
    BY <1>6, <1>7, <1>8, <1>9 DEF Next

(* A gRPC get, getMetaData or set on at least one path is answered with status 200
   exactly when no path of it had an error, for any number of paths and any
   interleaving: an error is not covered up by a path that succeeds after it.
   Without a leaf of a datatype that is not supported, no error is success.    *)
THEOREM StatusOfCalls == Spec => []StatusTellsAll
PROOF
  <1> QED
    BY InitTypes, TypesStep, SetsInit, SetsStep, CountsInit, CountsStep, CountsFollow, PTL DEF Spec

-----------------------------------------------------------------------------
(* Stored values *)

(* What is converted is in the width of the type, cut to it if need be. *)
LEMMA NumbersFit ==
  ASSUME NEW v, NEW d, Whole(v), {d.lo, d.hi} \subseteq Int, d.lo <= d.hi,
         NEW r \in AsNumber(v, d), r # Error
  PROVE  Form(r) = "number" /\ Content(r) \in d.lo .. d.hi
PROOF
  <1>1. CASE Content(v) \in d.lo .. d.hi
    <2>1. r = <<"number", Content(v)>>
      BY <1>1 DEF AsNumber
    <2> QED
      BY <1>1, <2>1 DEF Form, Content
  <1>2. CASE Content(v) \notin d.lo .. d.hi
    <2>1. Form(v) = "number" /\ r = <<"number", Wrapped(Content(v), d)>>
      BY <1>2 DEF AsNumber
    <2>2. \A n, lo, hi \in Int : lo <= hi => lo + ((n - lo) % (hi - lo + 1)) \in lo .. hi
      <3>1. \A a, m \in Int : m > 0 => a % m \in 0 .. m - 1
        OBVIOUS
      <3> QED
        BY <3>1
    <2>3. Wrapped(Content(v), d) \in d.lo .. d.hi
      BY <2>1, <2>2 DEF Wrapped, Whole
    <2> QED
      BY <2>1, <2>3 DEF Form, Content
  <1> QED
    BY <1>1, <1>2

(* checkAndSanitizeType lets nothing through that is not of the type. *)
LEMMA SanitizedFits ==
  ASSUME NEW v, NEW d, Typed(d), Whole(v), NEW r \in checkAndSanitizeType(v, d),
         r \notin {Error, Unsupported}
  PROVE  Fits(r, d)
PROOF
  <1>0. d.lo \in Int /\ d.hi \in Int /\ d.min \in Int /\ d.max \in Int /\ d.lo <= d.hi
    BY DEF Typed
  <1>1. CASE d.type = "number"
    <2>1. r \in checkNumTypes(v, d)
      BY <1>1 DEF checkAndSanitizeType
    <2>2. r \in AsNumber(v, d) /\ WithinLimits(Content(r), d)
      BY <2>1 DEF checkNumTypes
    <2>3. Form(r) = "number" /\ Content(r) \in d.lo .. d.hi
      BY <1>0, <2>2, NumbersFit
    <2> QED
      BY <1>0, <1>1, <2>2, <2>3 DEF WithinLimits, Fits
  <1>2. CASE d.type = "boolean"
    <2>1. r \in checkBoolType(v)
      BY <1>2 DEF checkAndSanitizeType
    <2> QED
      BY <1>2, <2>1 DEF checkBoolType, Fits
  <1>3. CASE d.type = "string"
    <2>1. r \in checkEnumType(v, d)
      BY <1>3 DEF checkAndSanitizeType
    <2> QED
      BY <1>3, <2>1 DEF checkEnumType, Fits
  <1>4. CASE d.type = "array"
    <2>1. r \in checkArrayType(v, d)
      BY <1>4 DEF checkAndSanitizeType
    <2>2. /\ r = v /\ Form(v) = "array"
          /\ \A i \in DOMAIN Content(v) : checkNumTypes(Content(v)[i], Unlimited(d)) # {Error}
      BY <2>1 DEF checkArrayType
    <2>3. ASSUME NEW i \in DOMAIN Content(v), Form(Content(v)[i]) = "digits"
          PROVE  Content(Content(v)[i]) \in d.lo .. d.hi
      <3> DEFINE w == Content(v)[i]
                 u == Unlimited(d)
      <3>1. u.lo = d.lo /\ u.hi = d.hi
        BY DEF Unlimited
      <3> HIDE DEF w, u
      <3>2. Form(w) = "digits" /\ checkNumTypes(w, u) # {Error}
        BY <2>2, <2>3 DEF w, u
      <3>3. PICK q \in AsNumber(w, u) : q # Error
        <4>1. Content(w) \in u.lo .. u.hi => AsNumber(w, u) = {<<"number", Content(w)>>}
          BY <3>2 DEF AsNumber
        <4>2. Content(w) \notin u.lo .. u.hi => checkNumTypes(w, u) = {Error}
          <5>1. Content(w) \notin u.lo .. u.hi => AsNumber(w, u) = {Error}
            BY <3>2 DEF AsNumber
          <5>2. ASSUME NEW S, S = {Error}
                PROVE  {IF z # Error /\ WithinLimits(Content(z), u) THEN z ELSE Error : z \in S}
                         = {Error}
            <6> HIDE DEF Error
            <6> QED
              BY <5>2
          <5> QED
            BY <5>1, <5>2 DEF checkNumTypes
        <4>3. ASSUME NEW c
              PROVE  <<"number", c>> # Error
          <5>1. <<"number", c>>[1] # Error[1]
            BY DEF Error
          <5> QED
            BY <5>1
        <4>4. <<"number", Content(w)>> \in AsNumber(w, u)
          BY <3>2, <4>1, <4>2
        <4> QED
          BY <4>3, <4>4
      <3>4. Content(w) \in u.lo .. u.hi
        BY <3>2, <3>3 DEF AsNumber
      <3> QED
        BY <3>1, <3>4 DEF w
    <2> QED
      BY <1>4, <2>2, <2>3 DEF Fits
  <1>5. CASE d.type = "unsupported"
    BY <1>5 DEF checkAndSanitizeType
  <1> QED
    BY <1>1, <1>2, <1>3, <1>4, <1>5 DEF Typed, Types

(* processSet stores nothing but what it has sanitised for this leaf. *)
LEMMA PutFits ==
  ASSUME TypeOK, StoredInRange, NEW perms, NEW x \in Texts, NEW v, Whole(v),
         NEW r \in processSet(perms, x, v), Put(x, r), UNCHANGED desc
  PROVE  StoredInRange'
PROOF
  <1>1. CASE r.code # 200
    BY <1>1 DEF Put, StoredInRange
  <1>2. CASE r.code = 200
    <2>1. /\ pathIsReadable(x)
          /\ r \in {[code |-> ErrorNumber(q), value |-> q] :
                      q \in UNION {checkAndSanitizeType(v, desc[l]) : l \in LeavesOf(x)}}
      BY <1>2 DEF processSet, pathNotFound, noAccess, pathIsWritable
    <2>2. PICK m \in LeavesOf(x) : \E q \in checkAndSanitizeType(v, desc[m]) :
            r = [code |-> ErrorNumber(q), value |-> q]
      BY <2>1
    <2> DEFINE q == r.value
    <2>a. q \in checkAndSanitizeType(v, desc[m])
          /\ r = [code |-> ErrorNumber(q), value |-> q]
      BY <2>2
    <2>3. q \notin {Error, Unsupported} /\ r.value = q
      <3>1. ErrorNumber(q) = 200
        BY <1>2, <2>a
      <3>2. valueOutOfBounds # 200 /\ unknownError # 200 /\ Error # Unsupported
        <4>1. Error[1] # Unsupported[1]
          BY DEF Error, Unsupported
        <4> QED
          BY <4>1 DEF valueOutOfBounds, unknownError
      <3> QED
        BY <3>1, <3>2 DEF ErrorNumber
    <2>4. m \in Leaves
      BY DEF LeavesOf
    <2>5. Fits(q, desc[m])
      BY <2>a, <2>3, <2>4, DescriptionsTyped, SanitizedFits
    <2>6. \A l \in LeavesOf(x) : l = m
      BY <2>1, OneLeaf
    <2>7. stored' = [l \in Leaves |-> IF l \in LeavesOf(x) THEN q ELSE stored[l]]
      BY <1>2, <2>3 DEF Put
    <2> QED
      BY <2>5, <2>6, <2>7 DEF StoredInRange
  <1> QED
    BY <1>1, <1>2

LEMMA FieldsWhole ==
  ASSUME NEW v \in Values, NEW d, Typed(d)
  PROVE  Whole(FieldOf(v, d))
PROOF
  <1>1. CASE d.type = "number"
    <2>1. FieldOf(v, d) = IF Form(v) = "number" THEN v ELSE <<"number", 0>>
      BY <1>1 DEF FieldOf
    <2>2. CASE Form(v) = "number"
      BY <2>1, <2>2, TreeConstants DEF Whole
    <2>3. CASE Form(v) # "number"
      <3>1. FieldOf(v, d)[2] = 0
        BY <2>1, <2>3
      <3> QED
        BY <3>1 DEF Whole, Content
    <2> QED
      BY <2>2, <2>3
  <1>2. CASE d.type = "boolean"
    <2>1. FieldOf(v, d) = IF Form(v) = "bool" THEN v ELSE <<"bool", "false">>
      BY <1>2 DEF FieldOf
    <2> QED
      BY <2>1 DEF Whole, Form
  <1>3. CASE d.type \in {"string", "array", "unsupported"}
    <2>1. FieldOf(v, d) = IF Form(v) \in {"text", "digits"} THEN v ELSE <<"text", "">>
      BY <1>3 DEF FieldOf
    <2>2. CASE Form(v) \in {"text", "digits"}
      BY <2>1, <2>2 DEF Whole
    <2>3. CASE Form(v) \notin {"text", "digits"}
      <3>1. FieldOf(v, d) = <<"text", "">>
        BY <2>1, <2>3
      <3>2. \A c : <<"text", c>>[1] = "text"
        OBVIOUS
      <3>3. FieldOf(v, d)[1] = "text"
        BY Zenon, <3>1, <3>2
      <3> QED
        BY <3>3 DEF Whole, Form
    <2> QED
      BY <2>2, <2>3
  <1> QED
    BY <1>1, <1>2, <1>3 DEF Typed, Types

LEMMA StoredStep == TypeOK /\ SetsTyped /\ StoredInRange /\ [Next]_vars => StoredInRange'
PROOF
  <1> SUFFICES ASSUME TypeOK, SetsTyped, StoredInRange, [Next]_vars
               PROVE  StoredInRange'
    OBVIOUS
  <1>1. ASSUME UNCHANGED data
        PROVE  StoredInRange'
    BY <1>1 DEF data, StoredInRange
  <1>2. ASSUME NEW c \in WsClients, NEW x \in Texts, NEW v \in Values, WsSet(c, x, v)
        PROVE  StoredInRange'
    <2>1. Whole(v)
      BY TreeConstants DEF Whole
    <2> QED
      BY <1>2, <2>1, PutFits DEF WsSet
  <1>3. ASSUME NEW g \in Threads, SetStep(g)
        PROVE  StoredInRange'
    <2> DEFINE x == Head(call[g].todo)[1]
               v == Head(call[g].todo)[2]
    <2>1. x \in Texts /\ v \in Values
      BY <1>3, HeadTypes
    <2>2. UNCHANGED desc
      BY <1>3 DEF SetStep
    <2>3. CASE UNCHANGED stored
      BY <1>1, <2>2, <2>3 DEF data
    <2>4. CASE \E l \in LeavesOf(x) :
                 \E r \in processSet(PermsOf(g), x, FieldOf(v, desc[l])) : Put(x, r)
      <3>1. PICK l \in LeavesOf(x) :
              \E r \in processSet(PermsOf(g), x, FieldOf(v, desc[l])) : Put(x, r)
        BY <2>4
      <3>2. Whole(FieldOf(v, desc[l]))
        BY <2>1, DescriptionsTyped, FieldsWhole DEF LeavesOf
      <3> HIDE DEF x, v
      <3> QED
        BY <2>1, <2>2, <3>1, <3>2, PutFits
    <2> QED
      BY <1>3, <2>3, <2>4 DEF SetStep
  <1>4. CASE \/ \E c \in WsClients : WsRequest(c)
             \/ \E k \in Sessions, t \in Tokens : GrpcAuthorize(k, t)
             \/ UNCHANGED vars
    BY <1>1, <1>2, <1>4 DEF WsRequest, WsAuthorize, WsSubscribe, GrpcAuthorize, vars
  <1>5. ASSUME NEW g \in Threads, GrpcCall(g)
        PROVE  StoredInRange'
    BY <1>1, <1>3, <1>5 DEF GrpcCall, CallGet, CallSet, CallSubscribe, StreamSubscribe,
       StreamRefused, GetStep, GetMetaDataStep, FinishCall, CloseStream, Return
  <1> QED
    BY <1>4, <1>5 DEF Next

LEMMA StoredInit == Init => StoredInRange
PROOF
  BY DEF Init, StoredInRange

(* What is stored is a value of the leaf's type and within its limits, for any
   tree and any values: checkAndSanitizeType passes nothing else, and a path that
   can be written is the one leaf the value was checked for.                   *)
THEOREM StoredFits == Spec => []StoredInRange
PROOF
  <1> QED
    BY InitTypes, TypesStep, StoredInit, SetsInit, SetsStep, StoredStep, PTL DEF Spec

-----------------------------------------------------------------------------
(* Writes *)

(* A set changes no leaf but the one it names, and none without the right. *)
LEMMA PutGranted ==
  ASSUME TypeOK, PermissionsOfLastToken, NEW c \in Present, NEW x \in Texts, NEW v,
         NEW r \in processSet(ChannelOfClient(c).perms, x, v), Put(x, r),
         NEW l \in Leaves, stored'[l] # stored[l]
  PROVE  GrantedTo(c, Dotted(l), "w")
PROOF
  <1>1. r.code = 200 /\ l \in LeavesOf(x)
    BY DEF Put
  <1>2. checkSignalAccess(ChannelOfClient(c).perms, VSSGen1Path(x), "w")
    BY <1>1 DEF processSet, pathNotFound, noAccess
  <1> QED
    BY <1>1, <1>2, LeafIsGranted

LEMMA WriteStep ==
  TypeOK /\ PermissionsInv /\ SetsTyped /\ [Next]_vars =>
    (stored' # stored =>
       \/ \E c \in WsClients, x \in Texts, v \in Values : WsSet(c, x, v) /\ OnlyGranted(c)
       \/ \E g \in Threads : SetStep(g) /\ OnlyGranted(call[g].session))
PROOF
  <1> SUFFICES ASSUME TypeOK, PermissionsInv, SetsTyped, [Next]_vars, stored' # stored
               PROVE  \/ \E c \in WsClients, x \in Texts, v \in Values :
                           WsSet(c, x, v) /\ OnlyGranted(c)
                      \/ \E g \in Threads : SetStep(g) /\ OnlyGranted(call[g].session)
    OBVIOUS
  <1>0. PermissionsOfLastToken
    BY PermissionsFollow
  <1>1. ASSUME NEW c \in WsClients, NEW x \in Texts, NEW v \in Values, WsSet(c, x, v)
        PROVE  OnlyGranted(c)
    <2>1. c \in Present /\ ChannelOfClient(c) = session[c]
      BY DEF Present, ChannelOfClient
    <2>2. PICK r \in processSet(ChannelOfClient(c).perms, x, v) : Put(x, r)
      BY <1>1, <2>1 DEF WsSet
    <2> QED
      BY <1>0, <2>1, <2>2, PutGranted DEF OnlyGranted
  <1>2. ASSUME NEW g \in Threads, SetStep(g)
        PROVE  OnlyGranted(call[g].session)
    <2> DEFINE x == Head(call[g].todo)[1]
               v == Head(call[g].todo)[2]
               k == call[g].session
    <2>1. x \in Texts
      BY <1>2, HeadTypes
    <2>2. k \in Known /\ k \in Present
      BY <1>2 DEF SetStep, SetsTyped, Present
    <2>3. ChannelOfClient(k).perms = PermsOf(g)
      BY <2>2, RequestConstants DEF ChannelOfClient, PermsOf, TypeOK
    <2>4. CASE UNCHANGED stored
      BY <2>4 DEF OnlyGranted
    <2>5. CASE \E l \in LeavesOf(x) :
                 \E r \in processSet(PermsOf(g), x, FieldOf(v, desc[l])) : Put(x, r)
      <3>1. PICK l \in LeavesOf(x) :
              \E r \in processSet(PermsOf(g), x, FieldOf(v, desc[l])) : Put(x, r)
        BY <2>5
      <3> HIDE DEF x, v
      <3> QED
        BY <1>0, <2>1, <2>2, <2>3, <3>1, PutGranted DEF OnlyGranted
    <2> QED
      BY <1>2, <2>4, <2>5 DEF SetStep
  <1>3. \/ \E c \in WsClients, x \in Texts, v \in Values : WsSet(c, x, v)
        \/ \E g \in Threads : SetStep(g)
    <2>1. CASE \/ \E c \in WsClients : WsRequest(c)
               \/ \E k \in Sessions, t \in Tokens : GrpcAuthorize(k, t)
               \/ UNCHANGED vars
      BY <2>1 DEF WsRequest, WsAuthorize, WsSubscribe, GrpcAuthorize, vars, data
    <2>2. ASSUME NEW g \in Threads, GrpcCall(g)
          PROVE  SetStep(g)
      BY <2>2 DEF GrpcCall, CallGet, CallSet, CallSubscribe, StreamSubscribe, StreamRefused,
         GetStep, GetMetaDataStep, FinishCall, CloseStream, Return, data
    <2> QED
      BY <2>1, <2>2 DEF Next
  <1> QED
    BY <1>1, <1>2, <1>3

(* A leaf changes only by a set of a client whose last token grants writing this
   very leaf, over WebSocket and gRPC, in whatever notation path and key are.  *)
THEOREM WritesAreGranted == Spec => WritesGranted
PROOF
  <1> QED
    BY InitTypes, TypesStep, PermissionsInit, PermissionsStep, SetsInit, SetsStep,
       WriteStep, PTL DEF Spec, WritesGranted

-----------------------------------------------------------------------------
(* Notations *)

(* A path means the same leaves whatever its separators are; written with dots
   only it has the rights that it has with slashes only, for any permissions.  *)
THEOREM NotationIsIrrelevant == Spec => []NotationIrrelevant
PROOF
  <1>1. ASSUME NEW x \in Texts
        PROVE  LET y == gen1togen2(x)
                   z == [i \in DOMAIN x |-> IF x[i] = "/" THEN "." ELSE x[i]] IN
               /\ JSONPath(x) = JSONPath(y) /\ JSONPath(y) = JSONPath(z)
               /\ VSSGen1Path(y) = VSSGen1Path(z)
    BY TextConstants, NotationsAgree DEF JSONPath
  <1>2. NotationIrrelevant
    BY <1>1, Zenon DEF NotationIrrelevant
  <1> QED
    BY <1>2, PTL
=============================================================================
