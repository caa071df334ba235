-------------------------------- MODULE Requests --------------------------------
(* Who may do what: tokens, the channels that hold their permissions, and the
   requests that are judged by them.

   A WebSocket session owns a channel; its requests run on the one io thread, so
   each is one step.  A gRPC client names a session of grpcSessionMap in the
   metadata of each call; calls run on pool threads and take a step per path.  A
   subscribe call is a stream with a channel of its own, found by the address of
   its ServerContext.  Here a command on one path is one step: VssDatabase has its
   critical sections, SubscriptionHandler what becomes of a subscription.

   Left out: the attribute targetValue, updates of the tree, unsubscribing.     *)
EXTENDS Conversions, FiniteSets

CONSTANTS
  WsClients,     \* WebSocket sessions
  Sessions,      \* keys of grpcSessionMap: a peer with a uuid
  Threads,       \* threads of the gRPC server's pool
  Contexts,      \* addresses a ServerContext can have
  Tokens,        \* JWT tokens
  Claims,        \* what each token says
  Leaves,        \* the leaves of the tree
  Descriptions,  \* the trees: a description of each leaf
  Texts,         \* the paths of requests
  Values,        \* the values of set requests
  GetCalls,      \* the lists of paths of gRPC get calls
  SetCalls,      \* the lists of paths and values of gRPC set calls
  MaxSubs,       \* bound: subscriptions at a time
  None           \* no token, no session, no address

Clients == WsClients \cup Sessions
Rights  == {{"r"}, {"w"}, {"r", "w"}}

ASSUME RequestConstants ==
  /\ WsClients \cap Sessions = {} /\ None \notin Clients \cup Tokens \cup Contexts
  /\ \A t \in Tokens : /\ Claims[t].exp \in BOOLEAN /\ Claims[t].modifyTree \in BOOLEAN
                       /\ Claims[t].perms \in Seq([key: Seq(STRING), right: SUBSET STRING])
  /\ \A list \in GetCalls : list \in Seq(Texts)
  /\ \A list \in SetCalls : list \in Seq(Texts \X Values)
  /\ MaxSubs \in Nat

(* The tree is finite, each leaf has a type and a width, JSON numbers are whole.
   A type the sanitizer does not know is "unsupported".                        *)
ASSUME TreeConstants ==
  /\ IsFiniteSet(Nodes(Leaves))
  /\ \A tree \in Descriptions, l \in Leaves :
       /\ tree[l].type \in {"number", "boolean", "string", "array", "unsupported"}
       /\ {tree[l].lo, tree[l].hi, tree[l].min, tree[l].max} \subseteq Int
       /\ tree[l].lo <= tree[l].hi
  /\ \A v \in Values : Form(v) = "number" => Content(v) \in Int

(* In a text a name and a separator alternate; a name is no separator. *)
ASSUME TextConstants ==
  /\ \A x \in Texts : /\ x \in Seq(STRING) /\ Len(x) % 2 = 1
                      /\ \A i \in DOMAIN x : x[i] \in {".", "/"} <=> i % 2 = 0
  /\ \A l \in Leaves : l \in Seq(STRING) /\ l # <<>> /\ \A i \in DOMAIN l : l[i] \notin {".", "/"}

VARIABLES
  desc,                     \* the description of each leaf
  stored,                   \* the value of each leaf
  session,                  \* the channel of each WebSocket session
  grpcSessionMap,           \* the channels of the gRPC sessions
  grpcSubscribeSessionMap,  \* the channels of subscribe calls, by address
  call,                     \* what each pool thread works on
  subs,                     \* the subscriptions
  accepted,                 \* history: the tokens authorize has accepted
  last,                     \* history: the last of them
  callers                   \* history: the sessions that streamed at each address

data     == <<desc, stored>>
channels == <<session, grpcSessionMap, grpcSubscribeSessionMap>>
history  == <<accepted, last, callers>>
vars     == <<data, channels, call, subs, history>>

Unset      == <<"unset", 0>>
NewChannel == [authorized |-> FALSE, authToken |-> None, modifyTree |-> FALSE, perms |-> <<>>]

(* Permissions are a JSON object, which is in the order of its keys: a permission
   is found under the rank that its key has in the token.                      *)
Ranks       == UNION {DOMAIN Claims[t].perms : t \in Tokens}
KeysOf(t)   == {Claims[t].perms[i].key : i \in DOMAIN Claims[t].perms}
Keys        == UNION {KeysOf(t) : t \in Tokens}
Permissions == UNION {[D -> [key: Keys, right: Rights]] : D \in SUBSET Ranks}

NoCall     == [op |-> "idle", session |-> None, ctx |-> None, todo |-> <<>>,
               size |-> 0, kept |-> 0, lost |-> 0, failed |-> FALSE, code |-> 0]
Ops        == {"idle", "get", "getMetaData", "set", "stream", "closing", "answered"}

Lists      == Seq(Texts) \cup Seq(Texts \X Values)
Codes      == {0, 200, 400, 403, 404}

Channel == [authorized: BOOLEAN, authToken: Tokens \cup {None}, modifyTree: BOOLEAN,
            perms: Permissions]
Call    == [op: Ops, session: Sessions \cup {None}, ctx: Contexts \cup {None},
            todo: Lists, size: Nat, kept: Nat, lost: Nat, failed: BOOLEAN, code: Codes]

Known == DOMAIN grpcSessionMap
Open  == DOMAIN grpcSubscribeSessionMap

TypeOK ==
  /\ desc \in Descriptions
  /\ session \in [WsClients -> Channel]
  /\ Known \subseteq Sessions /\ grpcSessionMap \in [Known -> Channel]
  /\ Open \subseteq Contexts
  /\ grpcSubscribeSessionMap \in [Open -> [channel: Channel, from: Sessions]]
  /\ call \in [Threads -> Call]
  /\ \A g \in Threads : call[g].op \in {"stream", "closing"} => call[g].ctx \in Open
  /\ \A g, h \in Threads : g # h => call[g].ctx = None \/ call[g].ctx # call[h].ctx
  /\ accepted \in [Clients -> SUBSET Tokens]
  /\ last \in [Clients -> Tokens \cup {None}]
  /\ callers \in [Contexts -> SUBSET Sessions]

Init ==
  /\ desc \in Descriptions
  /\ stored = [l \in Leaves |-> Unset]
  /\ session = [c \in WsClients |-> NewChannel]
  /\ grpcSessionMap = <<>>
  /\ grpcSubscribeSessionMap = <<>>
  /\ call = [g \in Threads |-> NoCall]
  /\ subs = {}
  /\ accepted = [c \in Clients |-> {}]
  /\ last = [c \in Clients |-> None]
  /\ callers = [a \in Contexts |-> {}]

With(map, key, value) ==
  [k \in DOMAIN map \cup {key} |-> IF k = key THEN value ELSE map[k]]

-----------------------------------------------------------------------------
(* Authenticator *)

(* Mutation: a right that contains a known letter will do. *)
HasKnownRight(p) == p.right \cap {"r", "w"} # {}
HasValidRight(p) == p.right \in Rights

ValidPermissions(perms) ==
  [i \in {j \in DOMAIN perms : HasValidRight(perms[j])} |-> perms[i]]

(* Permissions are replaced; the right to modify the tree is only ever given. *)
resolvePermissions(ch, t) ==
  [ch EXCEPT !.modifyTree = @ \/ Claims[t].modifyTree,
             !.perms = ValidPermissions(Claims[t].perms)]

(* Mutation: permissions are resolved before the expiry is read. *)
ResolveFirst(ch, t) ==
  resolvePermissions([ch EXCEPT !.authorized = TRUE, !.authToken = t], t)

(* The token is in the channel before its expiry is read: without one the token
   is refused, and stays there.                                                *)
TokenOnly(ch, t) == [ch EXCEPT !.authorized = TRUE, !.authToken = t]

(* processAuthorize: what can come of a token.  It may also have expired, be
   signed with another key, or not be a token.                                 *)
processAuthorize(ch, t) ==
  {[ok |-> FALSE, channel |-> ch],
   IF Claims[t].exp
   THEN [ok |-> TRUE, channel |-> resolvePermissions(TokenOnly(ch, t), t)]
   ELSE [ok |-> FALSE, channel |-> TokenOnly(ch, t)]}

Accept(c, t) ==
  /\ accepted' = [accepted EXCEPT ![c] = @ \cup {t}]
  /\ last' = [last EXCEPT ![c] = t]
  /\ UNCHANGED callers

WsAuthorize(c, t) ==
  \E r \in processAuthorize(session[c], t) :
    /\ session' = [session EXCEPT ![c] = r.channel]
    /\ IF r.ok THEN Accept(c, t) ELSE UNCHANGED history
    /\ UNCHANGED <<data, grpcSessionMap, grpcSubscribeSessionMap, call, subs>>

(* authorizeHelper: a new channel under a new uuid, stored when accepted. *)
GrpcAuthorize(k, t) ==
  /\ k \notin Known
  /\ \E r \in processAuthorize(NewChannel, t) :
       /\ r.ok
       /\ grpcSessionMap' = With(grpcSessionMap, k, r.channel)
  /\ Accept(k, t)
  /\ UNCHANGED <<data, session, grpcSubscribeSessionMap, call, subs>>

(* authChecker: operator[] gives a session that is not known a new channel. *)
authChecker(k) ==
  grpcSessionMap' =
    IF k \in Known \cup {None} THEN grpcSessionMap ELSE With(grpcSessionMap, k, NewChannel)

-----------------------------------------------------------------------------
(* JsonResponses: the number of each kind of error. *)
notSetResponse   == 404
pathNotFound     == 404
noAccess         == 403
valueOutOfBounds == 400
unknownError     == 401

-----------------------------------------------------------------------------
(* Commands: what a command on one path answers, as the set of what can be. *)

(* Queries of the tree, whose nodes do not change. *)
ResultsOf   == [x \in Texts |-> Results(Leaves, x)]
LeafPathsOf == [x \in Texts |-> LeafPaths(Leaves, x)]
LeavesOf(x) == ResultsOf[x] \cap Leaves

(* A path that is "readable" is one leaf. *)
pathIsReadable(x) ==
  Cardinality(ResultsOf[x]) = 1 /\ LeavesOf(x) # {}

(* Mutation: one leaf that can be read is enough. *)
SomeReadable(perms, x) ==
  \E l \in LeafPathsOf[x] : checkSignalAccess(perms, Dotted(l), "r")

(* One leaf that cannot be read, or has no value, and there is no answer. *)
AllReadable(perms, x) ==
  \A l \in LeafPathsOf[x] : checkSignalAccess(perms, Dotted(l), "r")
AllSet(x) == \A l \in LeafPathsOf[x] : stored[l] # Unset

processGet(perms, x) ==
  IF LeafPathsOf[x] = {} THEN {pathNotFound}
  ELSE IF AllReadable(perms, x) /\ AllSet(x) THEN {200}
  ELSE (IF AllReadable(perms, x) THEN {} ELSE {noAccess})
       \cup (IF AllSet(x) THEN {} ELSE {notSetResponse})

pathIsWritable(x) ==
  pathIsReadable(x) /\ \A l \in LeavesOf(x) : desc[l].kind \in {"sensor", "actuator"}

(* The answer to a type that is not supported is written out: a JSON text, with
   the number inside, where other answers are JSON objects.                    *)
ErrorNumber(r) == CASE r = Error       -> valueOutOfBounds
                    [] r = Unsupported -> unknownError
                    [] OTHER           -> 200

processSet(perms, x, v) ==
  IF ResultsOf[x] = {} THEN {[code |-> pathNotFound, value |-> Error]}
  ELSE IF ~checkSignalAccess(perms, VSSGen1Path(x), "w") \/ ~pathIsWritable(x)
  THEN {[code |-> noAccess, value |-> Error]}
  ELSE {[code |-> ErrorNumber(r), value |-> r] :
          r \in UNION {checkAndSanitizeType(v, desc[l]) : l \in LeavesOf(x)}}

Put(x, r) ==
  stored' = IF r.code = 200 THEN [l \in Leaves |-> IF l \in LeavesOf(x) THEN r.value ELSE stored[l]]
            ELSE stored

WsSet(c, x, v) ==
  /\ \E r \in processSet(session[c].perms, x, v) : Put(x, r)
  /\ UNCHANGED <<desc, channels, call, subs, history>>

(* Mutation: the right to write is enough. *)
AnyRight(perms, x)     == pathIsReadable(x) /\ perms # <<>>
MaySubscribe(perms, x) == pathIsReadable(x) /\ checkSignalAccess(perms, VSSGen1Path(x), "r")

(* SubscriptionHandler::subscribe: the subscription keeps a copy of the channel. *)
FreeIds == (1 .. MaxSubs) \ {s.id : s \in subs}
subscribe(chan, client, perms, x) ==
  /\ MaySubscribe(perms, x)
  /\ FreeIds # {}
  /\ subs' = subs \cup {[id |-> CHOOSE i \in FreeIds : \A j \in FreeIds : i <= j,
                         chan |-> chan, client |-> client, path |-> x]}

WsSubscribe(c, x) ==
  /\ subscribe(c, c, session[c].perms, x)
  /\ UNCHANGED <<data, channels, call, history>>

-----------------------------------------------------------------------------
(* gRPC get and set *)

Start(g, op, k, list) ==
  call' = [call EXCEPT ![g] = [NoCall EXCEPT !.op = op, !.session = k,
                                             !.todo = list, !.size = Len(list)]]
Refuse(g, code) == call' = [call EXCEPT ![g] = [NoCall EXCEPT !.op = "answered", !.code = code]]

CallGet(g, op, k, list) ==
  /\ call[g].op = "idle"
  /\ authChecker(k)
  /\ IF k = None /\ op = "get" THEN Refuse(g, 404)
     ELSE IF list = <<>> THEN Refuse(g, 400)
     ELSE Start(g, op, k, list)
  /\ UNCHANGED <<data, session, grpcSubscribeSessionMap, subs, history>>

CallSet(g, k, list) ==
  /\ call[g].op = "idle"
  /\ authChecker(k)
  /\ IF k = None THEN Refuse(g, 404) ELSE Start(g, "set", k, list)
  /\ UNCHANGED <<data, session, grpcSubscribeSessionMap, subs, history>>

PermsOf(g) == grpcSessionMap[call[g].session].perms

(* resJson.contains("error"), which a text never does. *)
Succeeds(code) == code \in {200, unknownError}

(* A path is done: an error keeps its number; an exception, code 0, leaves the
   number of the path before.                                                  *)
After(c, code) ==
  [c EXCEPT !.todo   = Tail(@),
            !.kept   = IF code = 200 THEN @ + 1 ELSE @,
            !.lost   = IF code = unknownError THEN @ + 1 ELSE @,
            !.failed = @ \/ ~Succeeds(code),
            !.code   = IF Succeeds(code) THEN (IF c.op = "set" THEN 200 ELSE @)
                       ELSE IF code = 0 THEN @ ELSE code]
Done(g, code) == call' = [call EXCEPT ![g] = After(@, code)]

(* The answer about more than one leaf is an array, which has no "dp". *)
GetStep(g) ==
  /\ call[g].op = "get" /\ call[g].todo # <<>>
  /\ LET x == Head(call[g].todo) IN
       \E code \in processGet(PermsOf(g), x) :
         Done(g, IF code = 200 /\ Cardinality(LeafPathsOf[x]) > 1 THEN 0 ELSE code)
  /\ UNCHANGED <<data, channels, subs, history>>

GetMetaDataStep(g) ==
  /\ call[g].op = "getMetaData" /\ call[g].todo # <<>>
  /\ Done(g, IF ResultsOf[Head(call[g].todo)] = {} THEN pathNotFound ELSE 200)
  /\ UNCHANGED <<data, channels, subs, history>>

(* The field of the message that belongs to the type is read; it is zero, false
   or empty when the client has filled another one.                            *)
FieldOf(v, d) ==
  CASE d.type = "number"  -> IF Form(v) = "number" THEN v ELSE <<"number", 0>>
    [] d.type = "boolean" -> IF Form(v) = "bool" THEN v ELSE <<"bool", "false">>
    [] d.type \in {"string", "array", "unsupported"} ->
         IF Form(v) \in {"text", "digits"} THEN v ELSE <<"text", "">>

(* getDatatypeForPath throws unless the path is one leaf. *)
SetStep(g) ==
  /\ call[g].op = "set" /\ call[g].todo # <<>>
  /\ LET x == Head(call[g].todo)[1]  v == Head(call[g].todo)[2] IN
     \/ ~pathIsReadable(x) /\ Done(g, 0) /\ UNCHANGED stored
     \/ /\ pathIsReadable(x)
        /\ \E l \in LeavesOf(x) :
             \E r \in processSet(PermsOf(g), x, FieldOf(v, desc[l])) :
               Put(x, r) /\ Done(g, r.code)
  /\ UNCHANGED <<desc, channels, subs, history>>

(* Mutation: the last path decides. *)
LastCode(c)   == IF c.code = 0 THEN 200 ELSE c.code
StatusCode(c) == IF c.failed THEN (IF c.size > 1 THEN 400 ELSE c.code) ELSE 200

FinishCall(g) ==
  /\ call[g].op \in {"get", "getMetaData", "set"} /\ call[g].todo = <<>>
  /\ call' = [call EXCEPT ![g].op = "answered", ![g].code = StatusCode(call[g])]
  /\ UNCHANGED <<data, channels, subs, history>>

Return(g) ==
  /\ call[g].op = "answered"
  /\ call' = [call EXCEPT ![g] = NoCall]
  /\ UNCHANGED <<data, channels, subs, history>>

-----------------------------------------------------------------------------
(* gRPC subscribe *)

Stream(g, k, a) ==
  /\ call' = [call EXCEPT ![g] = [NoCall EXCEPT !.op = "stream", !.session = k, !.ctx = a]]
  /\ callers' = [callers EXCEPT ![a] = @ \cup ({k} \ {None})]

(* getKuksaChannelForSubscriptionContext: no two calls have a context at one
   address at a time; the channel of an address is never erased.               *)
CallSubscribe(g, k, a) ==
  /\ call[g].op = "idle"
  /\ \A h \in Threads : call[h].ctx # a
  /\ IF a \in Open THEN Stream(g, k, a) /\ UNCHANGED channels
     ELSE IF k = None THEN Refuse(g, 404) /\ UNCHANGED <<channels, callers>>
     ELSE /\ authChecker(k)
          /\ grpcSubscribeSessionMap' =
               With(grpcSubscribeSessionMap, a, [channel |-> grpcSessionMap'[k], from |-> k])
          /\ Stream(g, k, a)
          /\ UNCHANGED session
  /\ UNCHANGED <<data, subs, accepted, last>>

ChannelOf(g) == grpcSubscribeSessionMap[call[g].ctx]

(* The client is the one that calls; it is judged by the channel it got. *)
StreamSubscribe(g, x) ==
  /\ call[g].op = "stream"
  /\ subscribe(call[g].ctx, call[g].session, ChannelOf(g).channel.perms, x)
  /\ call' = [call EXCEPT ![g].kept = @ + 1]
  /\ UNCHANGED <<data, channels, history>>

(* A stream without a subscription left is closed after the next message. *)
StreamRefused(g, x) ==
  /\ call[g].op = "stream" /\ call[g].kept = 0
  /\ ~MaySubscribe(ChannelOf(g).channel.perms, x)
  /\ call' = [call EXCEPT ![g].op = "closing"]
  /\ UNCHANGED <<data, channels, subs, history>>

(* unsubscribeAll: of the subscriptions of the channel, one of each path. *)
Own(a)   == {s \in subs : s.chan = a}
Paths(a) == {VSSPath(s.path) : s \in Own(a)}

CloseStream(g) ==
  /\ call[g].op \in {"stream", "closing"}
  /\ \E gone \in [Paths(call[g].ctx) -> Own(call[g].ctx)] :
       /\ \A p \in DOMAIN gone : VSSPath(gone[p].path) = p
       /\ subs' = subs \ {gone[p] : p \in DOMAIN gone}
  /\ call' = [call EXCEPT ![g] = NoCall]
  /\ UNCHANGED <<data, channels, history>>

-----------------------------------------------------------------------------
WsRequest(c) ==
  \/ \E t \in Tokens : WsAuthorize(c, t)
  \/ \E x \in Texts : WsSubscribe(c, x) \/ \E v \in Values : WsSet(c, x, v)

GrpcCall(g) ==
  \/ \E k \in Sessions \cup {None} :
       \/ \E list \in GetCalls : CallGet(g, "get", k, list) \/ CallGet(g, "getMetaData", k, list)
       \/ \E list \in SetCalls : CallSet(g, k, list)
       \/ \E a \in Contexts : CallSubscribe(g, k, a)
  \/ \E x \in Texts : StreamSubscribe(g, x) \/ StreamRefused(g, x)
  \/ GetStep(g) \/ GetMetaDataStep(g) \/ SetStep(g) \/ FinishCall(g) \/ CloseStream(g) \/ Return(g)

Next ==
  \/ \E c \in WsClients : WsRequest(c)
  \/ \E k \in Sessions, t \in Tokens : GrpcAuthorize(k, t)
  \/ \E g \in Threads : GrpcCall(g)

Spec == Init /\ [][Next]_vars

-----------------------------------------------------------------------------
(* Safety *)

ChannelOfClient(c) == IF c \in WsClients THEN session[c] ELSE grpcSessionMap[c]
Present            == WsClients \cup Known

(* What a client may do is what the last token says that it was told is accepted:
   nothing before that, nothing that a refused token says, nothing that an older
   one said.  Only the right to modify the tree may come from an older one.     *)
PermissionsOfLastToken ==
  \A c \in Present :
    LET ch == ChannelOfClient(c) IN
    /\ ch.perms = IF last[c] = None THEN <<>>
                  ELSE ValidPermissions(Claims[last[c]].perms)
    /\ ch.modifyTree <=> \E t \in accepted[c] : Claims[t].modifyTree
    /\ last[c] # None => last[c] \in accepted[c]

(* jwt.md, rules 2 and 3: a token grants a right on the paths its keys cover.  A
   key may have slashes as a path may, and is the same key as with dots.       *)
Covers(key, path) == key = path \/ Matches(path, gen2togen1(key))
Granted(t, path, right) ==
  \E i \in DOMAIN Claims[t].perms :
    right \in Claims[t].perms[i].right /\ Covers(Claims[t].perms[i].key, path)
GrantedTo(c, path, right) == last[c] # None /\ Granted(last[c], path, right)

(* A leaf changes only by a request of a client whose token grants writing this
   leaf, whichever way its path was written.                                   *)
OnlyGranted(c) ==
  \A l \in Leaves : stored'[l] # stored[l] => GrantedTo(c, Dotted(l), "w")

WritesGranted ==
  [][stored' # stored =>
       \/ \E c \in WsClients, x \in Texts, v \in Values : WsSet(c, x, v) /\ OnlyGranted(c)
       \/ \E g \in Threads : SetStep(g) /\ OnlyGranted(call[g].session)]_vars

(* A get that is answered with values is by a client whose token grants reading
   every leaf of the answer, those below a branch or a "*" included.           *)
ReadsGranted ==
  \A c \in Present, x \in Texts :
    200 \in processGet(ChannelOfClient(c).perms, x) =>
      \A l \in LeafPathsOf[x] : GrantedTo(c, Dotted(l), "r")

(* A WebSocket client that is subscribed to a path was once granted reading it.
   So was a gRPC client that is alone at the address of its ServerContext; where
   several sessions have streamed at one address (StreamHasOwnChannel) it was one
   of them, and the client may be another one, or name no session at all.      *)
JudgedAs(s) == IF s.client \in WsClients THEN {s.client} ELSE callers[s.chan]

SubscriptionsGranted ==
  \A s \in subs : \E c \in JudgedAs(s) : \E t \in accepted[c] :
    Granted(t, VSSGen1Path(s.path), "r")

(* A gRPC call without an error answers 200, and one that answers 200 had no
   error, on any path of it, but one: a set on a leaf whose datatype is not
   supported stores nothing and is counted as a success.                       *)
StatusTellsAll ==
  \A g \in Threads : call[g].op = "answered" =>
    /\ call[g].code = 200 => call[g].kept + call[g].lost = call[g].size
    /\ call[g].size > 0 /\ call[g].kept + call[g].lost = call[g].size => call[g].code = 200
    /\ call[g].lost > 0 => \E l \in Leaves : desc[l].type = "unsupported"

(* What is stored is a value of the leaf's type and within its limits, whatever
   the library makes of numbers that do not fit.  Elements of arrays that were
   sent as JSON numbers are left out: they are stored as they were sent.       *)
Fits(v, d) ==
  CASE d.type = "number"  -> Form(v) = "number" /\ Content(v) \in d.lo .. d.hi
                             /\ Content(v) \in d.min .. d.max
    [] d.type = "boolean" -> v \in {<<"bool", "true">>, <<"bool", "false">>}
    [] d.type = "string"  -> d.allowed # {} => Content(v) \in d.allowed
    [] d.type = "array"   -> \A i \in DOMAIN Content(v) :
                               Form(Content(v)[i]) = "digits" =>
                                 Content(Content(v)[i]) \in d.lo .. d.hi
    [] d.type = "unsupported" -> FALSE

StoredInRange == \A l \in Leaves : stored[l] = Unset \/ Fits(stored[l], desc[l])

(* A path means the same leaves whatever its separators are, dots, slashes or
   both.  With dots only it also has the rights that it has with slashes only; a
   text with both is judged as it is written, on what it says of the leaves
   (WritesGranted, ReadsGranted).                                              *)
NotationIrrelevant ==
  \A x \in Texts :
    LET y == gen1togen2(x)  z == [i \in DOMAIN x |-> IF x[i] = "/" THEN "." ELSE x[i]] IN
    /\ JSONPath(x) = JSONPath(y) /\ JSONPath(y) = JSONPath(z)
    /\ \A c \in Present, right \in {"r", "w"} :
         checkSignalAccess(ChannelOfClient(c).perms, VSSGen1Path(y), right) <=>
         checkSignalAccess(ChannelOfClient(c).perms, VSSGen1Path(z), right)

-----------------------------------------------------------------------------
(* What a comment of the code says, and the code does not do *)

(* grpcHandler.cpp 149: every subscribe call has a channel of its own, made from
   the session it names.                                                       *)
StreamHasOwnChannel ==
  \A g \in Threads : call[g].op = "stream" => ChannelOf(g).from = call[g].session
=============================================================================
