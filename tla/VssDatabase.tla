------------------------------ MODULE VssDatabase ------------------------------
(* The two trees of the VSS database under rwMutex_, and the requests on them.

   Requests of WebSocket sessions run on the one io thread, gRPC requests on
   pool threads; only WebSocket clients can update metadata or the tree.  A leaf
   of a tree has a kind and a limit ("max"), standing for all its metadata; the
   data tree also has its values.  Set requests are numbered, and the number is
   the value: it is accepted when it is not above the limit.  Other values come
   from the tree file and from updates: those that name "value" or "targetValue",
   and the defaults of attributes.

   A step is a critical section of rwMutex_, or a read without it; setSignal,
   which holds rwMutex_ while it publishes, takes several.

   Left out: permissions (a refused request changes nothing), requests on several
   leaves (each is read on its own), time stamps, values that an update leaves in
   the meta tree (only getMetaData shows them).  Leaves are never removed:
   updateJsonTree drops the "remove" patches.                                  *)
EXTENDS Naturals

CONSTANTS
  IoThread,    \* the thread of every WebSocket session
  GrpcThreads, \* threads of the gRPC server's pool
  Signals,     \* leaves of the tree
  Limits,      \* the limits metadata may set
  InitLimit,   \* the limit of the tree file
  TreeValues,  \* values and defaults in the tree file and in updates
  MaxSets,     \* bound: set requests
  MaxUpdates,  \* bound: updateMetaData and updateVSSTree requests
  None         \* no thread

Callers == {IoThread} \cup GrpcThreads
Attrs   == {"value", "targetValue"}
Kinds   == {"sensor", "actuator", "attribute"}

ASSUME DatabaseConstants ==
  /\ IoThread \notin GrpcThreads /\ None \notin Callers
  /\ Limits \subseteq Nat /\ InitLimit \in Limits
  /\ MaxSets \in Nat /\ MaxUpdates \in Nat
  /\ TreeValues \subseteq Nat \ (0 .. MaxSets)

VARIABLES
  meta,      \* meta_tree__
  data,      \* data_tree__
  torn,      \* history: leaves with a tree update that failed on data_tree__
  rwMutex,   \* the thread that holds it, or None
  pc,        \* where each request is
  req,       \* the request each thread works on
  node,      \* the copy of the data leaf a request works on
  patch,     \* the patches updateJsonTree has computed
  sets,      \* history: set requests
  updates,   \* history: updates
  published  \* history: the values published of each leaf and attribute

trees   == <<meta, data, torn>>
request == <<pc, req>>
history == <<sets, updates, published>>
vars    == <<trees, rwMutex, request, node, patch, history>>

(* 0 is a value that has not been set. *)
Values   == [Attrs -> Nat]
Metadata == [kind: Kinds, limit: Limits]
Leaf     == [kind: Kinds, limit: Limits, value: Values]
NoLeaf   == [kind |-> "attribute", limit |-> InitLimit, value |-> [a \in Attrs |-> 0]]

(* A leaf as a tree or a metadata request describes it; 0 is a value it does not
   name.                                                                       *)
Given       == {0} \cup TreeValues
Description == [kind: Kinds, limit: Limits, value: [Attrs -> Given]]
Fields      == {"kind", "limit"} \cup Attrs

NoRequest == [sig |-> None, attr |-> "value", val |-> 0, new |-> NoLeaf]
Request   == [sig: Signals \cup {None}, attr: Attrs, val: Nat, new: Description]

Locations == {"idle", "writable", "attributable", "lockSet", "store", "publish",
              "getAttributable", "getSignal", "lockMeta", "replace",
              "diffMeta", "applyMeta", "diffData", "applyData"}

TypeOK ==
  /\ meta \in [Signals -> Metadata]
  /\ data \in [Signals -> Leaf]
  /\ torn \in SUBSET Signals
  /\ rwMutex \in {None} \cup {t \in Callers : pc[t] \in {"store", "publish"}}
  /\ pc \in [Callers -> Locations]
  /\ req \in [Callers -> Request]
  /\ node \in [Callers -> Leaf]
  /\ patch \in SUBSET Fields
  /\ sets \in Nat /\ updates \in Nat
  /\ published \in [Signals -> [Attrs -> SUBSET Nat]]

(* The default of an attribute becomes its value; 0 is no default. *)
applyDefaultValues(leaf, default) ==
  IF leaf.kind = "attribute" /\ default # 0
  THEN [leaf EXCEPT !.value["value"] = default] ELSE leaf

(* initJsonTree: both trees are read from one file, which names no values; the
   data tree gets the defaults.                                                *)
FileLeaf(leaf) == [kind |-> leaf.kind, limit |-> leaf.limit, value |-> [a \in Attrs |-> 0]]

Init ==
  /\ meta \in [Signals -> [kind: Kinds, limit: {InitLimit}]]
  /\ \E default \in [Signals -> Given] :
       data = [s \in Signals |-> applyDefaultValues(FileLeaf(meta[s]), default[s])]
  /\ torn = {}
  /\ rwMutex = None
  /\ pc = [t \in Callers |-> "idle"]
  /\ req = [t \in Callers |-> NoRequest]
  /\ node = [t \in Callers |-> NoLeaf]
  /\ patch = {}
  /\ sets = 0 /\ updates = 0
  /\ published = [s \in Signals |-> [a \in Attrs |-> {}]]

Enter(t, p, r) ==
  /\ pc[t] = "idle"
  /\ pc' = [pc EXCEPT ![t] = p]
  /\ req' = [req EXCEPT ![t] = r]
Goto(t, p) == pc' = [pc EXCEPT ![t] = p] /\ UNCHANGED req
Return(t)  == pc' = [pc EXCEPT ![t] = "idle"] /\ req' = [req EXCEPT ![t] = NoRequest]
LeafOf(t)  == data[req[t].sig]

-----------------------------------------------------------------------------
(* processSet and setSignal *)

CallSet(t, s, a) ==
  /\ sets < MaxSets
  /\ sets' = sets + 1
  /\ Enter(t, "writable", [NoRequest EXCEPT !.sig = s, !.attr = a, !.val = sets'])
  /\ UNCHANGED <<trees, rwMutex, node, patch, updates, published>>

(* The checks read the data tree without rwMutex_. *)
IsWritable(leaf)        == leaf.kind \in {"sensor", "actuator"}
IsAttributable(leaf, a) == a = "value" \/ leaf.kind = "actuator"

CheckWritable(t) ==
  /\ pc[t] = "writable"
  /\ IF IsWritable(LeafOf(t)) THEN Goto(t, "attributable") ELSE Return(t)
  /\ UNCHANGED <<trees, rwMutex, node, patch, history>>

CheckAttributable(t) ==
  /\ pc[t] = "attributable"
  /\ IF IsAttributable(LeafOf(t), req[t].attr) THEN Goto(t, "lockSet") ELSE Return(t)
  /\ UNCHANGED <<trees, rwMutex, node, patch, history>>

(* Mutation: the lock is released once the leaf has been read. *)
ReleaseLock(t) == UNCHANGED rwMutex
HoldLock(t)    == rwMutex' = t

(* Mutation: the limit is not looked at. *)
AnyValue(val, leaf)    == TRUE
WithinLimit(val, leaf) == val <= leaf.limit

(* A value above the limit is an exception, which releases the lock. *)
SetRead(t) ==
  /\ pc[t] = "lockSet"
  /\ rwMutex = None
  /\ IF WithinLimit(req[t].val, LeafOf(t))
     THEN /\ HoldLock(t)
          /\ node' = [node EXCEPT ![t] = LeafOf(t)]
          /\ Goto(t, "store")
     ELSE Return(t) /\ UNCHANGED <<rwMutex, node>>
  /\ UNCHANGED <<trees, patch, history>>

(* Mutation: the lock ends with the replacement, publishing is left outside. *)
UnlockStored   == rwMutex' = None
KeepForPublish == UNCHANGED rwMutex

(* The whole leaf is replaced. *)
Store(t) ==
  /\ pc[t] = "store"
  /\ data' = [data EXCEPT ![req[t].sig] =
                [node[t] EXCEPT !.value[req[t].attr] = req[t].val]]
  /\ KeepForPublish
  /\ Goto(t, "publish")
  /\ UNCHANGED <<meta, torn, node, patch, history>>

(* Mutation: the lock is not released when there is somebody to notify. *)
StayLocked == UNCHANGED rwMutex
Unlock     == rwMutex' = None

Publish(t) ==
  /\ pc[t] = "publish"
  /\ published' = [published EXCEPT ![req[t].sig][req[t].attr] = @ \cup {req[t].val}]
  /\ Unlock
  /\ Return(t)
  /\ node' = [node EXCEPT ![t] = NoLeaf]
  /\ UNCHANGED <<trees, patch, sets, updates>>

-----------------------------------------------------------------------------
(* processGet and getSignal *)

CallGet(t, s, a) ==
  /\ Enter(t, "getAttributable", [NoRequest EXCEPT !.sig = s, !.attr = a])
  /\ UNCHANGED <<trees, rwMutex, node, patch, history>>

GetAttributable(t) ==
  /\ pc[t] = "getAttributable"
  /\ IF IsAttributable(LeafOf(t), req[t].attr) THEN Goto(t, "getSignal") ELSE Return(t)
  /\ UNCHANGED <<trees, rwMutex, node, patch, history>>

Answer(t) == LeafOf(t).value[req[t].attr]

GetSignal(t) ==
  /\ pc[t] = "getSignal"
  /\ rwMutex = None
  /\ Return(t) \* with Answer(t)
  /\ UNCHANGED <<trees, rwMutex, node, patch, history>>

-----------------------------------------------------------------------------
(* updateMetaData: both leaves are read in one critical section and written
   back in another, merged with the metadata of the request.                   *)

CallUpdate(s, new, first) ==
  /\ updates < MaxUpdates
  /\ updates' = updates + 1
  /\ Enter(IoThread, first, [NoRequest EXCEPT !.sig = s, !.new = new])
  /\ UNCHANGED <<trees, rwMutex, node, patch, sets, published>>

CallUpdateMetaData(s, new) == CallUpdate(s, new, "lockMeta")

MetaRead ==
  /\ pc[IoThread] = "lockMeta"
  /\ rwMutex = None
  /\ node' = [node EXCEPT ![IoThread] = LeafOf(IoThread)]
  /\ Goto(IoThread, "replace")
  /\ UNCHANGED <<trees, rwMutex, patch, history>>

Merged(leaf, new) == [leaf EXCEPT !.kind = new.kind, !.limit = new.limit]
DataMerged(leaf, new) ==
  [Merged(leaf, new) EXCEPT
     !.value = [a \in Attrs |-> IF new.value[a] = 0 THEN @[a] ELSE new.value[a]]]

(* Mutation: the metadata is not merged into the data tree. *)
DataKept     == data
DataReplaced == [data EXCEPT ![req[IoThread].sig] =
                   DataMerged(node[IoThread], req[IoThread].new)]

(* meta_tree__ changes on this thread only: what was read is still there. *)
MetaReplace ==
  /\ pc[IoThread] = "replace"
  /\ rwMutex = None
  /\ meta' = [meta EXCEPT ![req[IoThread].sig] = Merged(@, req[IoThread].new)]
  /\ data' = DataReplaced
  /\ torn' = torn \ {req[IoThread].sig}
  /\ Return(IoThread)
  /\ node' = [node EXCEPT ![IoThread] = NoLeaf]
  /\ UNCHANGED <<rwMutex, patch, history>>

-----------------------------------------------------------------------------
(* updateJsonTree: the difference is computed in one critical section and
   applied in another, for the meta tree first and then for the data tree.  A
   patch that fails is undone, and ends the request; it may name more metadata
   than is modelled, and may be stale.                                         *)

CallUpdateVSSTree(s, new, default) ==
  CallUpdate(s, applyDefaultValues(new, default), "diffMeta")

Differences(old, new) == {f \in {"kind", "limit"} : old[f] # new[f]}
DataDifferences(old, new) ==
  Differences(old, new) \cup {a \in Attrs : new.value[a] \notin {0, old.value[a]}}

Patched(leaf, new, fields) ==
  [leaf EXCEPT !.kind  = IF "kind" \in fields THEN new.kind ELSE @,
               !.limit = IF "limit" \in fields THEN new.limit ELSE @]
DataPatched(leaf, new, fields) ==
  [Patched(leaf, new, fields) EXCEPT
     !.value = [a \in Attrs |-> IF a \in fields THEN new.value[a] ELSE @[a]]]

DiffMeta ==
  /\ pc[IoThread] = "diffMeta"
  /\ rwMutex = None
  /\ patch' = Differences(meta[req[IoThread].sig], req[IoThread].new)
  /\ Goto(IoThread, "applyMeta")
  /\ UNCHANGED <<trees, rwMutex, node, history>>

ApplyMeta ==
  /\ pc[IoThread] = "applyMeta"
  /\ rwMutex = None
  /\ \/ /\ meta' = [meta EXCEPT ![req[IoThread].sig] = Patched(@, req[IoThread].new, patch)]
        /\ Goto(IoThread, "diffData")
     \/ UNCHANGED meta /\ Return(IoThread) \* genException
  /\ patch' = {}
  /\ UNCHANGED <<data, torn, rwMutex, node, history>>

DiffData ==
  /\ pc[IoThread] = "diffData"
  /\ rwMutex = None
  /\ patch' = DataDifferences(data[req[IoThread].sig], req[IoThread].new)
  /\ Goto(IoThread, "applyData")
  /\ UNCHANGED <<trees, rwMutex, node, history>>

ApplyData ==
  /\ pc[IoThread] = "applyData"
  /\ rwMutex = None
  /\ \/ /\ data' = [data EXCEPT
                     ![req[IoThread].sig] = DataPatched(@, req[IoThread].new, patch)]
        /\ torn' = torn \ {req[IoThread].sig}
     \/ UNCHANGED data /\ torn' = torn \cup {req[IoThread].sig} \* genException
  /\ patch' = {}
  /\ Return(IoThread)
  /\ UNCHANGED <<meta, rwMutex, node, history>>

-----------------------------------------------------------------------------
ClientStep(t) ==
  \E s \in Signals, a \in Attrs : CallSet(t, s, a) \/ CallGet(t, s, a)

ClientUpdate ==
  \E s \in Signals, new \in Description :
    \/ CallUpdateMetaData(s, new)
    \/ \E default \in Given : CallUpdateVSSTree(s, new, default)

UpdateStep ==
  MetaRead \/ MetaReplace \/ DiffMeta \/ ApplyMeta \/ DiffData \/ ApplyData

QuietStep(t) ==
  \/ CheckWritable(t) \/ CheckAttributable(t) \/ SetRead(t) \/ Store(t)
  \/ GetAttributable(t) \/ GetSignal(t)
  \/ t = IoThread /\ UpdateStep
RequestStep(t) == QuietStep(t) \/ Publish(t)

Next ==
  \/ \E t \in Callers : ClientStep(t) \/ RequestStep(t)
  \/ ClientUpdate

(* A thread that can go on does, and one that waits for rwMutex_ gets it when
   nobody takes it any more.  Publishing returns.  Clients owe nothing.        *)
Fairness == \A t \in Callers : WF_vars(RequestStep(t))

Spec     == Init /\ [][Next]_vars
FairSpec == Spec /\ Fairness

-----------------------------------------------------------------------------
(* Safety *)

(* What is published is what is stored at that moment: the set that is published
   last is the one whose value readers find, not an older one that was faster. *)
PublishedIsStored ==
  [][\A s \in Signals, a \in Attrs :
       published'[s][a] # published[s][a] =>
         published'[s][a] \ published[s][a] \subseteq {data[s].value[a]}]_vars

(* No client reads the value of a set before it has been handed to the
   subscribers.  Values of trees and of metadata are never handed to them.     *)
ReadsArePublished ==
  [][\A t \in Callers :
       GetSignal(t) /\ Answer(t) \notin Given =>
         Answer(t) \in published[req[t].sig][req[t].attr]]_vars

(* Both trees hold the same metadata of a leaf, except while a tree update is
   between the two, or has failed there and none has succeeded since: a set, which
   puts the whole leaf back, undoes no update.                                 *)
Patching == pc[IoThread] \in {"diffData", "applyData"}

TreesAgree ==
  \A s \in Signals :
    \/ Patching /\ s = req[IoThread].sig
    \/ s \in torn
    \/ data[s].kind = meta[s].kind /\ data[s].limit = meta[s].limit

-----------------------------------------------------------------------------
(* The inductive invariant behind them *)

InSetSignal(t) == pc[t] \in {"store", "publish"}

RequestInv ==
  \A t \in Callers :
    /\ rwMutex = t <=> InSetSignal(t)
    /\ pc[t] # "idle" => req[t].sig \in Signals
    /\ pc[t] \in {"lockMeta", "replace", "diffMeta", "applyMeta", "diffData", "applyData"}
         => t = IoThread

(* What a request has copied or computed is what it relies on. *)
Replaced(t) == [node[t] EXCEPT !.value[req[t].attr] = req[t].val]

CopyInv ==
  \A t \in Callers :
    /\ pc[t] = "store" => node[t] = LeafOf(t)
    /\ pc[t] = "publish" => LeafOf(t) = Replaced(t)
    /\ InSetSignal(t) => WithinLimit(req[t].val, node[t])

PatchInv ==
  LET s == req[IoThread].sig  new == req[IoThread].new IN
  /\ pc[IoThread] = "applyMeta" => patch = Differences(meta[s], new)
  /\ Patching => meta[s].kind = new.kind /\ meta[s].limit = new.limit
  /\ pc[IoThread] = "applyData" =>
       /\ patch \cap {"kind", "limit"} = Differences(data[s], new)
       /\ \A a \in Attrs \cap patch : new.value[a] # 0

Known(v, s, a) == v \in Given \/ v \in published[s][a]

(* Only the set that holds the lock has stored what it has not published. *)
ValuesInv ==
  /\ \A s \in Signals, a \in Attrs :
       \/ Known(data[s].value[a], s, a)
       \/ \E t \in Callers : pc[t] = "publish" /\ req[t].sig = s /\ req[t].attr = a
  /\ pc[IoThread] = "replace" =>
       \A a \in Attrs : Known(node[IoThread].value[a], req[IoThread].sig, a)

DInv == TypeOK /\ RequestInv /\ CopyInv /\ PatchInv /\ ValuesInv /\ TreesAgree

-----------------------------------------------------------------------------
(* The refinement of LeafStore *)

(* A set takes effect when its value is published: until then its leaf is the one
   that it has replaced, which nobody else can read, as rwMutex_ is held.      *)
leafBar ==
  [s \in Signals |->
     IF rwMutex # None /\ pc[rwMutex] = "publish" /\ req[rwMutex].sig = s
     THEN node[rwMutex] ELSE data[s]]

Promise == INSTANCE LeafStore WITH leaf <- leafBar

(* Sets and updates of metadata take effect atomically, in whatever order their
   sections come: no set brings back a kind, a limit or another value that was
   replaced meanwhile, and what is published was within the limit of that moment,
   not only of the moment it was checked.                                      *)
ImplementsLeafStore == Promise!Spec

-----------------------------------------------------------------------------
(* Every request is answered. *)
RequestsAnswered == \A t \in Callers : pc[t] # "idle" ~> pc[t] = "idle"

-----------------------------------------------------------------------------
(* What a comment of the code says, and the code does not do *)

(* VssDatabase.cpp 337: updateMetaData updates the metadata, by a shallow merge.
   A value set between its two critical sections is replaced by the old one.   *)
MetadataOnly ==
  [][MetaReplace => \A s \in Signals, a \in Attrs :
       req[IoThread].new.value[a] = 0 => data'[s].value[a] = data[s].value[a]]_vars
=============================================================================
