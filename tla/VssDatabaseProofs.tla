--------------------------- MODULE VssDatabaseProofs ---------------------------
(* Proofs about VssDatabase, for any threads, leaves and numbers of requests.

   DInv is inductive.  Most steps only move a request on and change no tree:
   MovesOn settles them all.  The others are those of a set that is past its
   lock, and those of an update.                                               *)
EXTENDS VssDatabase, TLAPS

USE DatabaseConstants

UpdateLocations ==
  {"lockMeta", "replace", "diffMeta", "applyMeta", "diffData", "applyData"}

(* Where a request may be without relying on a copy, a patch or the lock. *)
FreeLocations ==
  {"idle", "writable", "attributable", "lockSet", "getAttributable", "getSignal",
   "lockMeta", "diffMeta"}

LEMMA NoRequestType == NoRequest \in Request /\ NoLeaf \in Leaf
<1>1. NoLeaf \in Leaf /\ NoLeaf \in Description
  BY DEF NoLeaf, Leaf, Description, Given, Values, Kinds
<1> QED
  BY <1>1 DEF NoRequest, Request, Attrs

(* What a request names is of the type of a leaf. *)
LEMMA DescriptionType == Given \subseteq Nat /\ Description \subseteq Leaf
<1>1. Given \subseteq Nat
  BY DEF Given
<1>2. [Attrs -> Given] \subseteq Values
  BY <1>1 DEF Values
<1> QED
  BY <1>1, <1>2 DEF Description, Leaf

(* A leaf is what it has. *)
LEMMA LeafIs ==
  ASSUME NEW leaf \in Leaf
  PROVE  leaf = [kind |-> leaf.kind, limit |-> leaf.limit, value |-> leaf.value]
BY DEF Leaf

(* What a default does, and that it describes a leaf. *)
LEMMA DefaultType ==
  ASSUME NEW leaf \in Description, NEW default \in Given
  PROVE  /\ applyDefaultValues(leaf, default) \in Description
         /\ applyDefaultValues(leaf, default).kind = leaf.kind
         /\ applyDefaultValues(leaf, default).limit = leaf.limit
BY DEF applyDefaultValues, Description

(* The leaves of the tree file, with their defaults. *)
LEMMA InitialLeaves ==
  ASSUME Init, NEW s \in Signals
  PROVE  /\ data[s] \in Description /\ data[s] \in Leaf
         /\ data[s].kind = meta[s].kind /\ data[s].limit = meta[s].limit
         /\ data[s].limit = InitLimit
         /\ \A a \in Attrs : data[s].value[a] # 0 => a = "value" /\ data[s].kind = "attribute"
<1>1. PICK default \in [Signals -> Given] :
        data = [r \in Signals |-> applyDefaultValues(FileLeaf(meta[r]), default[r])]
  BY DEF Init
<1> DEFINE leaf == FileLeaf(meta[s])
<1>2. meta[s] \in [kind: Kinds, limit: {InitLimit}] /\ default[s] \in Given
  BY <1>1 DEF Init
<1>3. /\ leaf \in Description /\ leaf.kind = meta[s].kind /\ leaf.limit = meta[s].limit
      /\ meta[s].limit = InitLimit /\ \A a \in Attrs : leaf.value[a] = 0
  BY <1>2 DEF FileLeaf, Description, Given
<1>4. data[s] = applyDefaultValues(leaf, default[s])
  BY <1>1
<1> HIDE DEF leaf
<1>5. /\ data[s] \in Description /\ data[s].kind = leaf.kind /\ data[s].limit = leaf.limit
  BY <1>2, <1>3, <1>4, DefaultType
<1>6. ASSUME NEW a \in Attrs, data[s].value[a] # 0
      PROVE  a = "value" /\ leaf.kind = "attribute"
  BY <1>3, <1>4, <1>6 DEF applyDefaultValues, Description
<1> QED
  BY <1>3, <1>5, <1>6, DescriptionType

LEMMA InitDInv == Init => DInv
<1> SUFFICES ASSUME Init PROVE DInv
  OBVIOUS
<1> USE DEF Callers, Attrs, Kinds
<1>1. TypeOK
  <2>1. meta \in [Signals -> Metadata]
    BY DEF Init, Metadata
  <2>2. data \in [Signals -> Leaf]
    BY <2>1, InitialLeaves DEF Init, Leaf
  <2>3. req \in [Callers -> Request] /\ node \in [Callers -> Leaf]
    BY NoRequestType DEF Init
  <2> QED
    BY <2>1, <2>2, <2>3 DEF Init, TypeOK, Locations
<1>2. RequestInv /\ CopyInv /\ PatchInv
  BY DEF Init, RequestInv, CopyInv, PatchInv, InSetSignal, Patching
<1>3. ValuesInv /\ TreesAgree
  BY InitialLeaves DEF Init, ValuesInv, Known, TreesAgree, Patching, Description
<1> QED
  BY <1>1, <1>2, <1>3 DEF DInv

(* A request of t moves to a place where it relies on nothing. *)
LEMMA MovesOn ==
  ASSUME DInv, NEW t \in Callers, NEW p \in FreeLocations, NEW r \in Request,
         pc[t] \in FreeLocations \cup {"replace"},
         p # "idle" => r.sig \in Signals,
         p \in UpdateLocations => t = IoThread,
         pc' = [pc EXCEPT ![t] = p], req' = [req EXCEPT ![t] = r],
         UNCHANGED <<trees, rwMutex, node, patch, published>>,
         sets' \in Nat, updates' \in Nat
  PROVE  DInv'
<1> USE DEF DInv, FreeLocations, UpdateLocations
<1>1. /\ pc'[t] = p /\ req'[t] = r
      /\ \A u \in Callers \ {t} : pc'[u] = pc[u] /\ req'[u] = req[u]
  BY DEF TypeOK
<1>2. UNCHANGED <<meta, data, torn, rwMutex, node, patch, published>>
  BY DEF trees
<1>3. \A u \in Callers : InSetSignal(u)' <=> InSetSignal(u)
  BY <1>1 DEF InSetSignal
<1>4. TypeOK'
  <2>1. pc' \in [Callers -> Locations] /\ req' \in [Callers -> Request]
    BY DEF TypeOK, Locations
  <2>2. rwMutex \in {None} \cup {u \in Callers : pc'[u] \in {"store", "publish"}}
    BY <1>3 DEF TypeOK, InSetSignal
  <2> QED
    BY <1>2, <2>1, <2>2 DEF TypeOK
<1>5. RequestInv'
  BY <1>1, <1>2, <1>3 DEF RequestInv
<1>6. CopyInv'
  BY <1>1, <1>2, <1>3 DEF CopyInv, LeafOf, Replaced, InSetSignal
<1>7. PatchInv' /\ TreesAgree'
  <2>1. CASE t = IoThread
    BY <1>1, <1>2, <2>1 DEF PatchInv, TreesAgree, Patching
  <2>2. CASE t # IoThread
    BY <1>1, <1>2, <2>2 DEF PatchInv, TreesAgree, Patching, Callers
  <2> QED
    BY <2>1, <2>2
<1>8. ValuesInv'
  <2>1. ASSUME NEW s \in Signals, NEW a \in Attrs,
               NEW u \in Callers, pc[u] = "publish", req[u].sig = s, req[u].attr = a
        PROVE  pc'[u] = "publish" /\ req'[u].sig = s /\ req'[u].attr = a
    BY <1>1, <2>1
  <2>2. pc'[IoThread] = "replace" =>
          pc[IoThread] = "replace" /\ req'[IoThread] = req[IoThread]
    BY <1>1 DEF Callers
  <2> QED
    BY <1>2, <2>1, <2>2 DEF ValuesInv, Known
<1> QED
  BY <1>4, <1>5, <1>6, <1>7, <1>8
-----------------------------------------------------------------------------
(* The leaf in the data tree while setSignal publishes its new value. *)
LEMMA ReplacedLeaf ==
  ASSUME DInv, NEW t \in Callers, pc[t] = "publish"
  PROVE  /\ req[t].sig \in Signals /\ req[t].attr \in Attrs /\ req[t].val \in Nat
         /\ node[t] \in Leaf /\ data[req[t].sig] = Replaced(t)
         /\ Replaced(t).value[req[t].attr] = req[t].val
<1>1. req[t].sig \in Signals /\ req[t] \in Request /\ node[t] \in Leaf
  BY DEF DInv, TypeOK, RequestInv
<1> QED
  BY <1>1 DEF DInv, CopyInv, LeafOf, Replaced, Request, Leaf, Values

(* The three steps of setSignal. *)
LEMMA SetReadKeeps == ASSUME DInv, NEW t \in Callers, SetRead(t) PROVE DInv'
<1> USE DEF DInv
<1>1. CASE req[t].val <= LeafOf(t).limit
  <2> USE <1>1
  <2>1. /\ pc[t] = "lockSet" /\ rwMutex = None /\ rwMutex' = t
        /\ pc' = [pc EXCEPT ![t] = "store"] /\ node' = [node EXCEPT ![t] = LeafOf(t)]
        /\ UNCHANGED <<meta, data, torn, req, patch, sets, updates, published>>
    BY DEF SetRead, WithinLimit, HoldLock, Goto, trees, history
  <2>2. \A u \in Callers : ~InSetSignal(u)
    BY <2>1 DEF RequestInv
  <2>3. req[t].sig \in Signals /\ LeafOf(t) \in Leaf
    BY <2>1 DEF RequestInv, LeafOf, TypeOK
  <2>4. TypeOK'
    BY <2>1, <2>3 DEF TypeOK, Locations
  <2>5. RequestInv'
    BY <2>1, <2>2 DEF RequestInv, InSetSignal, TypeOK
  <2>6. CopyInv'
    BY <1>1, <2>1, <2>2 DEF CopyInv, InSetSignal, LeafOf, WithinLimit, TypeOK
  <2>7. PatchInv' /\ TreesAgree'
    BY <2>1 DEF PatchInv, TreesAgree, Patching, TypeOK
  <2>8. ValuesInv'
    BY <2>1, <2>2 DEF ValuesInv, InSetSignal, Known, TypeOK
  <2> QED
    BY <2>4, <2>5, <2>6, <2>7, <2>8
<1>2. CASE ~(req[t].val <= LeafOf(t).limit)
  <2>1. NoRequest \in Request
    BY NoRequestType
  <2> QED
    BY <1>2, <2>1, MovesOn DEF SetRead, WithinLimit, Return, FreeLocations, UpdateLocations, trees,
       history, TypeOK
<1> QED
  BY <1>1, <1>2

LEMMA StoreKeeps == ASSUME DInv, NEW t \in Callers, Store(t) PROVE DInv'
<1> USE DEF DInv
<1> DEFINE s == req[t].sig  a == req[t].attr  new == [node[t] EXCEPT !.value[a] = req[t].val]
<1>1. /\ pc[t] = "store" /\ rwMutex' = rwMutex
      /\ pc' = [pc EXCEPT ![t] = "publish"] /\ data' = [data EXCEPT ![s] = new]
      /\ UNCHANGED <<meta, torn, req, node, patch, sets, updates, published>>
  BY DEF Store, KeepForPublish, Goto, history
<1>2. rwMutex = t /\ (\A u \in Callers \ {t} : ~InSetSignal(u)) /\ s \in Signals
  BY <1>1 DEF RequestInv, InSetSignal
<1>3. node[t] = data[s] /\ data[s] \in Leaf /\ a \in Attrs /\ req[t].val \in Nat
  BY <1>1, <1>2 DEF CopyInv, LeafOf, TypeOK, Request
<1>4. /\ new \in Leaf /\ new.kind = data[s].kind /\ new.limit = data[s].limit
      /\ new.value[a] = req[t].val
      /\ \A b \in Attrs \ {a} : new.value[b] = data[s].value[b]
  BY <1>3 DEF Leaf, Values
<1>5. /\ data' \in [Signals -> Leaf] /\ data'[s] = new
      /\ \A r \in Signals \ {s} : data'[r] = data[r]
      /\ pc'[t] = "publish" /\ \A u \in Callers \ {t} : pc'[u] = pc[u]
  BY <1>1, <1>2, <1>4 DEF TypeOK
<1> HIDE DEF new
<1>6. TypeOK'
  BY <1>1, <1>2, <1>5 DEF TypeOK, Locations
<1>7. RequestInv'
  BY <1>1, <1>2, <1>5 DEF RequestInv, InSetSignal
<1>8. CopyInv'
  <2>1. LeafOf(t)' = Replaced(t)' /\ WithinLimit(req[t].val, node[t])'
    BY <1>1, <1>5 DEF CopyInv, InSetSignal, LeafOf, Replaced, WithinLimit, new
  <2> QED
    BY <1>1, <1>2, <1>5, <2>1 DEF CopyInv, InSetSignal
<1>9. \A r \in Signals : data'[r].kind = data[r].kind /\ data'[r].limit = data[r].limit
  BY <1>4, <1>5
<1>10. TreesAgree'
  BY <1>1, <1>5, <1>9 DEF TreesAgree, Patching, Callers
<1>11. PatchInv'
  <2>1. IoThread \in Callers /\ (pc'[IoThread] = "publish" \/ pc'[IoThread] = pc[IoThread])
    BY <1>5 DEF Callers
  <2>2. CASE pc'[IoThread] = "publish"
    BY <2>2 DEF PatchInv, Patching
  <2>3. CASE pc'[IoThread] = pc[IoThread] /\ pc[IoThread] # "applyData"
    BY <1>1, <2>3 DEF PatchInv, Patching
  <2>4. CASE pc'[IoThread] = pc[IoThread] /\ pc[IoThread] = "applyData"
    <3>1. req[IoThread].sig \in Signals
      BY <2>1, <2>4 DEF RequestInv
    <3> QED
      BY <1>1, <1>9, <2>4, <3>1 DEF PatchInv, Patching, Differences, Fields
  <2> QED
    BY <2>1, <2>2, <2>3, <2>4
<1>12. ValuesInv'
  <2>1. ASSUME NEW r \in Signals, NEW b \in Attrs, ~(r = s /\ b = a)
        PROVE  Known(data'[r].value[b], r, b)
    <3>1. data'[r].value[b] = data[r].value[b]
      BY <1>4, <1>5, <2>1
    <3>2. ~ \E u \in Callers : pc[u] = "publish" /\ req[u].sig = r /\ req[u].attr = b
      BY <1>1, <1>2 DEF InSetSignal
    <3> QED
      BY <3>1, <3>2 DEF ValuesInv
  <2>2. pc'[IoThread] = "replace" => pc[IoThread] = "replace"
    BY <1>5 DEF Callers
  <2> QED
    BY <1>1, <1>5, <2>1, <2>2 DEF ValuesInv, Known
<1> QED
  BY <1>6, <1>7, <1>8, <1>10, <1>11, <1>12

LEMMA PublishKeeps == ASSUME DInv, NEW t \in Callers, Publish(t) PROVE DInv'
<1> USE DEF DInv
<1> DEFINE s == req[t].sig  a == req[t].attr  v == req[t].val
<1>1. /\ pc[t] = "publish" /\ rwMutex' = None
      /\ pc' = [pc EXCEPT ![t] = "idle"] /\ req' = [req EXCEPT ![t] = NoRequest]
      /\ node' = [node EXCEPT ![t] = NoLeaf]
      /\ published' = [published EXCEPT ![s][a] = @ \cup {v}]
      /\ UNCHANGED <<meta, data, torn, patch, sets, updates>>
  BY DEF Publish, Unlock, Return, trees
<1>2. rwMutex = t /\ (\A u \in Callers \ {t} : ~InSetSignal(u)) /\ s \in Signals
  BY <1>1 DEF RequestInv, InSetSignal
<1>3. a \in Attrs /\ v \in Nat /\ data[s].value[a] = v
  BY <1>1, ReplacedLeaf
<1>4. NoRequest \in Request /\ NoLeaf \in Leaf
  BY NoRequestType
<1>5. /\ published' \in [Signals -> [Attrs -> SUBSET Nat]]
      /\ v \in published'[s][a]
      /\ \A r \in Signals, b \in Attrs : published[r][b] \subseteq published'[r][b]
  BY <1>1, <1>2, <1>3 DEF TypeOK
<1>6. /\ pc'[t] = "idle" /\ \A u \in Callers \ {t} :
           pc'[u] = pc[u] /\ req'[u] = req[u] /\ node'[u] = node[u]
  BY <1>1 DEF TypeOK
<1>7. \A u \in Callers : ~InSetSignal(u)'
  BY <1>2, <1>6 DEF InSetSignal
<1>8. TypeOK'
  BY <1>1, <1>4, <1>5 DEF TypeOK, Locations
<1>9. RequestInv'
  BY <1>1, <1>6, <1>7 DEF RequestInv
<1>10. CopyInv'
  BY <1>1, <1>6, <1>7 DEF CopyInv, InSetSignal
<1>11. PatchInv' /\ TreesAgree'
  <2>1. CASE t = IoThread
    BY <1>1, <1>6, <2>1 DEF PatchInv, TreesAgree, Patching
  <2>2. CASE t # IoThread
    BY <1>1, <1>6, <2>2 DEF PatchInv, TreesAgree, Patching, Callers
  <2> QED
    BY <2>1, <2>2
<1>12. ValuesInv'
  <2>1. ASSUME NEW r \in Signals, NEW b \in Attrs
        PROVE  Known(data[r].value[b], r, b)'
    <3>1. CASE r = s /\ b = a
      BY <1>1, <1>3, <1>5, <3>1 DEF Known
    <3>2. CASE ~(r = s /\ b = a)
      <4>1. ~ \E u \in Callers : pc[u] = "publish" /\ req[u].sig = r /\ req[u].attr = b
        BY <1>1, <1>2, <3>2 DEF InSetSignal
      <4>2. Known(data[r].value[b], r, b)
        BY <4>1 DEF ValuesInv
      <4>3. data' = data /\ published[r][b] \subseteq published'[r][b]
        BY <1>1, <1>5
      <4> HIDE DEF DInv
      <4> QED
        BY <4>2, <4>3 DEF Known
    <3> QED
      BY <3>1, <3>2
  <2>2. ASSUME pc'[IoThread] = "replace", NEW b \in Attrs
        PROVE  Known(node[IoThread].value[b], req[IoThread].sig, b)'
    <3>1. IoThread \in Callers \ {t} /\ pc[IoThread] = "replace"
      BY <1>6, <2>2 DEF Callers
    <3>2. req[IoThread].sig \in Signals
      BY <3>1 DEF RequestInv
    <3> QED
      BY <1>5, <1>6, <3>1, <3>2 DEF ValuesInv, Known
  <2> QED
    BY <2>1, <2>2 DEF ValuesInv
<1> QED
  BY <1>8, <1>9, <1>10, <1>11, <1>12
-----------------------------------------------------------------------------
(* Patching or merging a leaf leaves it with the metadata of the request, and with
   the values that the request names or with its own.                          *)
LEMMA PatchedLeaf ==
  ASSUME NEW leaf \in Leaf, NEW new \in Description, NEW fields,
         fields \cap {"kind", "limit"} = Differences(leaf, new)
  PROVE  LET d == DataPatched(leaf, new, fields) IN
         /\ d \in Leaf /\ d.kind = new.kind /\ d.limit = new.limit
         /\ d = [kind |-> new.kind, limit |-> new.limit, value |-> d.value]
         /\ d.value = [a \in Attrs |-> IF a \in fields THEN new.value[a] ELSE leaf.value[a]]
         /\ \A a \in Attrs : d.value[a] = new.value[a] \/ d.value[a] = leaf.value[a]
<1>1. /\ leaf.kind \in Kinds /\ leaf.limit \in Limits /\ leaf.value \in Values
      /\ new.kind \in Kinds /\ new.limit \in Limits /\ new.value \in Values
      /\ leaf = [kind |-> leaf.kind, limit |-> leaf.limit, value |-> leaf.value]
  BY DescriptionType DEF Leaf
<1>2. /\ "kind" \notin fields => leaf.kind = new.kind
      /\ "limit" \notin fields => leaf.limit = new.limit
  BY DEF Differences
<1> DEFINE value == [a \in Attrs |-> IF a \in fields THEN new.value[a] ELSE leaf.value[a]]
<1>3. value \in Values
  BY <1>1 DEF Values
<1> DEFINE p == Patched(leaf, new, fields)  d == DataPatched(leaf, new, fields)
<1>4. p \in Leaf /\ p.kind = new.kind /\ p.limit = new.limit /\ p.value = leaf.value
  BY <1>1, <1>2 DEF Patched, Leaf
<1> HIDE DEF p
<1>5. d = [p EXCEPT !.value = value]
  BY <1>4 DEF DataPatched, p
<1> HIDE DEF d
<1>6. d \in Leaf /\ d.kind = new.kind /\ d.limit = new.limit /\ d.value = value
  BY <1>3, <1>4, <1>5 DEF Leaf
<1>7. d = [kind |-> new.kind, limit |-> new.limit, value |-> d.value]
  BY <1>6, LeafIs
<1> QED
  BY <1>6, <1>7 DEF d

LEMMA MergedLeaf ==
  ASSUME NEW leaf \in Leaf, NEW new \in Description
  PROVE  LET d == DataMerged(leaf, new) IN
         /\ d \in Leaf /\ d.kind = new.kind /\ d.limit = new.limit
         /\ d = [kind |-> new.kind, limit |-> new.limit, value |-> d.value]
         /\ \A a \in Attrs : d.value[a] \in Given \/ d.value[a] = leaf.value[a]
<1>1. /\ leaf.kind \in Kinds /\ leaf.limit \in Limits /\ leaf.value \in Values
      /\ new.kind \in Kinds /\ new.limit \in Limits /\ new.value \in Values
      /\ leaf = [kind |-> leaf.kind, limit |-> leaf.limit, value |-> leaf.value]
      /\ \A a \in Attrs : new.value[a] \in Given
  BY DescriptionType DEF Leaf, Description
<1> DEFINE value == [a \in Attrs |-> IF new.value[a] = 0 THEN leaf.value[a] ELSE new.value[a]]
<1>2. value \in Values
  BY <1>1 DEF Values
<1> DEFINE m == Merged(leaf, new)  d == DataMerged(leaf, new)
<1>3. m \in Leaf /\ m.kind = new.kind /\ m.limit = new.limit /\ m.value = leaf.value
  BY <1>1 DEF Merged, Leaf
<1> HIDE DEF m
<1>4. d = [m EXCEPT !.value = value]
  BY <1>3 DEF DataMerged, m
<1> HIDE DEF d
<1>5. d \in Leaf /\ d.kind = new.kind /\ d.limit = new.limit /\ d.value = value
  BY <1>2, <1>3, <1>4 DEF Leaf
<1>6. d = [kind |-> new.kind, limit |-> new.limit, value |-> d.value]
  BY <1>5, LeafIs
<1> QED
  BY <1>1, <1>5, <1>6 DEF d

(* The steps of an update, all on the io thread. *)
LEMMA UpdateKeeps == ASSUME DInv, UpdateStep PROVE DInv'
<1> USE DEF DInv
<1> DEFINE io == IoThread  s == req[IoThread].sig  new == req[IoThread].new
<1>1. io \in Callers /\ rwMutex' = rwMutex /\ UNCHANGED <<sets, updates, published>>
  BY DEF UpdateStep, MetaRead, MetaReplace, DiffMeta, ApplyMeta, DiffData, ApplyData,
     Callers, history
<1>2. rwMutex = None /\ \A u \in Callers : ~InSetSignal(u)
  BY DEF UpdateStep, MetaRead, MetaReplace, DiffMeta, ApplyMeta, DiffData, ApplyData,
     RequestInv
<1>3. /\ s \in Signals /\ new \in Description /\ new.kind \in Kinds /\ new.limit \in Limits
      /\ meta[s] \in Metadata /\ data[s] \in Leaf /\ node[io] \in Leaf
  BY <1>1 DEF UpdateStep, MetaRead, MetaReplace, DiffMeta, ApplyMeta, DiffData, ApplyData,
     RequestInv, TypeOK, Request, Description
<1>4. NoRequest \in Request /\ NoLeaf \in Leaf
  BY NoRequestType
<1>5. \A r \in Signals, a \in Attrs : Known(data[r].value[a], r, a)
  BY <1>2 DEF ValuesInv, InSetSignal
(* Every step takes the io thread to another place outside setSignal. *)
<1>6. ASSUME NEW p \in UpdateLocations \cup {"idle"}, pc' = [pc EXCEPT ![io] = p],
             req' \in [Callers -> Request], \A u \in Callers \ {io} : req'[u] = req[u],
             p # "idle" => req' = req,
             meta' \in [Signals -> Metadata], data' \in [Signals -> Leaf],
             node' \in [Callers -> Leaf], patch' \in SUBSET Fields, torn' \in SUBSET Signals
      PROVE  TypeOK' /\ RequestInv' /\ CopyInv'
  <2>1. /\ pc'[io] = p /\ \A u \in Callers \ {io} : pc'[u] = pc[u]
        /\ \A u \in Callers : ~InSetSignal(u)'
    BY <1>1, <1>2, <1>6 DEF TypeOK, InSetSignal, UpdateLocations
  <2>2. TypeOK'
    BY <1>1, <1>2, <1>6 DEF TypeOK, Locations, UpdateLocations
  <2>3. RequestInv'
    BY <1>1, <1>2, <1>3, <1>6, <2>1 DEF RequestInv
  <2>4. CopyInv'
    BY <2>1 DEF CopyInv, InSetSignal
  <2> QED
    BY <2>2, <2>3, <2>4
<1>7. CASE MetaRead
  <2>1. /\ pc[io] = "lockMeta" /\ pc' = [pc EXCEPT ![io] = "replace"] /\ pc'[io] = "replace"
        /\ node' = [node EXCEPT ![io] = data[s]] /\ node'[io] = data[s]
        /\ UNCHANGED <<meta, data, torn, req, patch>>
    BY <1>1, <1>7 DEF MetaRead, Goto, LeafOf, trees, TypeOK
  <2>2. TypeOK' /\ RequestInv' /\ CopyInv'
    BY <1>3, <1>6, <2>1 DEF TypeOK, UpdateLocations
  <2>3. PatchInv' /\ TreesAgree'
    BY <2>1 DEF PatchInv, TreesAgree, Patching
  <2>4. ValuesInv'
    BY <1>1, <1>3, <1>5, <2>1 DEF ValuesInv, Known
  <2> QED
    BY <2>2, <2>3, <2>4
<1>8. CASE MetaReplace
  <2> DEFINE m == Merged(meta[s], new)  d == DataMerged(node[io], new)
  <2>1. /\ pc[io] = "replace" /\ pc' = [pc EXCEPT ![io] = "idle"] /\ pc'[io] = "idle"
        /\ node' = [node EXCEPT ![io] = NoLeaf] /\ req' = [req EXCEPT ![io] = NoRequest]
        /\ meta' = [meta EXCEPT ![s] = m] /\ data' = [data EXCEPT ![s] = d]
        /\ UNCHANGED patch /\ torn' = torn \ {s}
    BY <1>1, <1>8 DEF MetaReplace, Return, DataReplaced, TypeOK
  <2>2. /\ m \in Metadata /\ m.kind = new.kind /\ m.limit = new.limit
    BY <1>3 DEF Merged, Metadata
  <2>9. /\ d \in Leaf /\ d.kind = new.kind /\ d.limit = new.limit
        /\ \A a \in Attrs : d.value[a] \in Given \/ d.value[a] = node[io].value[a]
    BY <1>3, MergedLeaf
  <2> HIDE DEF m, d
  <2>3. /\ meta' \in [Signals -> Metadata] /\ meta'[s] = m
        /\ data' \in [Signals -> Leaf] /\ data'[s] = d
        /\ \A r \in Signals \ {s} : meta'[r] = meta[r] /\ data'[r] = data[r]
    BY <1>3, <2>1, <2>2, <2>9 DEF TypeOK
  <2>4. TypeOK' /\ RequestInv' /\ CopyInv'
    BY <1>1, <1>4, <1>6, <2>1, <2>3 DEF TypeOK, UpdateLocations
  <2>5. PatchInv' /\ TreesAgree'
    BY <2>1, <2>2, <2>3, <2>9 DEF PatchInv, TreesAgree, Patching
  <2>6. \A a \in Attrs : Known(node[io].value[a], s, a)
    BY <2>1 DEF ValuesInv
  <2>7. ValuesInv'
    BY <1>1, <1>5, <2>1, <2>3, <2>6, <2>9 DEF ValuesInv, Known
  <2> QED
    BY <2>4, <2>5, <2>7
<1>9. CASE DiffMeta
  <2>1. /\ pc[io] = "diffMeta" /\ pc' = [pc EXCEPT ![io] = "applyMeta"]
        /\ pc'[io] = "applyMeta" /\ patch' = Differences(meta[s], new)
        /\ UNCHANGED <<meta, data, torn, req, node>>
    BY <1>1, <1>9 DEF DiffMeta, Goto, trees, TypeOK
  <2>2. patch' \in SUBSET Fields
    BY <2>1 DEF Differences, Fields
  <2>3. TypeOK' /\ RequestInv' /\ CopyInv'
    BY <1>6, <2>1, <2>2 DEF TypeOK, UpdateLocations
  <2>4. PatchInv' /\ TreesAgree'
    BY <2>1 DEF PatchInv, TreesAgree, Patching
  <2>5. ValuesInv'
    BY <1>1, <1>5, <2>1 DEF ValuesInv, Known
  <2> QED
    BY <2>3, <2>4, <2>5
(* A patch that fails ends the request. *)
<1>14. ASSUME pc[io] \in {"applyMeta", "applyData"}, Return(io), patch' = {},
              UNCHANGED <<meta, data, node>>, torn' \in SUBSET Signals, torn \subseteq torn',
              pc[io] = "applyData" => s \in torn'
       PROVE  DInv'
  <2>1. /\ pc' = [pc EXCEPT ![io] = "idle"] /\ pc'[io] = "idle"
        /\ req' = [req EXCEPT ![io] = NoRequest]
    BY <1>1, <1>14 DEF Return, TypeOK
  <2>2. TypeOK' /\ RequestInv' /\ CopyInv'
    BY <1>1, <1>4, <1>6, <1>14, <2>1 DEF TypeOK, UpdateLocations
  <2>3. PatchInv' /\ TreesAgree'
    BY <1>14, <2>1 DEF PatchInv, TreesAgree, Patching
  <2>4. ValuesInv'
    BY <1>1, <1>5, <1>14, <2>1 DEF ValuesInv, Known
  <2> QED
    BY <2>2, <2>3, <2>4
<1>10. CASE ApplyMeta
  <2>1. CASE UNCHANGED meta /\ Return(io)
    BY <1>10, <1>14, <2>1 DEF ApplyMeta, TypeOK
  <2>2. CASE meta' = [meta EXCEPT ![s] = Patched(@, new, patch)] /\ Goto(io, "diffData")
    <3> DEFINE m == Patched(meta[s], new, patch)
    <3>1. /\ pc[io] = "applyMeta" /\ pc' = [pc EXCEPT ![io] = "diffData"]
          /\ pc'[io] = "diffData" /\ patch' = {} /\ meta' = [meta EXCEPT ![s] = m]
          /\ UNCHANGED <<data, torn, req, node>>
      BY <1>1, <1>10, <2>2 DEF ApplyMeta, Goto, TypeOK
    <3>2. m \in Metadata /\ m.kind = new.kind /\ m.limit = new.limit
      BY <1>3, <3>1 DEF PatchInv, Patched, Differences, Metadata
    <3> HIDE DEF m
    <3>3. /\ meta' \in [Signals -> Metadata] /\ meta'[s] = m
          /\ \A r \in Signals \ {s} : meta'[r] = meta[r]
      BY <1>3, <3>1, <3>2 DEF TypeOK
    <3>4. TypeOK' /\ RequestInv' /\ CopyInv'
      BY <1>6, <3>1, <3>3 DEF TypeOK, UpdateLocations
    <3>5. PatchInv' /\ TreesAgree'
      BY <3>1, <3>2, <3>3 DEF PatchInv, TreesAgree, Patching
    <3>6. ValuesInv'
      BY <1>1, <1>5, <3>1 DEF ValuesInv, Known
    <3> QED
      BY <3>4, <3>5, <3>6
  <2> QED
    BY <1>10, <2>1, <2>2 DEF ApplyMeta
<1>11. CASE DiffData
  <2>1. /\ pc[io] = "diffData" /\ pc' = [pc EXCEPT ![io] = "applyData"]
        /\ pc'[io] = "applyData" /\ patch' = DataDifferences(data[s], new)
        /\ UNCHANGED <<meta, data, torn, req, node>>
    BY <1>1, <1>11 DEF DiffData, Goto, trees, TypeOK
  <2>2. /\ patch' \in SUBSET Fields
        /\ patch' \cap {"kind", "limit"} = Differences(data[s], new)
        /\ \A a \in Attrs \cap patch' : new.value[a] # 0
    BY <2>1 DEF DataDifferences, Differences, Fields, Attrs
  <2>3. TypeOK' /\ RequestInv' /\ CopyInv'
    BY <1>6, <2>1, <2>2 DEF TypeOK, UpdateLocations
  <2>4. PatchInv' /\ TreesAgree'
    BY <2>1, <2>2 DEF PatchInv, TreesAgree, Patching
  <2>5. ValuesInv'
    BY <1>1, <1>5, <2>1 DEF ValuesInv, Known
  <2> QED
    BY <2>3, <2>4, <2>5
<1>12. CASE ApplyData
  <2>1. CASE UNCHANGED data /\ torn' = torn \cup {s}
    BY <1>3, <1>12, <1>14, <2>1 DEF ApplyData, TypeOK
  <2>2. CASE data' = [data EXCEPT ![s] = DataPatched(@, new, patch)] /\ torn' = torn \ {s}
    <3> DEFINE d == DataPatched(data[s], new, patch)
    <3>1. /\ pc[io] = "applyData" /\ pc' = [pc EXCEPT ![io] = "idle"] /\ pc'[io] = "idle"
          /\ patch' = {} /\ data' = [data EXCEPT ![s] = d] /\ torn' = torn \ {s}
          /\ req' = [req EXCEPT ![io] = NoRequest] /\ UNCHANGED <<meta, node>>
      BY <1>1, <1>12, <2>2 DEF ApplyData, Return, TypeOK
    <3>2. meta[s].kind = new.kind /\ meta[s].limit = new.limit
      BY <3>1 DEF PatchInv, Patching
    <3>3. patch \cap {"kind", "limit"} = Differences(data[s], new)
      BY <3>1 DEF PatchInv
    <3>4. /\ d \in Leaf /\ d.kind = new.kind /\ d.limit = new.limit
          /\ \A a \in Attrs : d.value[a] = new.value[a] \/ d.value[a] = data[s].value[a]
      <4>1. data[s] \in Leaf /\ new \in Description
        BY <1>3
      <4>2. /\ d \in Leaf /\ d.kind = new.kind /\ d.limit = new.limit
            /\ d.value = [a \in Attrs |-> IF a \in patch THEN new.value[a]
                                                       ELSE data[s].value[a]]
        BY <3>3, <4>1, PatchedLeaf
      <4> HIDE DEF DInv, s, new, d
      <4> QED
        BY <4>2
    <3> HIDE DEF d
    <3>5. /\ data' \in [Signals -> Leaf] /\ data'[s] = d
          /\ \A r \in Signals \ {s} : data'[r] = data[r]
      BY <1>3, <3>1, <3>4 DEF TypeOK
    <3>6. TypeOK' /\ RequestInv' /\ CopyInv'
      BY <1>1, <1>4, <1>6, <3>1, <3>5 DEF TypeOK, UpdateLocations
    <3>7. PatchInv' /\ TreesAgree'
      BY <3>1, <3>2, <3>4, <3>5 DEF PatchInv, TreesAgree, Patching
    <3>8. \A a \in Attrs : new.value[a] \in Given
      BY <1>3 DEF Description
    <3>9. ValuesInv'
      BY <1>1, <1>5, <3>1, <3>4, <3>5, <3>8 DEF ValuesInv, Known
    <3> QED
      BY <3>6, <3>7, <3>9
  <2> QED
    BY <1>12, <2>1, <2>2 DEF ApplyData
<1> QED
  BY <1>7, <1>8, <1>9, <1>10, <1>11, <1>12 DEF UpdateStep

-----------------------------------------------------------------------------
LEMMA NextDInv == DInv /\ [Next]_vars => DInv'
<1> SUFFICES ASSUME DInv, [Next]_vars PROVE DInv'
  OBVIOUS
<1> USE DEF FreeLocations, UpdateLocations
<1>0. NoRequest \in Request
  BY NoRequestType
<1>1. ASSUME NEW t \in Callers, ClientStep(t) PROVE DInv'
  <2>1. ASSUME NEW s \in Signals, NEW a \in Attrs, CallSet(t, s, a) PROVE DInv'
    <3> DEFINE r == [NoRequest EXCEPT !.sig = s, !.attr = a, !.val = sets']
    <3>1. sets' \in Nat /\ updates' \in Nat
      BY <2>1 DEF CallSet, DInv, TypeOK
    <3>2. r \in Request /\ r.sig = s
      BY <3>1, NoRequestType DEF Request
    <3> HIDE DEF r
    <3>3. /\ pc[t] = "idle" /\ pc' = [pc EXCEPT ![t] = "writable"]
          /\ req' = [req EXCEPT ![t] = r]
          /\ UNCHANGED <<trees, rwMutex, node, patch, published>>
      BY <2>1 DEF CallSet, Enter, r
    <3> QED
      BY <3>1, <3>2, <3>3, MovesOn
  <2>2. ASSUME NEW s \in Signals, NEW a \in Attrs, CallGet(t, s, a) PROVE DInv'
    <3> DEFINE r == [NoRequest EXCEPT !.sig = s, !.attr = a]
    <3>1. r \in Request /\ r.sig = s
      BY NoRequestType DEF Request
    <3> HIDE DEF r
    <3>2. /\ pc[t] = "idle" /\ pc' = [pc EXCEPT ![t] = "getAttributable"]
          /\ req' = [req EXCEPT ![t] = r]
          /\ UNCHANGED <<trees, rwMutex, node, patch, published, sets, updates>>
      BY <2>2 DEF CallGet, Enter, r, history
    <3> QED
      BY <3>1, <3>2, MovesOn DEF DInv, TypeOK
  <2> QED
    BY <1>1, <2>1, <2>2 DEF ClientStep
<1>2. CASE ClientUpdate
  <2> SUFFICES ASSUME NEW s \in Signals, NEW new \in Description,
                      NEW first \in {"lockMeta", "diffMeta"}, CallUpdate(s, new, first)
               PROVE  DInv'
    BY <1>2, DefaultType DEF ClientUpdate, CallUpdateMetaData, CallUpdateVSSTree
  <2> DEFINE r == [NoRequest EXCEPT !.sig = s, !.new = new]
  <2>1. r \in Request /\ r.sig = s /\ IoThread \in Callers
    BY NoRequestType DEF Request, Callers
  <2> HIDE DEF r
  <2>2. /\ pc[IoThread] = "idle" /\ pc' = [pc EXCEPT ![IoThread] = first]
        /\ req' = [req EXCEPT ![IoThread] = r] /\ sets' \in Nat /\ updates' \in Nat
        /\ UNCHANGED <<trees, rwMutex, node, patch, published>>
    BY DEF CallUpdate, Enter, r, DInv, TypeOK
  <2> QED
    BY <2>1, <2>2, MovesOn
<1>3. ASSUME NEW t \in Callers, RequestStep(t) PROVE DInv'
  <2>1. req[t] \in Request /\ (pc[t] # "idle" => req[t].sig \in Signals)
    BY DEF DInv, TypeOK, RequestInv
  <2>2. ASSUME NEW p \in {"attributable", "lockSet", "getSignal"},
               Goto(t, p) \/ Return(t), pc[t] \in FreeLocations \ {"idle"},
               UNCHANGED <<trees, rwMutex, node, patch, history>>
        PROVE  DInv'
    <3>1. UNCHANGED <<trees, rwMutex, node, patch, published>> /\ sets' \in Nat /\ updates' \in Nat
      BY <2>2 DEF history, DInv, TypeOK
    <3>2. CASE Goto(t, p)
      <4>1. req' = [req EXCEPT ![t] = req[t]] /\ pc' = [pc EXCEPT ![t] = p]
        BY <3>2 DEF Goto, DInv, TypeOK
      <4> QED
        BY <2>1, <2>2, <3>1, <4>1, MovesOn
    <3>3. CASE Return(t)
      BY <1>0, <2>2, <3>1, <3>3, MovesOn DEF Return
    <3> QED
      BY <2>2, <3>2, <3>3
  <2>3. CASE CheckWritable(t)
    BY <2>2, <2>3 DEF CheckWritable
  <2>4. CASE CheckAttributable(t)
    BY <2>2, <2>4 DEF CheckAttributable
  <2>5. CASE GetAttributable(t)
    BY <2>2, <2>5 DEF GetAttributable
  <2>6. CASE GetSignal(t)
    BY <2>2, <2>6 DEF GetSignal
  <2> QED
    BY <1>3, <2>3, <2>4, <2>5, <2>6, SetReadKeeps, StoreKeeps, PublishKeeps, UpdateKeeps
       DEF RequestStep, QuietStep
<1>4. CASE UNCHANGED vars
  <2>1. UNCHANGED <<meta, data, torn, rwMutex, pc, req, node, patch, sets, updates, published>>
    BY <1>4 DEF vars, trees, request, history
  <2>2. TypeOK' /\ RequestInv'
    BY <2>1 DEF DInv, TypeOK, RequestInv, InSetSignal
  <2>3. CopyInv'
    BY <2>1 DEF DInv, CopyInv, InSetSignal, LeafOf, Replaced, WithinLimit
  <2>4. PatchInv' /\ ValuesInv' /\ TreesAgree'
    BY <2>1 DEF DInv, PatchInv, Patching, ValuesInv, Known, TreesAgree
  <2> QED
    BY <2>2, <2>3, <2>4 DEF DInv
<1> QED
  BY <1>1, <1>2, <1>3, <1>4 DEF Next

(* The invariant of the database, from which the theorems below follow. *)
THEOREM DatabaseInvariant == Spec => []DInv
<1> QED
  BY InitDInv, NextDInv, PTL DEF Spec

(* Types; rwMutex_ is held by nobody but a thread inside setSignal. *)
THEOREM DatabaseTypes == Spec => []TypeOK
<1>1. DInv => TypeOK
  BY DEF DInv
<1> QED
  BY <1>1, DatabaseInvariant, PTL

(* The two trees hold the same metadata outside the middle of a tree update. *)
THEOREM MetadataAgrees == Spec => []TreesAgree
<1>1. DInv => TreesAgree
  BY DEF DInv
<1> QED
  BY <1>1, DatabaseInvariant, PTL

(* A client that reads the value of a set reads one that has been published; what
   else it may read comes from the tree file or from an update.                *)
THEOREM OnlyPublishedIsRead == Spec => ReadsArePublished
<1>1. DInv /\ [Next]_vars =>
        [\A t \in Callers : GetSignal(t) /\ Answer(t) \notin Given =>
           Answer(t) \in published[req[t].sig][req[t].attr]]_vars
  <2> SUFFICES ASSUME DInv, NEW t \in Callers, GetSignal(t), Answer(t) \notin Given
               PROVE  Answer(t) \in published[req[t].sig][req[t].attr]
    OBVIOUS
  <2>1. req[t].sig \in Signals /\ req[t].attr \in Attrs
    BY DEF GetSignal, DInv, RequestInv, TypeOK, Request
  <2>2. \A u \in Callers : pc[u] # "publish"
    BY DEF GetSignal, DInv, RequestInv, InSetSignal
  <2> QED
    BY <2>1, <2>2 DEF DInv, ValuesInv, Known, Answer, LeafOf
<1> QED
  BY <1>1, DatabaseInvariant, PTL DEF Spec, ReadsArePublished

(* Subscribers are told the value that is stored, in the order it was stored. *)
THEOREM PublishedValueIsStored == Spec => PublishedIsStored
<1>1. DInv /\ [Next]_vars =>
        [\A s \in Signals, a \in Attrs : published'[s][a] # published[s][a] =>
           published'[s][a] \ published[s][a] \subseteq {data[s].value[a]}]_vars
  <2> SUFFICES ASSUME DInv, Next, NEW s \in Signals, NEW a \in Attrs,
                      published'[s][a] # published[s][a]
               PROVE  published'[s][a] \ published[s][a] \subseteq {data[s].value[a]}
    OBVIOUS
  <2>1. PICK t \in Callers : Publish(t)
    BY DEF Next, ClientStep, CallSet, CallGet, ClientUpdate, CallUpdateMetaData,
       CallUpdateVSSTree, CallUpdate, RequestStep, QuietStep, CheckWritable, CheckAttributable, SetRead,
       Store, GetAttributable, GetSignal, UpdateStep, MetaRead, MetaReplace, DiffMeta,
       ApplyMeta, DiffData, ApplyData, history
  <2>2. req[t].sig = s /\ req[t].attr = a
    BY <2>1 DEF Publish, DInv, TypeOK
  <2>3. published'[s][a] = published[s][a] \cup {req[t].val}
    BY <2>1, <2>2 DEF Publish, DInv, TypeOK
  <2>4. data[s].value[a] = req[t].val
    BY <2>1, <2>2, ReplacedLeaf DEF Publish
  <2> QED
    BY <2>3, <2>4
<1> QED
  BY <1>1, DatabaseInvariant, PTL DEF Spec, PublishedIsStored

-----------------------------------------------------------------------------
(* The refinement of LeafStore *)

(* A step of a request outside setSignal that leaves the data tree alone. *)
LEMMA OtherStutters ==
  ASSUME DInv, NEW t \in Callers, ~InSetSignal(t), UNCHANGED <<data, rwMutex>>,
         \A u \in Callers \ {t} : pc'[u] = pc[u] /\ req'[u] = req[u] /\ node'[u] = node[u]
  PROVE  leafBar' = leafBar
<1>1. CASE rwMutex = None
  BY <1>1 DEF leafBar
<1>2. CASE rwMutex # None
  <2>1. rwMutex \in Callers \ {t}
    BY <1>2 DEF DInv, TypeOK, RequestInv
  <2>2. pc'[rwMutex] = pc[rwMutex] /\ req'[rwMutex] = req[rwMutex] /\ node'[rwMutex] = node[rwMutex]
    BY <2>1
  <2> QED
    BY <2>2 DEF leafBar
<1> QED
  BY <1>1, <1>2

LEMMA SetReadStutters ==
  ASSUME DInv, NEW t \in Callers, SetRead(t)
  PROVE  leafBar' = leafBar
<1>1. pc[t] = "lockSet" /\ rwMutex = None /\ data' = data
  BY DEF SetRead, trees
<1>2. CASE WithinLimit(req[t].val, LeafOf(t))
  <2>1. rwMutex' = t /\ pc'[t] = "store"
    BY <1>2 DEF SetRead, HoldLock, Goto, DInv, TypeOK
  <2> QED
    BY <1>1, <2>1 DEF leafBar
<1>3. CASE ~WithinLimit(req[t].val, LeafOf(t))
  BY <1>1, <1>3 DEF SetRead, leafBar
<1> QED
  BY <1>2, <1>3

LEMMA StoreStutters ==
  ASSUME DInv, NEW t \in Callers, Store(t)
  PROVE  leafBar' = leafBar
<1> DEFINE s == req[t].sig
<1>1. /\ pc[t] = "store" /\ pc'[t] = "publish" /\ UNCHANGED <<rwMutex, req, node>>
      /\ \A r \in Signals : r # s => data'[r] = data[r]
  BY DEF Store, KeepForPublish, Goto, DInv, TypeOK
<1>2. rwMutex = t /\ t # None /\ node[t] = data[s]
  BY <1>1 DEF DInv, RequestInv, InSetSignal, CopyInv, LeafOf, Callers
<1>3. leafBar = [r \in Signals |-> data[r]]
  BY <1>1, <1>2 DEF leafBar
<1>4. leafBar' = [r \in Signals |-> IF s = r THEN node[t] ELSE data'[r]]
  BY <1>1, <1>2 DEF leafBar
<1> QED
  BY <1>1, <1>2, <1>3, <1>4

LEMMA PublishSets ==
  ASSUME DInv, NEW t \in Callers, Publish(t)
  PROVE  Promise!Next
<1> DEFINE s == req[t].sig  a == req[t].attr  v == req[t].val
<1>1. /\ pc[t] = "publish" /\ rwMutex' = None /\ data' = data
      /\ published' = [published EXCEPT ![s][a] = @ \cup {v}]
  BY DEF Publish, Unlock, trees
<1>2. /\ s \in Signals /\ a \in Attrs /\ v \in Nat /\ node[t] \in Leaf
      /\ data[s] = [node[t] EXCEPT !.value[a] = v]
  BY <1>1, ReplacedLeaf DEF Replaced
<1>3. rwMutex = t /\ t # None /\ v <= node[t].limit
  BY <1>1 DEF DInv, RequestInv, InSetSignal, CopyInv, WithinLimit, Callers
<1>4. data \in [Signals -> Leaf]
  BY DEF DInv, TypeOK
<1>5. leafBar = [r \in Signals |-> IF s = r THEN node[t] ELSE data[r]]
  BY <1>1, <1>3 DEF leafBar
<1>6. leafBar' = data
  BY <1>1, <1>4 DEF leafBar
<1> HIDE DEF s, a, v
<1>7. leafBar[s] = node[t]
  BY <1>2, <1>5
<1>8. leafBar' = [leafBar EXCEPT ![s].value[a] = v]
  <2>1. leafBar' = [leafBar EXCEPT ![s] = data[s]]
    BY <1>4, <1>5, <1>6
  <2> QED
    BY <1>2, <1>7, <2>1
<1>9. node[t].limit \in Nat
  BY <1>2, DatabaseConstants DEF Leaf
<1>10. v \in 0 .. leafBar[s].limit
  BY <1>2, <1>3, <1>7, <1>9
<1>11. Promise!Set(s, a, v)
  BY <1>1, <1>3, <1>7, <1>8 DEF Promise!Set, s, a, v
<1> QED
  BY <1>2, <1>10, <1>11 DEF Promise!Next

LEMMA UpdateDescribes ==
  ASSUME DInv, MetaReplace \/ ApplyData
  PROVE  Promise!Next \/ (leafBar' = leafBar /\ published' = published)
<1> DEFINE io == IoThread  s == req[io].sig  new == req[io].new
           kept == [kind |-> new.kind, limit |-> new.limit]
<1>1. io \in Callers /\ rwMutex = None /\ rwMutex' = None /\ published' = published
  BY DEF MetaReplace, ApplyData, history, Callers
<1>2. s \in Signals /\ new \in Description /\ node[io] \in Leaf /\ data[s] \in Leaf
  BY <1>1 DEF MetaReplace, ApplyData, DInv, RequestInv, TypeOK, Request
<1>3. data \in [Signals -> Leaf]
  BY DEF DInv, TypeOK
<1>4. leafBar = data /\ leafBar' = [r \in Signals |-> data'[r]]
  BY <1>1, <1>3 DEF leafBar
<1>5. kept \in [kind: Kinds, limit: Limits]
  BY <1>2 DEF Description
<1>6. ASSUME NEW value, data' = [data EXCEPT ![s] = [kind |-> new.kind, limit |-> new.limit,
                                                     value |-> value]]
      PROVE  Promise!Describe(s, kept, value)
  <2>1. leafBar' = data'
    BY <1>3, <1>4, <1>6
  <2> QED
    BY <1>1, <1>4, <1>6, <2>1 DEF Promise!Describe
<1>7. CASE MetaReplace
  <2> DEFINE d == DataMerged(node[io], new)  value == d.value
  <2>1. data' = [data EXCEPT ![s] = d]
    BY <1>7 DEF MetaReplace, DataReplaced
  <2>2. /\ d = [kind |-> new.kind, limit |-> new.limit, value |-> value] /\ d \in Leaf
        /\ \A a \in Attrs : value[a] \in Given \/ value[a] = node[io].value[a]
    BY <1>2, MergedLeaf
  <2> HIDE DEF d
  <2>3. \A a \in Attrs : Known(node[io].value[a], s, a)
    BY <1>7 DEF MetaReplace, DInv, ValuesInv
  <2>4. value \in [Attrs -> Nat]
    BY <2>2 DEF Leaf, Values
  <2>5. Promise!Describe(s, kept, value)
    BY <1>6, <2>1, <2>2
  <2> HIDE DEF value
  <2>6. Promise!Earlier(s, value)
    BY <2>2, <2>3 DEF Promise!Earlier, Promise!Given, Given, Known
  <2>7. value \in [Attrs -> Promise!Told(s)]
    BY <2>4, <2>6 DEF Promise!Earlier, Promise!Told
  <2>8. Promise!UpdateMetaData(s, kept, value)
    BY <2>5, <2>6 DEF Promise!UpdateMetaData
  <2> HIDE DEF s, new, kept
  <2> QED
    BY <1>2, <1>5, <2>7, <2>8 DEF Promise!Next
<1>8. CASE ApplyData
  <2>1. CASE UNCHANGED data
    BY <1>1, <1>3, <1>4, <2>1
  <2>2. CASE data' = [data EXCEPT ![s] = DataPatched(@, new, patch)]
    <3> DEFINE d == DataPatched(data[s], new, patch)
               named == [a \in Attrs |-> IF a \in patch THEN new.value[a] ELSE 0]
    <3>1. patch \cap {"kind", "limit"} = Differences(data[s], new)
      BY <1>8 DEF ApplyData, DInv, PatchInv
    <3>2. /\ d = [kind |-> new.kind, limit |-> new.limit, value |-> d.value]
          /\ d.value = [a \in Attrs |-> IF a \in patch THEN new.value[a] ELSE data[s].value[a]]
      BY <1>2, <3>1, PatchedLeaf
    <3>3. data' = [data EXCEPT ![s] = d]
      BY <2>2
    <3> HIDE DEF d
    <3>4. Promise!Describe(s, kept, d.value)
      BY <1>6, <3>2, <3>3
    <3>5. \A a \in Attrs : a \in patch => new.value[a] # 0
      BY <1>8 DEF ApplyData, DInv, PatchInv
    <3>6. named \in [Attrs -> Promise!Given]
      BY <1>2 DEF Promise!Given, Given, Description
    <3>7. d.value = Promise!Named(leafBar[s].value, named)
      BY <1>4, <3>2, <3>5 DEF Promise!Named
    <3>8. Promise!UpdateVSSTree(s, kept, named)
      BY <3>4, <3>7 DEF Promise!UpdateVSSTree
    <3> HIDE DEF s, new, kept, named
    <3> QED
      BY <1>2, <1>5, <3>6, <3>8 DEF Promise!Next
  <2> QED
    BY <1>8, <2>1, <2>2 DEF ApplyData
<1> QED
  BY <1>7, <1>8

LEMMA StepIsAtomic == DInv /\ [Next]_vars => [Promise!Next]_(Promise!vars)
<1> SUFFICES ASSUME DInv, [Next]_vars
             PROVE  Promise!Next \/ (leafBar' = leafBar /\ published' = published)
  BY DEF Promise!vars
<1>1. ASSUME NEW t \in Callers, pc[t] \notin {"store", "publish"},
             UNCHANGED <<data, rwMutex, published>>,
             \A u \in Callers \ {t} : pc'[u] = pc[u] /\ req'[u] = req[u] /\ node'[u] = node[u]
      PROVE  leafBar' = leafBar /\ published' = published
  BY <1>1, OtherStutters DEF InSetSignal
<1>2. pc \in [Callers -> Locations] /\ req \in [Callers -> Request] /\ node \in [Callers -> Leaf]
  BY DEF DInv, TypeOK
<1>3. ASSUME NEW t \in Callers, ClientStep(t)
      PROVE  leafBar' = leafBar /\ published' = published
  BY <1>1, <1>2, <1>3 DEF ClientStep, CallSet, CallGet, Enter, trees, history
<1>4. CASE ClientUpdate
  <2>1. IoThread \in Callers
    BY DEF Callers
  <2> QED
    BY <1>1, <1>2, <1>4, <2>1 DEF ClientUpdate, CallUpdateMetaData, CallUpdateVSSTree, CallUpdate,
       Enter, trees
<1>5. ASSUME NEW t \in Callers,
             CheckWritable(t) \/ CheckAttributable(t) \/ GetAttributable(t) \/ GetSignal(t)
      PROVE  leafBar' = leafBar /\ published' = published
  BY <1>1, <1>2, <1>5 DEF CheckWritable, CheckAttributable, GetAttributable, GetSignal,
     Goto, Return, trees, history
<1>6. CASE MetaRead \/ DiffMeta \/ ApplyMeta \/ DiffData
  <2>1. IoThread \in Callers
    BY DEF Callers
  <2> QED
    BY <1>1, <1>2, <1>6, <2>1 DEF MetaRead, DiffMeta, ApplyMeta, DiffData, Goto, Return, trees, history
<1>7. ASSUME NEW t \in Callers, SetRead(t) \/ Store(t)
      PROVE  leafBar' = leafBar /\ published' = published
  BY <1>7, SetReadStutters, StoreStutters DEF SetRead, Store, history
<1>8. CASE UNCHANGED vars
  BY <1>8 DEF vars, trees, request, history, leafBar
<1> QED
  BY <1>3, <1>4, <1>5, <1>6, <1>7, <1>8, PublishSets, UpdateDescribes
     DEF Next, RequestStep, QuietStep, UpdateStep

(* The database is a store of leaves whose sets and updates are atomic: a set is
   seen by readers and told to subscribers at once, with a value within the limit
   that holds then, and no set undoes what another request did meanwhile.      *)
THEOREM DatabaseImplementsLeafStore == Spec => ImplementsLeafStore
<1>1. Init => Promise!Init
  <2> SUFFICES ASSUME Init
               PROVE  Promise!Init
    OBVIOUS
  <2>1. leafBar = [s \in Signals |-> data[s]]
    BY DEF Init, leafBar
  <2>2. \A s \in Signals : data[s] \in [kind: Kinds, limit: {InitLimit}, value: [Attrs -> Given]]
    BY InitialLeaves DEF Description
  <2>3. leafBar \in [Signals -> [kind: Kinds, limit: {InitLimit}, value: [Attrs -> Given]]]
    BY <2>1, <2>2
  <2>4. \A s \in Signals, a \in Attrs :
          leafBar[s].value[a] # 0 => a = "value" /\ leafBar[s].kind = "attribute"
    BY <2>1, InitialLeaves
  <2> QED
    BY <2>3, <2>4 DEF Init, Promise!Init, Promise!Given, Given
<1> QED
  BY <1>1, StepIsAtomic, DatabaseInvariant, PTL DEF Spec, ImplementsLeafStore, Promise!Spec
=============================================================================
