------------------------------- MODULE LeafStore -------------------------------
(* What the database promises of its leaves, without rwMutex_, its two trees and
   the sections of its requests: a set is one step, which changes one value, to
   one within the limit of that moment, and tells the subscribers; an update of
   metadata is one step, which tells them nothing.

   updateVSSTree keeps the values that the tree does not name.  updateMetaData
   promises less: each value may go back to an earlier one (see MetadataOnly in
   VssDatabase).                                                               *)
EXTENDS Naturals

CONSTANTS Signals, Attrs, Kinds, Limits, InitLimit, TreeValues

VARIABLES
  leaf,      \* the kind, the limit and the values of each leaf
  published  \* the values that subscribers were told, of each leaf and attribute

vars == <<leaf, published>>

(* 0 is a value that has not been set, or is not named. *)
Given == {0} \cup TreeValues

(* Only attributes have a value at first, their default. *)
Init ==
  /\ leaf \in [Signals -> [kind: Kinds, limit: {InitLimit}, value: [Attrs -> Given]]]
  /\ \A s \in Signals, a \in Attrs :
       leaf[s].value[a] # 0 => a = "value" /\ leaf[s].kind = "attribute"
  /\ published = [s \in Signals |-> [a \in Attrs |-> {}]]

Set(s, a, v) ==
  /\ v <= leaf[s].limit
  /\ leaf' = [leaf EXCEPT ![s].value[a] = v]
  /\ published' = [published EXCEPT ![s][a] = @ \cup {v}]

Describe(s, new, value) ==
  /\ leaf' = [leaf EXCEPT ![s] = [kind |-> new.kind, limit |-> new.limit, value |-> value]]
  /\ UNCHANGED published

Named(value, named) == [a \in Attrs |-> IF named[a] = 0 THEN value[a] ELSE named[a]]

UpdateVSSTree(s, new, named) == Describe(s, new, Named(leaf[s].value, named))

Earlier(s, value) == \A a \in Attrs : value[a] \in Given \cup published[s][a]
Told(s)           == Given \cup UNION {published[s][a] : a \in Attrs}

UpdateMetaData(s, new, value) == Earlier(s, value) /\ Describe(s, new, value)

Next ==
  \E s \in Signals :
    \/ \E a \in Attrs, v \in 0 .. leaf[s].limit : Set(s, a, v)
    \/ \E new \in [kind: Kinds, limit: Limits] :
         \/ \E named \in [Attrs -> Given] : UpdateVSSTree(s, new, named)
         \/ \E value \in [Attrs -> Told(s)] : UpdateMetaData(s, new, value)

Spec == Init /\ [][Next]_vars
=============================================================================
