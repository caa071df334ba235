----------------------------- MODULE Notification -----------------------------
(* What the subscription handler promises, without its mutexes, its queue and
   its thread: a publication of a key becomes due, in one step, to every
   subscription of that key, and what is due to a subscription is delivered in
   the order of the publications, which are numbered.

   Nothing obliges the handler to deliver (see SubscriberNotified in
   SubscriptionHandler), and what is due outlives its subscription.            *)
EXTENDS Naturals

CONSTANTS Keys, Ids, None

VARIABLES
  registered, \* id -> the key it is subscribed to, or None
  due,        \* id -> the publications still to be delivered to it
  published   \* publications so far

vars == <<registered, due, published>>

Init ==
  /\ registered = [id \in Ids |-> None]
  /\ due = [id \in Ids |-> {}]
  /\ published = 0

(* Nothing published before a subscription is due to it. *)
Subscribe(id, k) ==
  /\ registered[id] = None
  /\ due[id] = {}
  /\ registered' = [registered EXCEPT ![id] = k]
  /\ UNCHANGED <<due, published>>

Unsubscribe(ids) ==
  /\ registered' = [id \in Ids |-> IF id \in ids THEN None ELSE registered[id]]
  /\ UNCHANGED <<due, published>>

Publish(k) ==
  /\ published' = published + 1
  /\ due' = [id \in Ids |-> IF registered[id] = k THEN due[id] \cup {published + 1}
                                                 ELSE due[id]]
  /\ UNCHANGED registered

(* The earliest goes first. *)
Deliver(id, p) ==
  /\ p \in due[id]
  /\ \A q \in due[id] : p <= q
  /\ due' = [due EXCEPT ![id] = @ \ {p}]
  /\ UNCHANGED <<registered, published>>

Next ==
  \/ \E id \in Ids, k \in Keys : Subscribe(id, k)
  \/ \E ids \in SUBSET Ids : Unsubscribe(ids)
  \/ \E k \in Keys : Publish(k)
  \/ \E id \in Ids : \E p \in due[id] : Deliver(id, p)

Spec == Init /\ [][Next]_vars
=============================================================================
