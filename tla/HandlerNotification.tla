------------------------- MODULE HandlerNotification -------------------------
(* SubscriptionHandler implements Notification.

   A publication happens, for every subscription of the key at once, when
   publishForVSSPath gets accessMutex: it is due to the ids its loop has not
   reached yet, as it is to those whose event is in the queue.  A subscription
   happens, and ends, where its entry of the map is written.                   *)
EXTENDS SubscriptionHandler

registeredBar ==
  [id \in Ids |-> IF Registered(id)
                  THEN CHOOSE k \in Keys : subscriptions[k][id] # None
                  ELSE None]

QueuedFor(id) == {buffer[i].val : i \in {j \in DOMAIN buffer : buffer[j].id = id}}
UnservedBy(id) == IF \E t \in Callers : id \in todo[t] THEN {publications} ELSE {}

dueBar == [id \in Ids |-> QueuedFor(id) \cup UnservedBy(id)]

Promise == INSTANCE Notification WITH registered <- registeredBar,
                                      due        <- dueBar,
                                      published  <- publications

(* subscribe, unsubscribe, unsubscribeAll and publishForVSSPath take effect
   atomically: a publication reaches every subscription that exists at one
   moment, and in the order of publications, whatever other threads do in the
   meantime.                                                                   *)
ImplementsNotification == Promise!Spec
=============================================================================
