------------------------ MODULE MCSubscriptionHandler ------------------------
(* Instances of SubscriptionHandler for TLC.  Ids, and the channels
   of one kind, are interchangeable: nothing in the module tells one from
   another.  Symmetry is used for safety only.                                 *)
EXTENDS HandlerNotification, TLC

Symmetry == Permutations(Ids) \cup Permutations(WsChannels)
=============================================================================
