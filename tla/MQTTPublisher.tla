----------------------------- MODULE MQTTPublisher -----------------------------
(* The MQTT publisher, as setSignal uses it.

   publishForVSSPath hands a value to the publishers before the subscribers.  The
   publisher has no lock: it connects when there is a first value to send, checks
   isConnected_ and sets it, on whichever thread the set request is.  What keeps
   these threads apart is the database's rwMutex_, which setSignal holds.

   mosquitto_connect_async fails or starts connecting; mosquitto_publish takes a
   message or not, whatever becomes of it.  Left out: what a path pattern matches
   (Published are the leaves that one does), topics and payloads, the options.  *)
EXTENDS VssDatabase, Sequences

CONSTANTS
  Published,        \* leaves that match a path of paths_
  connection_retry  \* tries per value

ASSUME PublisherConstants ==
  Published \subseteq Signals /\ connection_retry \in Nat

VARIABLES
  isConnected,  \* isConnected_
  send,         \* where each thread is in sendPathValue
  retry,        \* its tries to connect
  loops,        \* history: how often the network thread was started
  sent,         \* history: the values mosquitto took of each leaf
  handed        \* history: the values handed to the subscribers

sending   == <<isConnected, send, retry, loops, sent>>
publisher == <<sending, handed>>
allVars   == <<vars, publisher>>

Places == {"match", "connect", "publish", "done"}

PublisherTypeOK ==
  /\ isConnected \in BOOLEAN
  /\ send \in [Callers -> Places]
  /\ retry \in [Callers -> 0 .. connection_retry]
  /\ loops \in Nat
  /\ sent \in [Signals -> Seq(Nat)]
  /\ handed \in [Signals -> Seq(Nat)]

PublisherInit ==
  /\ Init
  /\ isConnected = FALSE
  /\ send = [t \in Callers |-> "match"]
  /\ retry = [t \in Callers |-> 0]
  /\ loops = 0
  /\ sent = [s \in Signals |-> <<>>]
  /\ handed = [s \in Signals |-> <<>>]

SendGoto(t, p) == send' = [send EXCEPT ![t] = p]
Sending(t, p)  == pc[t] = "publish" /\ send[t] = p /\ UNCHANGED vars

(* sendPathValue, and the first check of start. *)
MatchPath(t) ==
  /\ Sending(t, "match")
  /\ SendGoto(t, IF req[t].sig \notin Published THEN "done"
                 ELSE IF isConnected THEN "publish" ELSE "connect")
  /\ UNCHANGED <<isConnected, retry, loops, sent, handed>>

(* Mutation: <= for <. *)
OneTryMore(t) == retry[t] <= connection_retry
TryLeft(t)    == retry[t] < connection_retry

(* start: one try, or none is left and the value is not sent. *)
ConnectFails(t) ==
  /\ Sending(t, "connect") /\ TryLeft(t)
  /\ isConnected' = FALSE
  /\ retry' = [retry EXCEPT ![t] = @ + 1]
  /\ UNCHANGED <<send, loops, sent, handed>>

Connect(t) ==
  /\ Sending(t, "connect") /\ TryLeft(t)
  /\ isConnected' = TRUE
  /\ loops' = loops + 1
  /\ SendGoto(t, "publish")
  /\ UNCHANGED <<retry, sent, handed>>

GiveUp(t) ==
  /\ Sending(t, "connect") /\ ~TryLeft(t)
  /\ SendGoto(t, "done")
  /\ UNCHANGED <<isConnected, retry, loops, sent, handed>>

(* An error of mosquitto_publish is logged. *)
mosquitto_publish(t) ==
  /\ Sending(t, "publish")
  /\ \/ sent' = [sent EXCEPT ![req[t].sig] = Append(@, req[t].val)]
     \/ UNCHANGED sent
  /\ SendGoto(t, "done")
  /\ UNCHANGED <<isConnected, retry, loops, handed>>

sendPathValue(t) ==
  MatchPath(t) \/ ConnectFails(t) \/ Connect(t) \/ GiveUp(t) \/ mosquitto_publish(t)

(* publishForVSSPath: then the subscribers. *)
publishForVSSPath(t) ==
  /\ send[t] = "done"
  /\ Publish(t)
  /\ handed' = [handed EXCEPT ![req[t].sig] = Append(@, req[t].val)]
  /\ SendGoto(t, "match")
  /\ retry' = [retry EXCEPT ![t] = 0]
  /\ UNCHANGED <<isConnected, loops, sent>>

PublisherStep(t) ==
  \/ QuietStep(t) /\ UNCHANGED publisher
  \/ sendPathValue(t) \/ publishForVSSPath(t)

PublisherNext ==
  \/ \E t \in Callers : PublisherStep(t) \/ (ClientStep(t) /\ UNCHANGED publisher)
  \/ ClientUpdate /\ UNCHANGED publisher

(* mosquitto's calls return, and a thread that can go on does. *)
PublisherSpec     == PublisherInit /\ [][PublisherNext]_allVars
FairPublisherSpec == PublisherSpec /\ \A t \in Callers : WF_allVars(PublisherStep(t))

-----------------------------------------------------------------------------
(* start: the network thread is started once, though any thread that sets a value
   may find the publisher not connected and connect it.                        *)
LoopStartedOnce == loops <= 1

(* No two values of a leaf reach the broker in one order and the subscribers in
   the other.                                                                  *)
SameOrder ==
  \A s \in Signals : \A i, j \in DOMAIN sent[s], p, q \in DOMAIN handed[s] :
    i < j /\ sent[s][i] = handed[s][p] /\ sent[s][j] = handed[s][q] => p < q
=============================================================================
