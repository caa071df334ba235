--------------------------- MODULE WebSocketSession ---------------------------
(* One WebSocket session: its write queue and its place in the registry.

   The handlers of the session (onAccept, onRead, onWrite) run one at a time on
   the io thread; write() is called by onRead and, through SendToConnection, by
   the subscription thread.  The plain and the SSL session share this code.

   The stream behaves as Boost.Beast's: the first operation that meets an error
   ends with it, and every one that ends later, or is started later, ends with
   operation_aborted.  Messages are numbered in the order of the write() calls.

   Left out: pings, doTimeout and the close handshake it starts.  They follow an
   expiry of the timer, which is set to 2^32 - 1 seconds and set anew by every
   message.  So the server never closes a session by itself.                   *)
EXTENDS Naturals, Sequences

CONSTANT MaxMessages \* bound: messages written while the session lives

ASSUME SessionBounds == MaxMessages \in Nat

VARIABLES
  registered,  \* the session is in the registry (connPlainWebSock_)
  ws,          \* the WebSocket stream: accepting, open or closed
  link,        \* the peer: up, closing (has sent a close frame) or lost
  pending,     \* asynchronous operations under way
  iopc,        \* the handler the io thread is in the middle of
  writeQueue,  \* writeQueue_
  bufferWrite, \* bufferWrite_: the messages copied into it
  frame,       \* what the async_write under way was given, or nothing
  written,     \* history: write() calls
  received     \* history: frames handed to the peer

streamVars == <<registered, ws, link>>
queueVars  == <<writeQueue, bufferWrite, frame, written>>
vars       == <<streamVars, pending, iopc, queueVars, received>>

TypeOK ==
  /\ registered \in BOOLEAN
  /\ ws \in {"accepting", "open", "closed"}
  /\ link \in {"up", "closing", "lost"}
  /\ pending \in SUBSET {"accept", "read", "write"}
  /\ iopc \in {"none", "onRead", "onWrite"}
  /\ writeQueue \in Seq(Nat)
  /\ bufferWrite \in Seq(Nat)
  /\ frame \in Seq(Nat) /\ Len(frame) <= 1
  /\ written \in Nat
  /\ received \in Seq(Seq(Nat))

(* run(): AddClient, doAccept. *)
Init ==
  /\ registered = TRUE
  /\ ws = "accepting"
  /\ link = "up"
  /\ pending = {"accept"}
  /\ iopc = "none"
  /\ writeQueue = <<>> /\ bufferWrite = <<>> /\ frame = <<>>
  /\ written = 0
  /\ received = <<>>

Completes(op) == iopc = "none" /\ op \in pending

(* Mutation: the fail that only logs the error. *)
FailLogged == ws' = "closed" /\ UNCHANGED registered
(* fail<>: the stream has failed, and the client is removed. *)
Fail       == ws' = "closed" /\ registered' = FALSE

-----------------------------------------------------------------------------
(* write(message): the whole body runs under queueMutex. *)

(* Mutation: an off-by-one in the test that a write is under way. *)
TwoAhead   == Len(writeQueue) > 1
WriteAhead == Len(writeQueue) > 0

StartWrite(message, others) ==
  /\ bufferWrite' = Append(bufferWrite, message)
  /\ frame' = bufferWrite'
  /\ pending' = others \cup {"write"}

Write(others) ==
  /\ written' = written + 1
  /\ writeQueue' = Append(writeQueue, written')
  /\ IF WriteAhead
     THEN pending' = others /\ UNCHANGED <<bufferWrite, frame>>
     ELSE StartWrite(written', others)

(* SendToConnection, on the subscription thread, under the registry's mutex.
   Nobody subscribes for a session before its first request has been read.     *)
SendToConnection ==
  /\ registered
  /\ ws # "accepting"
  /\ written < MaxMessages
  /\ Write(pending)
  /\ UNCHANGED <<streamVars, iopc, received>>

(* The write has succeeded: bufferWrite_ is emptied before queueMutex is taken. *)
OnWriteConsume ==
  /\ Completes("write")
  /\ ws = "open" /\ link # "lost"
  /\ received' = Append(received, frame)
  /\ bufferWrite' = SubSeq(bufferWrite, Len(frame) + 1, Len(bufferWrite))
  /\ frame' = <<>>
  /\ pending' = pending \ {"write"}
  /\ iopc' = "onWrite"
  /\ UNCHANGED <<streamVars, writeQueue, written>>

(* Mutation: the next message waits for the next call of write(). *)
StopAfterOne(rest) == UNCHANGED <<bufferWrite, frame, pending>>
WriteNext(rest) ==
  IF rest # <<>> THEN StartWrite(Head(rest), pending)
                 ELSE UNCHANGED <<bufferWrite, frame, pending>>

OnWritePop ==
  /\ iopc = "onWrite"
  /\ writeQueue' = Tail(writeQueue)
  /\ WriteNext(writeQueue')
  /\ iopc' = "none"
  /\ UNCHANGED <<streamVars, written, received>>

(* With an error onWrite returns before it touches the queue. *)
OnWriteError ==
  /\ Completes("write")
  /\ ws = "open" /\ link = "lost"
  /\ Fail
  /\ pending' = pending \ {"write"}
  /\ frame' = <<>>
  /\ UNCHANGED <<link, iopc, writeQueue, bufferWrite, written, received>>

OnWriteAborted ==
  /\ Completes("write")
  /\ ws = "closed"
  /\ pending' = pending \ {"write"}
  /\ frame' = <<>>
  /\ UNCHANGED <<streamVars, iopc, writeQueue, bufferWrite, written, received>>

-----------------------------------------------------------------------------
(* Accepting and reading *)

OnAccept ==
  /\ Completes("accept")
  /\ link = "up"
  /\ ws' = "open"
  /\ pending' = (pending \ {"accept"}) \cup {"read"}
  /\ UNCHANGED <<registered, link, iopc, queueVars, received>>

(* The link is lost, or the request is no valid handshake. *)
OnAcceptError ==
  /\ Completes("accept")
  /\ Fail
  /\ pending' = pending \ {"accept"}
  /\ UNCHANGED <<link, iopc, queueVars, received>>

(* A request: the handler computes the response with no lock held. *)
OnReadMessage ==
  /\ Completes("read")
  /\ ws = "open" /\ link = "up"
  /\ written < MaxMessages
  /\ pending' = pending \ {"read"}
  /\ iopc' = "onRead"
  /\ UNCHANGED <<streamVars, queueVars, received>>

(* After an error that is not closed onRead goes on as with a request: what has
   been read is answered, with an error, and another read started.             *)
OnReadError ==
  /\ Completes("read")
  /\ ws = "open" /\ link = "lost"
  /\ Fail
  /\ pending' = pending \ {"read"}
  /\ iopc' = "onRead"
  /\ UNCHANGED <<link, queueVars, received>>

(* Mutation: the next read is started by the next message written. *)
NoRead == pending
DoRead == pending \cup {"read"}

Respond ==
  /\ iopc = "onRead"
  /\ Write(DoRead)
  /\ iopc' = "none"
  /\ UNCHANGED <<streamVars, received>>

OnReadClosed ==
  /\ Completes("read")
  /\ ws = "open" /\ link = "closing"
  /\ ws' = "closed"
  /\ registered' = FALSE
  /\ pending' = pending \ {"read"}
  /\ UNCHANGED <<link, iopc, queueVars, received>>

OnReadAborted ==
  /\ Completes("read")
  /\ ws = "closed"
  /\ pending' = pending \ {"read"}
  /\ UNCHANGED <<streamVars, iopc, queueVars, received>>

(* The peer *)
PeerCloses ==
  /\ ws = "open" /\ link = "up"
  /\ link' = "closing"
  /\ UNCHANGED <<registered, ws, pending, iopc, queueVars, received>>

LinkLost ==
  /\ link # "lost"
  /\ link' = "lost"
  /\ UNCHANGED <<registered, ws, pending, iopc, queueVars, received>>

-----------------------------------------------------------------------------
IoStep ==
  \/ OnWriteConsume \/ OnWritePop \/ OnWriteError \/ OnWriteAborted
  \/ OnAccept \/ OnAcceptError
  \/ OnReadError \/ Respond \/ OnReadClosed \/ OnReadAborted

Next == SendToConnection \/ IoStep \/ OnReadMessage \/ PeerCloses \/ LinkLost

(* The io thread runs each operation's handler once the operation has ended.  A
   peer takes what is sent as long as its link is up, and loses the link when it
   does not.  Clients and the subscription thread owe nothing.                 *)
Fairness ==
  /\ WF_vars(OnAccept \/ OnAcceptError)
  /\ WF_vars(OnReadError \/ OnReadClosed \/ OnReadAborted)
  /\ WF_vars(OnWriteConsume \/ OnWriteError \/ OnWriteAborted)
  /\ WF_vars(OnWritePop) /\ WF_vars(Respond)

Spec     == Init /\ [][Next]_vars
FairSpec == Spec /\ Fairness

-----------------------------------------------------------------------------
(* Safety *)

(* Responses and notifications, written by two threads, reach the peer in the
   order of the write() calls, each in a frame of its own.  The buffer handed to
   async_write is filled under queueMutex and emptied without it.              *)
FramesInOrder == \A i \in DOMAIN received : received[i] = <<i>>

(* bufferWrite_ is not touched while async_write reads it, though two threads
   fill it: at most one async_write is under way, and the buffer is its own.   *)
BufferStable ==
  [][frame # <<>> /\ frame' # <<>> => UNCHANGED <<bufferWrite, frame>>]_vars

(* An open session with something to say is saying it: the queue is never left
   with messages and nobody to write them.                                     *)
NeverStuck ==
  ws = "open" /\ writeQueue # <<>> => frame # <<>> \/ iopc = "onWrite"

(* Whoever is in the registry has an operation under way that will notice the
   end of the connection: a read, whatever happens to the writes.              *)
EndIsNoticed ==
  registered => "accept" \in pending \/ "read" \in pending \/ iopc = "onRead"

-----------------------------------------------------------------------------
(* The inductive invariant behind them *)

Consuming == iopc = "onWrite"

QueueInv ==
  /\ \A i \in DOMAIN writeQueue :
       writeQueue[i] = (written - Len(writeQueue)) + i
  /\ Len(writeQueue) <= written
  /\ Len(received) = (written - Len(writeQueue)) + (IF Consuming THEN 1 ELSE 0)

FrameInv ==
  /\ "write" \in pending <=> frame # <<>>
  /\ frame # <<>> => /\ writeQueue # <<>>
                     /\ frame = <<Head(writeQueue)>>
                     /\ bufferWrite = frame
                     /\ ~Consuming
  /\ Consuming => writeQueue # <<>> /\ bufferWrite = <<>>
  /\ writeQueue = <<>> => bufferWrite = <<>>

StreamInv ==
  /\ ws = "accepting" => pending = {"accept"} /\ iopc = "none" /\ writeQueue = <<>>
  /\ ws # "accepting" => "accept" \notin pending
  /\ registered <=> ws # "closed"

SInv == /\ TypeOK /\ QueueInv /\ FrameInv /\ StreamInv
        /\ FramesInOrder /\ NeverStuck /\ EndIsNoticed

-----------------------------------------------------------------------------
(* Liveness *)

(* Every message reaches the peer, or the connection does not survive. *)
MessagesDelivered ==
  \A n \in 1 .. MaxMessages :
    written >= n ~> Len(received) >= n \/ ws = "closed" \/ link # "up"

(* A client that has gone is not found by SendToConnection for ever: the first
   handler that meets the end of the connection removes the session.           *)
GoneIsRemoved == link # "up" ~> ~registered
=============================================================================
