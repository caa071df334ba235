------------------------ MODULE WebSocketSessionProofs ------------------------
(* Proofs about WebSocketSession, for any number of messages.

   SInv is inductive.  Its conjuncts fall in two groups: the queue with the frame
   under way (QueueInv, FrameInv, FramesInOrder), which only the steps of write()
   and onWrite change, and the stream with the pending operations (StreamInv,
   EndIsNoticed).  NeverStuck is where the two meet.                           *)
EXTENDS WebSocketSession, SequenceTheorems, TLAPS

(* The part of the invariant that write() and onWrite keep. *)
WInv == TypeOK /\ QueueInv /\ FrameInv /\ FramesInOrder

(* A session starts with nothing written. *)
LEMMA InitInv == Init => SInv
<1> SUFFICES ASSUME Init PROVE SInv
  OBVIOUS
<1>1. TypeOK
  BY EmptySeq DEF Init, TypeOK
<1>2. /\ written = 0 /\ Len(writeQueue) = 0 /\ DOMAIN writeQueue = {}
      /\ Len(received) = 0 /\ DOMAIN received = {} /\ ~Consuming
  BY DEF Init, Consuming
<1>3. QueueInv /\ FramesInOrder
  BY <1>2 DEF QueueInv, FramesInOrder
<1>4. FrameInv
  BY <1>2 DEF Init, FrameInv
<1>5. StreamInv /\ NeverStuck /\ EndIsNoticed
  BY DEF Init, StreamInv, NeverStuck, EndIsNoticed
<1> QED
  BY <1>1, <1>3, <1>4, <1>5 DEF SInv

-----------------------------------------------------------------------------
(* write(): the message goes behind the others, and into the buffer only when
   nothing is under way.                                                       *)
LEMMA WriteKeepsQueue ==
  ASSUME WInv, NEW others \in SUBSET {"accept", "read", "write"},
         "write" \in others <=> "write" \in pending,
         Write(others), UNCHANGED received, Consuming' <=> Consuming
  PROVE  /\ written' \in Nat /\ writeQueue' \in Seq(Nat) /\ bufferWrite' \in Seq(Nat)
         /\ frame' \in Seq(Nat) /\ Len(frame') <= 1
         /\ pending' \in SUBSET {"accept", "read", "write"}
         /\ QueueInv' /\ FrameInv' /\ FramesInOrder'
         /\ pending' \ {"write"} = others \ {"write"}
         /\ writeQueue' # <<>>
<1> USE DEF WInv
<1>1. /\ written' = written + 1 /\ written' \in Nat
      /\ writeQueue' = Append(writeQueue, written') /\ writeQueue' \in Seq(Nat)
      /\ Len(writeQueue') = Len(writeQueue) + 1 /\ writeQueue' # <<>>
      /\ \A i \in 1 .. Len(writeQueue) : writeQueue'[i] = writeQueue[i]
      /\ writeQueue'[Len(writeQueue) + 1] = written'
  BY AppendProperties DEF Write, TypeOK
<1>2. QueueInv'
  <2>1. ASSUME NEW i \in DOMAIN writeQueue'
        PROVE  writeQueue'[i] = (written' - Len(writeQueue')) + i
    <3>1. CASE i \in 1 .. Len(writeQueue)
      <4>1. i \in DOMAIN writeQueue /\ writeQueue'[i] = writeQueue[i]
        BY <1>1, <3>1 DEF TypeOK
      <4>2. writeQueue[i] = (written - Len(writeQueue)) + i
        BY <4>1 DEF QueueInv
      <4> QED
        BY <1>1, <3>1, <4>1, <4>2 DEF QueueInv, TypeOK
    <3>2. CASE i = Len(writeQueue) + 1
      BY <1>1, <3>2 DEF QueueInv, TypeOK
    <3>3. DOMAIN writeQueue' = 1 .. Len(writeQueue')
      BY <1>1
    <3>4. i \in 1 .. (Len(writeQueue) + 1) /\ Len(writeQueue) \in Nat
      BY <1>1, <2>1, <3>3 DEF TypeOK
    <3> QED
      BY <3>1, <3>2, <3>4
  <2>2. Len(writeQueue') <= written' /\ written' - Len(writeQueue') = written - Len(writeQueue)
    BY <1>1 DEF QueueInv, TypeOK
  <2> QED
    BY <2>1, <2>2 DEF QueueInv
<1>3. FramesInOrder'
  BY DEF FramesInOrder
<1>4. CASE WriteAhead
  <2>1. writeQueue # <<>> /\ Head(writeQueue') = Head(writeQueue)
    BY <1>1, <1>4 DEF WriteAhead, TypeOK
  <2>2. UNCHANGED <<bufferWrite, frame>> /\ pending' = others
    BY <1>4 DEF Write
  <2>3. FrameInv'
    BY <1>1, <2>1, <2>2 DEF FrameInv
  <2> QED
    BY <1>1, <1>2, <1>3, <2>2, <2>3 DEF TypeOK
<1>5. CASE ~WriteAhead
  <2>1. writeQueue = <<>> /\ bufferWrite = <<>> /\ frame = <<>> /\ ~Consuming
    BY <1>5 DEF WriteAhead, TypeOK, FrameInv
  <2>2. /\ bufferWrite' = <<written'>> /\ frame' = <<written'>>
        /\ pending' = others \cup {"write"} /\ Head(writeQueue') = written'
    BY <1>1, <1>5, <2>1 DEF Write, StartWrite
  <2>3. FrameInv'
    BY <1>1, <2>1, <2>2 DEF FrameInv
  <2> QED
    BY <1>1, <1>2, <1>3, <2>2, <2>3
<1> QED
  BY <1>4, <1>5

(* onWrite, first half: the frame under way has been received, in its turn. *)
LEMMA ConsumeKeepsQueue ==
  ASSUME WInv, OnWriteConsume
  PROVE  WInv'
<1> USE DEF WInv
<1>1. frame # <<>> /\ writeQueue # <<>> /\ frame = <<Head(writeQueue)>>
      /\ bufferWrite = frame /\ ~Consuming /\ Consuming'
  BY DEF OnWriteConsume, Completes, FrameInv, Consuming
<1>2. bufferWrite' = <<>> /\ frame' = <<>> /\ UNCHANGED <<writeQueue, written>>
      /\ pending' = pending \ {"write"}
  BY <1>1 DEF OnWriteConsume
<1>3. received' = Append(received, frame) /\ Len(received') = Len(received) + 1
      /\ received' \in Seq(Seq(Nat))
      /\ \A i \in 1 .. Len(received) : received'[i] = received[i]
      /\ received'[Len(received) + 1] = frame
  BY AppendProperties DEF OnWriteConsume, TypeOK
<1>4. frame = <<Len(received) + 1>>
  BY <1>1 DEF QueueInv, TypeOK
<1>5. FramesInOrder'
  BY <1>3, <1>4 DEF FramesInOrder, TypeOK
<1>6. QueueInv'
  BY <1>1, <1>2, <1>3 DEF QueueInv, TypeOK
<1>7. FrameInv'
  BY <1>1, <1>2 DEF FrameInv
<1>8. TypeOK'
  BY <1>2, <1>3 DEF TypeOK, OnWriteConsume, streamVars
<1> QED
  BY <1>5, <1>6, <1>7, <1>8

(* onWrite, second half: the next message, if there is one, is the next frame. *)
LEMMA PopKeepsQueue ==
  ASSUME WInv, OnWritePop
  PROVE  /\ WInv'
         /\ writeQueue' # <<>> => frame' # <<>>
         /\ pending' \ {"write"} = pending \ {"write"}
<1> USE DEF WInv
<1>1. Consuming /\ ~Consuming' /\ writeQueue # <<>> /\ bufferWrite = <<>>
      /\ frame = <<>> /\ "write" \notin pending
  BY DEF OnWritePop, Consuming, FrameInv
<1>2. /\ writeQueue' = Tail(writeQueue) /\ writeQueue' \in Seq(Nat)
      /\ Len(writeQueue') = Len(writeQueue) - 1
      /\ \A i \in 1 .. Len(writeQueue') : writeQueue'[i] = writeQueue[i + 1]
  BY <1>1, HeadTailProperties DEF OnWritePop, TypeOK
<1>3. UNCHANGED <<streamVars, written, received>>
  BY DEF OnWritePop
<1>4. QueueInv'
  <2>1. ASSUME NEW i \in DOMAIN writeQueue'
        PROVE  writeQueue'[i] = (written' - Len(writeQueue')) + i
    <3>1. i \in 1 .. Len(writeQueue') /\ i + 1 \in DOMAIN writeQueue
      BY <1>2, <2>1 DEF TypeOK
    <3>2. writeQueue[i + 1] = (written - Len(writeQueue)) + (i + 1)
      BY <3>1 DEF QueueInv
    <3> QED
      BY <1>2, <1>3, <3>1, <3>2 DEF TypeOK
  <2>2. /\ Len(writeQueue') <= written'
        /\ Len(received') = written' - Len(writeQueue')
    BY <1>1, <1>2, <1>3 DEF QueueInv, TypeOK
  <2> QED
    BY <1>1, <1>2, <1>3, <2>1, <2>2 DEF QueueInv, TypeOK
<1>5. FramesInOrder'
  BY <1>3 DEF FramesInOrder
<1>6. CASE writeQueue' = <<>>
  <2>1. UNCHANGED <<bufferWrite, frame, pending>>
    BY <1>6 DEF OnWritePop, WriteNext
  <2>2. FrameInv'
    BY <1>1, <1>6, <2>1 DEF FrameInv
  <2>3. TypeOK'
    BY <1>2, <1>3, <2>1 DEF TypeOK, OnWritePop, streamVars
  <2> QED
    BY <1>4, <1>5, <1>6, <2>1, <2>2, <2>3
<1>7. CASE writeQueue' # <<>>
  <2>1. /\ bufferWrite' = <<Head(writeQueue')>> /\ frame' = <<Head(writeQueue')>>
        /\ pending' = pending \cup {"write"} /\ Head(writeQueue') \in Nat
    BY <1>1, <1>2, <1>7, HeadTailProperties DEF OnWritePop, WriteNext, StartWrite
  <2>2. FrameInv'
    BY <1>1, <1>7, <2>1 DEF FrameInv
  <2>3. bufferWrite' \in Seq(Nat) /\ frame' \in Seq(Nat) /\ Len(frame') <= 1
    BY <2>1
  <2>4. iopc' = "none" /\ pending' \in SUBSET {"accept", "read", "write"}
    BY <2>1 DEF OnWritePop, TypeOK
  <2>5. TypeOK'
    BY <1>2, <1>3, <2>3, <2>4 DEF TypeOK, streamVars
  <2> QED
    BY <1>4, <1>5, <2>1, <2>2, <2>5
<1> QED
  BY <1>6, <1>7
-----------------------------------------------------------------------------
(* Steps that leave the queue alone: errors, reads, and the peer. *)
LEMMA FrameDropped ==
  ASSUME WInv, OnWriteError \/ OnWriteAborted
  PROVE  WInv'
<1> USE DEF WInv
<1>1. /\ UNCHANGED <<link, iopc, writeQueue, bufferWrite, written, received>>
      /\ pending' = pending \ {"write"} /\ frame' = <<>> /\ ~Consuming
      /\ registered' \in BOOLEAN /\ ws' \in {"accepting", "open", "closed"}
  BY DEF OnWriteError, OnWriteAborted, Fail, Completes, Consuming, streamVars, TypeOK
<1>2. TypeOK'
  BY <1>1 DEF TypeOK
<1>3. QueueInv' /\ FramesInOrder'
  BY <1>1 DEF QueueInv, FramesInOrder, Consuming
<1>4. FrameInv'
  BY <1>1 DEF FrameInv, Consuming
<1> QED
  BY <1>2, <1>3, <1>4

OtherStep ==
  \/ OnAccept \/ OnAcceptError \/ OnReadMessage \/ OnReadError
  \/ OnReadClosed \/ OnReadAborted \/ PeerCloses \/ LinkLost \/ UNCHANGED vars

LEMMA OthersKeepQueue ==
  ASSUME WInv, OtherStep
  PROVE  WInv'
<1> USE DEF WInv
<1>1. /\ UNCHANGED <<queueVars, received>>
      /\ "write" \in pending' <=> "write" \in pending
      /\ Consuming' <=> Consuming
  BY DEF OtherStep, OnAccept, OnAcceptError, OnReadMessage, OnReadError, OnReadClosed,
     OnReadAborted, PeerCloses, LinkLost, Completes, Consuming, vars, TypeOK
<1>2. /\ registered' \in BOOLEAN /\ ws' \in {"accepting", "open", "closed"}
      /\ link' \in {"up", "closing", "lost"} /\ iopc' \in {"none", "onRead", "onWrite"}
      /\ pending' \in SUBSET {"accept", "read", "write"}
  BY DEF OtherStep, OnAccept, OnAcceptError, OnReadMessage, OnReadError, OnReadClosed,
     OnReadAborted, PeerCloses, LinkLost, Fail, vars, streamVars, TypeOK
<1>3. TypeOK'
  BY <1>1, <1>2 DEF TypeOK, queueVars
<1>4. QueueInv' /\ FramesInOrder'
  BY <1>1 DEF QueueInv, FramesInOrder, queueVars
<1>5. FrameInv'
  BY <1>1 DEF FrameInv, queueVars
<1> QED
  BY <1>3, <1>4, <1>5

-----------------------------------------------------------------------------
LEMMA NextInv == SInv /\ [Next]_vars => SInv'
<1> SUFFICES ASSUME SInv, [Next]_vars PROVE SInv'
  OBVIOUS
<1> USE DEF WInv
<1>0. WInv /\ StreamInv /\ NeverStuck /\ EndIsNoticed
  BY DEF SInv
<1>1. CASE SendToConnection
  <2>1. UNCHANGED <<streamVars, iopc, received>> /\ Write(pending) /\ ws # "accepting"
    BY <1>1 DEF SendToConnection
  <2>2. /\ WInv' /\ pending' \ {"write"} = pending \ {"write"}
    BY <1>0, <2>1, WriteKeepsQueue DEF Consuming, TypeOK, streamVars
  <2>3. StreamInv' /\ EndIsNoticed'
    BY <1>0, <2>1, <2>2 DEF StreamInv, EndIsNoticed, streamVars
  <2>4. NeverStuck'
    <3>1. CASE WriteAhead
      BY <1>0, <2>1, <3>1 DEF NeverStuck, Write, WriteAhead, streamVars, TypeOK
    <3>2. CASE ~WriteAhead
      BY <1>0, <2>1, <2>2, <3>2 DEF NeverStuck, Write, StartWrite, FrameInv
    <3> QED
      BY <3>1, <3>2
  <2> QED
    BY <2>2, <2>3, <2>4 DEF SInv
<1>2. CASE Respond
  <2>1. /\ UNCHANGED <<streamVars, received>> /\ Write(DoRead)
        /\ iopc = "onRead" /\ iopc' = "none"
    BY <1>2 DEF Respond
  <2>2. /\ WInv' /\ pending' \ {"write"} = DoRead \ {"write"}
    BY <1>0, <2>1, WriteKeepsQueue DEF Consuming, TypeOK, streamVars, DoRead
  <2>3. StreamInv' /\ EndIsNoticed'
    BY <1>0, <2>1, <2>2 DEF StreamInv, EndIsNoticed, streamVars, DoRead
  <2>4. NeverStuck'
    <3>1. CASE WriteAhead
      BY <1>0, <2>1, <3>1 DEF NeverStuck, Write, WriteAhead, streamVars, TypeOK
    <3>2. CASE ~WriteAhead
      BY <1>0, <2>1, <2>2, <3>2 DEF NeverStuck, Write, StartWrite, FrameInv
    <3> QED
      BY <3>1, <3>2
  <2> QED
    BY <2>2, <2>3, <2>4 DEF SInv
<1>3. CASE OnWriteConsume
  <2>1. WInv'
    BY <1>0, <1>3, ConsumeKeepsQueue
  <2>2. StreamInv' /\ NeverStuck' /\ EndIsNoticed'
    BY <1>0, <1>3 DEF OnWriteConsume, Completes, StreamInv, NeverStuck, EndIsNoticed,
       streamVars
  <2> QED
    BY <2>1, <2>2 DEF SInv
<1>4. CASE OnWritePop
  <2>1. /\ WInv'
        /\ writeQueue' # <<>> => frame' # <<>>
        /\ pending' \ {"write"} = pending \ {"write"}
    BY <1>0, <1>4, PopKeepsQueue
  <2>2. StreamInv' /\ NeverStuck' /\ EndIsNoticed'
    BY <1>0, <1>4, <2>1 DEF OnWritePop, StreamInv, NeverStuck, EndIsNoticed, streamVars
  <2> QED
    BY <2>1, <2>2 DEF SInv
<1>5. CASE OnWriteError \/ OnWriteAborted
  <2>1. WInv'
    BY <1>0, <1>5, FrameDropped
  <2>2. StreamInv' /\ NeverStuck' /\ EndIsNoticed'
    BY <1>0, <1>5 DEF OnWriteError, OnWriteAborted, Fail, Completes, StreamInv,
       NeverStuck, EndIsNoticed, streamVars
  <2> QED
    BY <2>1, <2>2 DEF SInv
<1>6. CASE OtherStep
  <2>1. WInv'
    BY <1>0, <1>6, OthersKeepQueue
  <2>2. StreamInv' /\ EndIsNoticed'
    <3> USE <1>0 DEF StreamInv, EndIsNoticed, Completes, streamVars, queueVars
    <3>1. CASE OnAccept
      BY <3>1 DEF OnAccept
    <3>2. CASE OnAcceptError
      BY <3>2 DEF OnAcceptError, Fail
    <3>3. CASE OnReadMessage
      BY <3>3 DEF OnReadMessage
    <3>4. CASE OnReadError
      BY <3>4 DEF OnReadError, Fail
    <3>5. CASE OnReadClosed \/ OnReadAborted
      BY <3>5 DEF OnReadClosed, OnReadAborted
    <3>6. CASE PeerCloses \/ LinkLost \/ UNCHANGED vars
      BY <3>6 DEF PeerCloses, LinkLost, vars
    <3> QED
      BY <1>6, <3>1, <3>2, <3>3, <3>4, <3>5, <3>6 DEF OtherStep
  <2>3. NeverStuck'
    BY <1>0, <1>6 DEF OtherStep, OnAccept, OnAcceptError, OnReadMessage, OnReadError,
       OnReadClosed, OnReadAborted, PeerCloses, LinkLost, Fail, Completes, StreamInv,
       NeverStuck, vars, streamVars, queueVars
  <2> QED
    BY <2>1, <2>2, <2>3 DEF SInv
<1> QED
  BY <1>1, <1>2, <1>3, <1>4, <1>5, <1>6 DEF Next, IoStep, OtherStep

(* The invariant of the session, from which the theorems below follow. *)
THEOREM SessionInvariant == Spec => []SInv
<1> QED
  BY InitInv, NextInv, PTL DEF Spec

(* Every variable of the session keeps its type. *)
THEOREM SessionTypes == Spec => []TypeOK
<1>1. SInv => TypeOK
  BY DEF SInv
<1> QED
  BY <1>1, SessionInvariant, PTL

(* Messages of two threads leave in the order of the write() calls, one frame
   each, whatever number of them overlaps.                                     *)
THEOREM MessagesInOrder == Spec => []FramesInOrder
<1>1. SInv => FramesInOrder
  BY DEF SInv
<1> QED
  BY <1>1, SessionInvariant, PTL

(* An open session never sits on messages it is not writing. *)
THEOREM WriterNeverStuck == Spec => []NeverStuck
<1>1. SInv => NeverStuck
  BY DEF SInv
<1> QED
  BY <1>1, SessionInvariant, PTL

(* Whoever is registered is being read from. *)
THEOREM RegisteredIsRead == Spec => []EndIsNoticed
<1>1. SInv => EndIsNoticed
  BY DEF SInv
<1> QED
  BY <1>1, SessionInvariant, PTL

(* bufferWrite_ stays as it is as long as one async_write reads it. *)
THEOREM BufferKept == Spec => BufferStable
<1>1. SInv /\ [Next]_vars =>
        [frame # <<>> /\ frame' # <<>> => UNCHANGED <<bufferWrite, frame>>]_vars
  <2> SUFFICES ASSUME SInv, Next, frame # <<>>, frame' # <<>>
               PROVE  UNCHANGED <<bufferWrite, frame>>
    BY DEF vars, queueVars
  <2>1. writeQueue # <<>> /\ ~Consuming
    BY DEF SInv, FrameInv
  <2>2. WriteAhead
    BY <2>1 DEF WriteAhead, SInv, TypeOK
  <2> QED
    BY <2>1, <2>2 DEF Next, IoStep, SendToConnection, Respond, Write, OnWriteConsume,
       OnWritePop, OnWriteError, OnWriteAborted, OnAccept, OnAcceptError, OnReadMessage,
       OnReadError, OnReadClosed, OnReadAborted, PeerCloses, LinkLost, Consuming, queueVars
<1> QED
  BY <1>1, SessionInvariant, PTL DEF Spec, BufferStable
=============================================================================
