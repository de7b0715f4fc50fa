------------------------- MODULE SendPipelineProofs -------------------------
(***************************************************************************)
(* Proofs about SendPipeline for every number of threads, packets, bytes   *)
(* and connections.  The inductive invariant joins the hand-over of the    *)
(* sender's role (SingleSend), the pinned front buffer (BufferPinned) and  *)
(* the position of the wire (WireFollowsQueue); none of them is inductive  *)
(* without the others.                                                     *)
(***************************************************************************)
EXTENDS SendPipeline, SequenceTheorems, TLAPS

IndInv ==
  /\ TypeOK
  /\ SingleSend
  /\ BufferPinned
  /\ NoIdleBacklog
  /\ WireFollowsQueue

-----------------------------------------------------------------------------
\* The invariant holds of a fresh session.
LEMMA InitInv == Init => IndInv
<1> SUFFICES ASSUME Init PROVE IndInv
  OBVIOUS
<1> USE SizeAssumption, NoThreadAssumption DEF Init
<1>1. TypeOK
  <2>1. queue \in Seq(Items) /\ inflight \subseteq Ctxs
    OBVIOUS
  <2>2. wire \in [pkt : 1 .. MaxPackets + 1, off : 0 .. PacketLen - 1]
    BY SMT
  <2>3. owner \in [Packets -> Conns]
    BY DEF Conns
  <2>4. pc \in [Threads -> PCs]
    BY DEF PCs
  <2>5. disconnected \in BOOLEAN /\ inPool \in BOOLEAN /\ sending \in BOOLEAN
    BY Zenon
  <2>6. sock \in Conns /\ conns \in Conns /\ posted \in 0 .. MaxPackets
        /\ recvs \in Nat /\ total \in Nat
    BY DEF Conns
  <2>7. lock \in Threads \cup {NoThread}
    OBVIOUS
  <2> HIDE DEF Init
  <2> QED
    BY <2>1, <2>2, <2>3, <2>4, <2>5, <2>6, <2>7 DEF TypeOK
<1>2. SingleSend /\ BufferPinned /\ NoIdleBacklog
  BY DEF SingleSend, BufferPinned, NoIdleBacklog, Posters
<1>3. WireFollowsQueue
  BY DEF WireFollowsQueue, QueueInOrder, Front, Posters
<1> QED
  BY <1>1, <1>2, <1>3 DEF IndInv

\* Steps that leave queue, flag and wire alone, start no request and take no
\* thread into Send keep the invariant; most of the session's life is of this
\* kind.
LEMMA Elsewhere ==
  ASSUME IndInv, TypeOK', UNCHANGED <<queue, sending, posted, owner, wire>>,
         inflight' \subseteq inflight,
         \A t \in Threads : pc'[t] = "post" => pc[t] = "post"
  PROVE  IndInv'
<1>1. Posters' \subseteq Posters
  BY DEF Posters
<1>2. SingleSend' /\ BufferPinned' /\ NoIdleBacklog'
  BY <1>1 DEF IndInv, SingleSend, BufferPinned, NoIdleBacklog
<1>3. WireFollowsQueue'
  <2>1. QueueInOrder' /\ Front' = Front
    BY DEF IndInv, WireFollowsQueue, QueueInOrder, Front
  <2>2. \A c \in inflight' : After(c)' = After(c)
    BY DEF After
  <2> QED
    BY <1>1, <2>1, <2>2 DEF IndInv, WireFollowsQueue
<1> QED
  BY <1>2, <1>3 DEF IndInv

-----------------------------------------------------------------------------
\* The abstract stream's Advance stays among positions.
LEMMA AdvanceType ==
  ASSUME NEW pkt \in Packets, NEW off \in 0 .. PacketLen - 1,
         NEW n \in 0 .. PacketLen
  PROVE  Stream!Advance([pkt |-> pkt, off |-> off], n)
           \in [pkt : 1 .. MaxPackets + 1, off : 0 .. PacketLen - 1]
BY SizeAssumption DEF Stream!Advance, Packets

\* Progress drops a finished front item or moves its offset, and the rest of
\* the queue keeps its place.
LEMMA ProgressQueue ==
  ASSUME NEW q \in Seq(Items), q # <<>>, NEW n \in 1 .. PacketLen
  PROVE  /\ Progress(q, n) \in Seq(Items)
         /\ Head(q).off + n >= PacketLen =>
              /\ Len(Progress(q, n)) = Len(q) - 1
              /\ \A i \in 1 .. Len(q) - 1 : Progress(q, n)[i] = q[i + 1]
         /\ Head(q).off + n < PacketLen =>
              /\ Len(Progress(q, n)) = Len(q)
              /\ Progress(q, n)[1] = [pkt |-> Head(q).pkt, off |-> Head(q).off + n]
              /\ \A i \in 2 .. Len(q) : Progress(q, n)[i] = q[i]
<1> USE SizeAssumption
<1>1. /\ Len(q) \in Nat \ {0}
      /\ Head(q) = q[1] /\ Head(q) \in Items
      /\ Head(q).pkt \in Packets /\ Head(q).off \in 0 .. PacketLen - 1
  <2>1. Len(q) \in Nat \ {0}
    BY EmptySeq
  <2>2. Head(q) = q[1]
    BY <2>1
  <2>3. Head(q) \in Items
    BY HeadTailProperties
  <2> QED
    BY <2>1, <2>2, <2>3 DEF Items
<1>2. CASE Head(q).off + n >= PacketLen
  <2>1. Progress(q, n) = Tail(q)
    BY <1>2 DEF Progress
  <2>2. /\ Tail(q) \in Seq(Items)
        /\ Len(Tail(q)) = Len(q) - 1
        /\ \A i \in 1 .. Len(Tail(q)) : Tail(q)[i] = q[i+1]
    BY HeadTailProperties
  <2>3. \A i \in 1 .. Len(q) - 1 : Progress(q, n)[i] = q[i + 1]
    BY <2>1, <2>2
  <2>4. ~ (Head(q).off + n < PacketLen)
    BY <1>1, <1>2
  <2> QED
    BY <2>1, <2>2, <2>3, <2>4
<1>3. CASE Head(q).off + n < PacketLen
  <2> DEFINE item == [pkt |-> Head(q).pkt, off |-> Head(q).off + n]
  <2>1. Progress(q, n) = [q EXCEPT ![1] = item]
    BY <1>1, <1>3 DEF Progress
  <2>2. item \in Items
    BY <1>1, <1>3 DEF Items
  <2>3. 1 \in 1 .. Len(q)
    BY <1>1
  <2> HIDE DEF item
  <2>4. /\ [q EXCEPT ![1] = item] \in Seq(Items)
        /\ Len([q EXCEPT ![1] = item]) = Len(q)
        /\ \A j \in 1 .. Len(q) : [q EXCEPT ![1] = item][j]
                                     = IF j = 1 THEN item ELSE q[j]
    BY <2>2, <2>3, ExceptSeq
  <2>5. /\ Progress(q, n) \in Seq(Items) /\ Len(Progress(q, n)) = Len(q)
        /\ Progress(q, n)[1] = item
        /\ \A i \in 2 .. Len(q) : Progress(q, n)[i] = q[i]
    BY <2>1, <2>3, <2>4, <1>1
  <2> QED
    BY <2>5, <1>1, <1>3 DEF item
<1> QED
  BY <1>1, <1>2, <1>3

-----------------------------------------------------------------------------
\* Type correctness is inductive on its own.
LEMMA TypeStep ==
  ASSUME TypeOK, [Next]_vars
  PROVE  TypeOK'
<1> USE SizeAssumption
<1>0. CASE UNCHANGED vars
  BY <1>0 DEF vars, TypeOK
<1> DEFINE Quiet == /\ sock' \in Conns /\ conns' \in Conns /\ recvs' \in Nat
                    /\ lock' \in Threads \cup {NoThread}
                    /\ pc' \in [Threads -> PCs]
                    /\ UNCHANGED sendState
           Flags == disconnected' \in BOOLEAN /\ inPool' \in BOOLEAN
<1>a. ASSUME Quiet, Flags PROVE TypeOK'
  BY <1>a DEF TypeOK, sendState
<1>1. ASSUME NEW t \in Threads,
             Close(t) \/ Release(t) \/ Accept(t) \/ OnAccepted(t) \/ Recv(t)
      PROVE  TypeOK'
  <2>1. Quiet
    <3>1. CASE Close(t)
      BY <3>1 DEF TypeOK, sendState, Conns, PCs, Goto, Close
    <3>2. CASE Release(t)
      BY <3>2 DEF TypeOK, sendState, Conns, PCs, Goto, Release
    <3>3. CASE Accept(t)
      BY <3>3 DEF TypeOK, sendState, Conns, PCs, Goto, Accept
    <3>4. CASE OnAccepted(t)
      BY <3>4 DEF TypeOK, sendState, PCs, Goto, OnAccepted
    <3>5. CASE Recv(t)
      BY <3>5 DEF TypeOK, sendState, PCs, Goto, Recv
    <3> QED
      BY <1>1, <3>1, <3>2, <3>3, <3>4, <3>5
  <2>2. Flags
    BY <1>1, Zenon DEF TypeOK, Close, Release, Accept, OnAccepted, Recv
  <2> QED
    BY <1>a, <2>1, <2>2
<1>2. ASSUME NEW t \in Threads,
             RecvEnded(t) \/ RecvDropped(t) \/ SendFails(t)
      PROVE  TypeOK'
  <2>1. Quiet
    BY <1>2 DEF TypeOK, sendState, PCs, Goto, RecvEnded, RecvDropped, SendFails,
                TryDisconnect
  <2>2. Flags
    BY <1>2, Zenon DEF TypeOK, RecvEnded, RecvDropped, SendFails, TryDisconnect
  <2> QED
    BY <1>a, <2>1, <2>2
<1>3. ASSUME NEW t \in Threads, SendPacket(t) PROVE TypeOK'
  <2>1. [pkt |-> posted + 1, off |-> 0] \in Items /\ posted + 1 \in Packets
    BY <1>3 DEF TypeOK, SendPacket, Items, Packets
  <2>2. queue' \in Seq(Items)
    BY <1>3, <2>1, AppendProperties DEF TypeOK, SendPacket
  <2>3. /\ pc' \in [Threads -> PCs] /\ posted' \in 0 .. MaxPackets
        /\ owner' \in [Packets -> Conns]
    BY <1>3, <2>1 DEF TypeOK, SendPacket, PCs, Goto, Packets
  <2>4. sending' \in BOOLEAN
    BY <1>3, Zenon DEF TypeOK, SendPacket
  <2> QED
    BY <1>3, <2>2, <2>3, <2>4 DEF TypeOK, SendPacket
<1>4. ASSUME NEW t \in Threads, Send(t) PROVE TypeOK'
  <2>1. ASSUME queue # <<>> PROVE FrontCtx(t) \in Ctxs
    <3>1. Head(queue) \in Items
      BY <2>1, HeadTailProperties DEF TypeOK
    <3> QED
      BY <3>1 DEF FrontCtx, Ctxs, Items, TypeOK, Conns
  <2>2. inflight' \subseteq Ctxs
    BY <1>4, <2>1 DEF Send, TypeOK
  <2> QED
    BY <1>4, <2>2 DEF TypeOK, Send, PCs, Goto
<1>5. ASSUME NEW c \in inflight, Transmit(c) PROVE TypeOK'
  <2>1. PICK n \in 0 .. (PacketLen - c.off), st \in {"sent", "failed"} :
          /\ inflight' = (inflight \ {c}) \cup {[c EXCEPT !.st = st, !.n = n]}
          /\ wire' = IF n = 0 THEN wire
                     ELSE Stream!Advance([pkt |-> c.pkt, off |-> c.off], n)
    BY <1>5 DEF Transmit
  <2>2. c \in Ctxs /\ n \in 0 .. PacketLen
    BY DEF TypeOK, Ctxs
  <2>3. [c EXCEPT !.st = st, !.n = n] \in Ctxs
    BY <2>2 DEF Ctxs
  <2>4. wire' \in [pkt : 1 .. MaxPackets + 1, off : 0 .. PacketLen - 1]
    BY <2>1, <2>2, AdvanceType DEF Ctxs, TypeOK
  <2>5. total' \in Nat
    BY <1>5 DEF Transmit, TypeOK, Ctxs
  <2> QED
    BY <1>5, <2>1, <2>3, <2>4, <2>5 DEF Transmit, TypeOK
<1>6. ASSUME NEW t \in Threads, NEW c \in inflight, OnSendCompleted(t, c)
      PROVE  TypeOK'
  <2>1. c.n \in 1 .. PacketLen
    BY <1>6 DEF OnSendCompleted, TypeOK, Ctxs
  <2>2. queue' \in Seq(Items)
    BY <1>6, <2>1, ProgressQueue DEF OnSendCompleted, TypeOK
  <2> QED
    BY <1>6, <2>2 DEF OnSendCompleted, TypeOK, PCs, Goto
<1>7. ASSUME NEW t \in Threads, NEW c \in inflight, SendEnded(t, c)
      PROVE  TypeOK'
  BY <1>7 DEF SendEnded, TypeOK, PCs, Goto, TryDisconnect
<1> QED
  BY <1>0, <1>1, <1>2, <1>3, <1>4, <1>5, <1>6, <1>7 DEF Next, ThreadStep

-----------------------------------------------------------------------------
\* Pushing a packet: with the flag down the queue was empty and the caller
\* becomes the only sender; with the flag up the front does not move.
LEMMA SendPacketInv ==
  ASSUME IndInv, TypeOK', NEW t \in Threads, SendPacket(t)
  PROVE  IndInv'
<1> USE SizeAssumption
<1> DEFINE item == [pkt |-> posted + 1, off |-> 0]
<1>1. /\ queue \in Seq(Items) /\ item \in Items /\ posted \in Nat
      /\ posted' = posted + 1 /\ queue' = Append(queue, item)
      /\ wire' = wire /\ inflight' = inflight
  BY DEF SendPacket, IndInv, TypeOK, Items, Packets
<1>2. /\ Len(queue) \in Nat /\ queue' # <<>> /\ Len(queue') = Len(queue) + 1
      /\ \A i \in 1 .. Len(queue) : queue'[i] = queue[i]
      /\ queue'[Len(queue) + 1] = item
  BY <1>1, AppendProperties, LenProperties
<1>3. QueueInOrder'
  BY <1>1, <1>2 DEF IndInv, WireFollowsQueue, QueueInOrder
<1>4. sending' /\ NoIdleBacklog'
  BY DEF SendPacket, StartsSend, NoIdleBacklog
<1>5. CASE ~sending
  <2>1. queue = <<>> /\ inflight = {} /\ Posters = {} /\ wire = item
    BY <1>5 DEF IndInv, NoIdleBacklog, SingleSend, WireFollowsQueue, Front
  <2>2. Posters' = {t}
    BY <1>5, <2>1 DEF SendPacket, StartsSend, Goto, Posters, IndInv, TypeOK
  <2>3. Front' = item
    BY <1>1, <1>2, <2>1 DEF Front
  <2>4. WireFollowsQueue'
    BY <1>1, <1>2, <1>3, <2>1, <2>3 DEF WireFollowsQueue
  <2> QED
    BY <1>1, <1>4, <2>1, <2>2, <2>4 DEF IndInv, SingleSend, BufferPinned
<1>6. CASE sending
  <2>1. Posters' = Posters
    BY <1>6 DEF SendPacket, StartsSend, Posters
  <2>2. queue # <<>> => Head(queue') = Head(queue)
    BY <1>1, <1>2, EmptySeq
  <2>3. queue # <<>> => Front' = Front
    BY <1>2, <2>2 DEF Front
  <2>4. \A c \in inflight : After(c)' = After(c)
    BY DEF After
  <2>5. WireFollowsQueue'
    BY <1>1, <1>2, <1>3, <1>4, <2>1, <2>3, <2>4 DEF IndInv, WireFollowsQueue
  <2>6. SingleSend' /\ BufferPinned'
    BY <1>1, <1>2, <1>4, <2>1, <2>2 DEF IndInv, SingleSend, BufferPinned
  <2> QED
    BY <1>4, <2>5, <2>6 DEF IndInv
<1> QED
  BY <1>5, <1>6

\* Posting: the poster was the only sender, the request points at the front
\* and the wire stands there.
LEMMA SendInv ==
  ASSUME IndInv, TypeOK', NEW t \in Threads, Send(t)
  PROVE  IndInv'
<1>1. t \in Posters /\ Posters = {t} /\ inflight = {} /\ queue # <<>>
  BY DEF Send, Posters, IndInv, SingleSend, WireFollowsQueue
<1>2. PICK c : c = FrontCtx(t)
  OBVIOUS
<1>3. /\ inflight' = {c} /\ Posters' = {} /\ sending' /\ sending
      /\ UNCHANGED <<queue, posted, wire>>
  BY <1>1, <1>2 DEF Send, Goto, Posters, IndInv, TypeOK, SingleSend
<1>4. Head(queue) \in Items
  BY <1>1, HeadTailProperties DEF IndInv, TypeOK
<1>5. /\ c.pkt = Head(queue).pkt /\ c.off = Head(queue).off
      /\ c.n = 0 /\ c.off + c.n <= PacketLen
  BY <1>2, <1>4, SizeAssumption DEF FrontCtx, Items
<1>6. wire' = After(c)' /\ QueueInOrder'
  BY <1>1, <1>3, <1>5 DEF IndInv, WireFollowsQueue, QueueInOrder, Front, After
<1>7. SingleSend' /\ BufferPinned' /\ NoIdleBacklog'
  BY <1>1, <1>3, <1>5 DEF SingleSend, BufferPinned, NoIdleBacklog
<1>8. WireFollowsQueue'
  BY <1>3, <1>5, <1>6 DEF WireFollowsQueue
<1> QED
  BY <1>7, <1>8 DEF IndInv

\* The kernel advances the wire by what it says it transmitted.
LEMMA TransmitInv ==
  ASSUME IndInv, TypeOK', NEW c \in inflight, Transmit(c)
  PROVE  IndInv'
<1>1. PICK n \in 0 .. (PacketLen - c.off), st \in {"sent", "failed"} :
        /\ inflight' = (inflight \ {c}) \cup {[c EXCEPT !.st = st, !.n = n]}
        /\ wire' = IF n = 0 THEN wire
                   ELSE Stream!Advance([pkt |-> c.pkt, off |-> c.off], n)
  BY DEF Transmit
<1> DEFINE d == [c EXCEPT !.st = st, !.n = n]
<1>2. c \in Ctxs
  BY DEF IndInv, TypeOK
<1>3. /\ inflight = {c} /\ inflight' = {d} /\ sending /\ Posters = {}
      /\ c.st = "pending" /\ c.n = 0 /\ wire = [pkt |-> c.pkt, off |-> c.off]
  BY <1>1 DEF IndInv, SingleSend, WireFollowsQueue, After, Transmit
<1>4. d.pkt = c.pkt /\ d.off = c.off /\ d.n = n /\ d.st # "pending"
  BY <1>2 DEF Ctxs
<1>5. UNCHANGED <<queue, sending, posted, Posters>>
  BY DEF Transmit, Posters
<1> HIDE DEF d
<1>6. SingleSend' /\ BufferPinned' /\ NoIdleBacklog'
  BY <1>3, <1>4, <1>5 DEF IndInv, SingleSend, BufferPinned, NoIdleBacklog
<1>7. After(d)' = wire'
  BY <1>1, <1>3, <1>4 DEF After
<1>8. d.off + d.n <= PacketLen
  BY <1>2, <1>4, SizeAssumption DEF Ctxs
<1>9. WireFollowsQueue'
  BY <1>3, <1>4, <1>5, <1>7, <1>8 DEF IndInv, WireFollowsQueue, QueueInOrder
<1> QED
  BY <1>6, <1>9 DEF IndInv

\* A completion confirms what the kernel transmitted from the front, so the
\* front moves to where the wire is, and the sender's role goes on to Send or
\* ends with the queue.
LEMMA OnSendCompletedInv ==
  ASSUME IndInv, TypeOK', NEW t \in Threads, NEW c \in inflight,
         OnSendCompleted(t, c)
  PROVE  IndInv'
<1> USE SizeAssumption
<1> DEFINE n == c.n
           h == Head(queue)
<1>1. /\ inflight = {c} /\ sending /\ Posters = {} /\ queue # <<>>
      /\ c.pkt = h.pkt /\ c.off = h.off /\ c.off + n <= PacketLen
      /\ wire = Stream!Advance([pkt |-> h.pkt, off |-> h.off], n)
      /\ n \in 1 .. PacketLen
  BY DEF IndInv, SingleSend, BufferPinned, WireFollowsQueue, After,
         OnSendCompleted, TypeOK, Ctxs
<1>2. /\ queue \in Seq(Items) /\ Len(queue) \in Nat \ {0} /\ h = queue[1]
      /\ h \in Items /\ posted \in Nat
  <2>1. queue \in Seq(Items) /\ posted \in Nat
    BY DEF IndInv, TypeOK
  <2>2. Len(queue) \in Nat \ {0} /\ h = queue[1]
    BY <1>1, <2>1, EmptySeq
  <2> QED
    BY <1>1, <2>1, <2>2, HeadTailProperties
<1>3. /\ queue' = Progress(queue, n) /\ inflight' = {}
      /\ UNCHANGED <<posted, wire>>
  BY <1>1 DEF OnSendCompleted
<1>4. h.pkt \in Packets /\ h.off \in 0 .. PacketLen - 1
  BY <1>2 DEF Items
<1>5. /\ queue' \in Seq(Items)
      /\ h.off + n >= PacketLen =>
           /\ Len(queue') = Len(queue) - 1
           /\ \A i \in 1 .. Len(queue) - 1 : queue'[i] = queue[i + 1]
      /\ h.off + n < PacketLen =>
           /\ Len(queue') = Len(queue)
           /\ queue'[1] = [pkt |-> h.pkt, off |-> h.off + n]
           /\ \A i \in 2 .. Len(queue) : queue'[i] = queue[i]
  BY <1>1, <1>2, <1>3, ProgressQueue
<1>6. /\ Len(queue) <= posted
      /\ \A i \in 1 .. Len(queue) : /\ queue[i].pkt = posted - Len(queue) + i
                                    /\ i > 1 => queue[i].off = 0
  BY DEF IndInv, WireFollowsQueue, QueueInOrder
<1> HIDE DEF n, h
<1>7. QueueInOrder'
  <2>1. CASE h.off + n >= PacketLen
    <3>1. /\ Len(queue') = Len(queue) - 1
          /\ \A i \in 1 .. Len(queue') : queue'[i] = queue[i + 1]
      BY <1>2, <1>5, <2>1
    <3>2. ASSUME NEW i \in 1 .. Len(queue')
          PROVE  /\ queue'[i].pkt = posted - Len(queue') + i
                 /\ queue'[i].off = 0
      <4>1. i + 1 \in 1 .. Len(queue) /\ i + 1 > 1
        BY <1>2, <3>1
      <4>2. queue[i + 1].pkt = posted - Len(queue) + (i + 1)
            /\ queue[i + 1].off = 0
        BY <1>6, <4>1
      <4>3. queue'[i] = queue[i + 1]
        BY <3>1
      <4>4. posted - Len(queue) + (i + 1) = posted - Len(queue') + i
        BY <1>2, <3>1
      <4> QED
        BY <4>2, <4>3, <4>4
    <3> QED
      BY <1>2, <1>3, <1>6, <3>1, <3>2 DEF QueueInOrder
  <2>2. CASE h.off + n < PacketLen
    <3>1. queue'[1].pkt = h.pkt /\ h.pkt = posted - Len(queue) + 1
      BY <1>2, <1>5, <1>6, <2>2
    <3>2. Len(queue') = Len(queue)
      BY <1>5, <2>2
    <3>3. ASSUME NEW i \in 1 .. Len(queue')
          PROVE  /\ queue'[i].pkt = posted - Len(queue) + i
                 /\ i > 1 => queue'[i].off = 0
      <4>1. CASE i = 1
        BY <3>1, <4>1
      <4>2. CASE i # 1
        <5>1. i \in 2 .. Len(queue)
          BY <1>2, <3>2, <4>2
        <5> QED
          BY <1>2, <1>5, <1>6, <2>2, <5>1
      <4> QED
        BY <4>1, <4>2
    <3> QED
      BY <1>3, <1>6, <3>2, <3>3 DEF QueueInOrder
  <2> QED
    BY <1>1, <1>4, <2>1, <2>2
<1>8. wire = Front'
  <2>1. CASE h.off + n >= PacketLen
    <3>1. wire = [pkt |-> h.pkt + 1, off |-> 0]
      BY <1>1, <2>1 DEF Stream!Advance
    <3>2. CASE Len(queue) = 1
      BY <1>2, <1>3, <1>5, <1>6, <2>1, <3>1, <3>2, EmptySeq DEF Front
    <3>3. CASE Len(queue) > 1
      <4>1. queue' # <<>> /\ Head(queue') = queue'[1] /\ queue'[1] = queue[2]
        BY <1>2, <1>5, <2>1, <3>3, EmptySeq
      <4>2. queue[2].pkt = h.pkt + 1 /\ queue[2].off = 0
        BY <1>2, <1>6, <3>3
      <4> QED
        BY <3>1, <4>1, <4>2 DEF Front
    <3> QED
      BY <1>2, <3>2, <3>3
  <2>2. CASE h.off + n < PacketLen
    <3>1. wire = [pkt |-> h.pkt, off |-> h.off + n]
      BY <1>1, <1>4, <2>2 DEF Stream!Advance
    <3>2. queue' # <<>> /\ Head(queue') = queue'[1]
      BY <1>2, <1>5, <2>2, EmptySeq
    <3>3. queue'[1] = [pkt |-> h.pkt, off |-> h.off + n]
      BY <1>5, <2>2
    <3>4. Head(queue').pkt = h.pkt /\ Head(queue').off = h.off + n
      BY <3>2, <3>3
    <3> QED
      BY <3>1, <3>2, <3>4 DEF Front
  <2> QED
    BY <1>1, <1>4, <2>1, <2>2
<1>9. \/ queue' # <<>> /\ sending' = sending /\ Posters' = {t}
      \/ queue' = <<>> /\ sending' = FALSE /\ Posters' = {}
  BY <1>1, <1>3 DEF n, OnSendCompleted, NeedPost, Goto, Posters, IndInv, TypeOK
<1>10. SingleSend' /\ BufferPinned' /\ NoIdleBacklog'
  BY <1>1, <1>3, <1>9 DEF SingleSend, BufferPinned, NoIdleBacklog
<1>11. WireFollowsQueue'
  BY <1>3, <1>7, <1>8, <1>9 DEF WireFollowsQueue
<1> QED
  BY <1>10, <1>11 DEF IndInv

-----------------------------------------------------------------------------
\* Every step of every thread and of the kernel keeps the invariant.
LEMMA NextInv == IndInv /\ [Next]_vars => IndInv'
<1> SUFFICES ASSUME IndInv, [Next]_vars PROVE IndInv'
  OBVIOUS
<1>1. TypeOK /\ TypeOK'
  BY TypeStep DEF IndInv
<1>2. CASE UNCHANGED vars
  BY <1>1, <1>2, Elsewhere DEF vars
<1>3. ASSUME NEW t \in Threads,
             Close(t) \/ Release(t) \/ Accept(t) \/ OnAccepted(t) \/ Recv(t)
      PROVE  IndInv'
  BY <1>1, <1>3, Elsewhere
     DEF Close, Release, Accept, OnAccepted, Recv, Goto, sendState, TypeOK
<1>4. ASSUME NEW t \in Threads,
             RecvEnded(t) \/ RecvDropped(t) \/ SendFails(t)
      PROVE  IndInv'
  BY <1>1, <1>4, Elsewhere
     DEF RecvEnded, RecvDropped, SendFails, TryDisconnect, Goto, sendState, TypeOK
<1>5. ASSUME NEW t \in Threads, NEW c \in inflight, SendEnded(t, c)
      PROVE  IndInv'
  BY <1>1, <1>5, Elsewhere DEF SendEnded, TryDisconnect, Goto, TypeOK
<1>6. ASSUME NEW t \in Threads, SendPacket(t) PROVE IndInv'
  BY <1>1, <1>6, SendPacketInv
<1>7. ASSUME NEW t \in Threads, Send(t) PROVE IndInv'
  BY <1>1, <1>7, SendInv
<1>8. ASSUME NEW t \in Threads, NEW c \in inflight, OnSendCompleted(t, c)
      PROVE  IndInv'
  BY <1>1, <1>8, OnSendCompletedInv
<1>9. ASSUME NEW c \in inflight, Transmit(c) PROVE IndInv'
  BY <1>1, <1>9, TransmitInv
<1> QED
  BY <1>2, <1>3, <1>4, <1>5, <1>6, <1>7, <1>8, <1>9 DEF Next, ThreadStep

\* Every variable keeps its type, for every number of threads, packets and
\* connections.
THEOREM TypeCorrect == Spec => []TypeOK
<1>1. Init => TypeOK
  BY InitInv DEF IndInv
<1>2. TypeOK /\ [Next]_vars => TypeOK'
  BY TypeStep
<1> QED
  BY <1>1, <1>2, PTL DEF Spec

\* The send state of a session is safe over its whole life, reuse included:
\* at most one request outstanding or about to be posted, its buffer pinned,
\* nothing queued behind a lowered flag, the wire at the front of the queue.
THEOREM SendStateSafe ==
  Spec => [](SingleSend /\ BufferPinned /\ NoIdleBacklog /\ WireFollowsQueue)
<1>1. Init => IndInv
  BY InitInv
<1>2. IndInv /\ [Next]_vars => IndInv'
  BY NextInv
<1>3. IndInv => SingleSend /\ BufferPinned /\ NoIdleBacklog /\ WireFollowsQueue
  BY DEF IndInv
<1> QED
  BY <1>1, <1>2, <1>3, PTL DEF Spec

\* The buffer a request was posted with is not freed while the request is out,
\* not by a Disconnect or a reuse either (Session.cpp:64-73, 116-124).
THEOREM BufferStaysPinned == Spec => []BufferPinned
BY SendStateSafe, PTL

\* No packet lies behind a lowered m_bIsSending, where only the next SendPacket
\* would find it (Session.cpp:118-134, 184-191).
THEOREM BacklogHasSender == Spec => []NoIdleBacklog
BY SendStateSafe, PTL

-----------------------------------------------------------------------------
\* A transmission carries the next bytes of the promised stream, taken from a
\* packet that was accepted.
LEMMA TransmitEmits ==
  ASSUME IndInv, NEW c \in inflight, Transmit(c)
  PROVE  Stream!Emit \/ UNCHANGED Stream!bsvars
<1>1. PICK n \in 0 .. (PacketLen - c.off) :
        /\ wire' = IF n = 0 THEN wire
                   ELSE Stream!Advance([pkt |-> c.pkt, off |-> c.off], n)
        /\ total' = total + n
  BY DEF Transmit
<1>2. posted' = posted
  BY DEF Transmit
<1>3. CASE n = 0
  BY <1>1, <1>2, <1>3 DEF Stream!bsvars, IndInv, TypeOK
<1>4. CASE n # 0
  <2>1. queue # <<>> /\ c.pkt = Head(queue).pkt
    BY DEF IndInv, BufferPinned
  <2>2. wire = [pkt |-> c.pkt, off |-> c.off] /\ c \in Ctxs
    BY DEF IndInv, TypeOK, WireFollowsQueue, After, Transmit
  <2>3. queue \in Seq(Items) /\ Len(queue) \in Nat \ {0} /\ Head(queue) = queue[1]
    BY <2>1, EmptySeq DEF IndInv, TypeOK
  <2>4. c.pkt <= posted
    BY <2>1, <2>3 DEF IndInv, WireFollowsQueue, QueueInOrder, TypeOK
  <2>5. n \in 1 .. (PacketLen - wire.off) /\ wire' = Stream!Advance(wire, n)
    BY <1>1, <1>4, <2>2, SizeAssumption DEF Ctxs
  <2>6. wire.pkt <= posted
    BY <2>2, <2>4
  <2> QED
    BY <1>1, <1>2, <2>5, <2>6 DEF Stream!Emit
<1> QED
  BY <1>3, <1>4

\* The session implements ByteStream: whatever the threads, the kernel, lost
\* connections and reuse do, the bytes it transmits are those of the packets
\* accepted, in order, none lost in the middle, none repeated.
THEOREM ImplementsByteStream == Spec => TransmitsByteStream
<1>1. Init => Stream!Init
  BY DEF Init, Stream!Init
<1>2. ASSUME IndInv, [Next]_vars
      PROVE  [Stream!Next]_(Stream!bsvars)
  <2>1. CASE UNCHANGED vars
    BY <2>1 DEF vars, Stream!bsvars
  <2>2. ASSUME NEW t \in Threads,
               \/ Close(t) \/ Release(t) \/ Accept(t) \/ OnAccepted(t) \/ Recv(t)
               \/ RecvEnded(t) \/ RecvDropped(t) \/ SendFails(t) \/ Send(t)
               \/ \E c \in inflight : OnSendCompleted(t, c) \/ SendEnded(t, c)
        PROVE  UNCHANGED <<posted, wire, total>>
    BY <2>2 DEF Close, Release, Accept, OnAccepted, Recv, RecvEnded,
                RecvDropped, SendFails, Send, OnSendCompleted, SendEnded, sendState
  <2>3. ASSUME NEW t \in Threads, SendPacket(t) PROVE Stream!Accept
    BY <2>3 DEF SendPacket, Stream!Accept
  <2>4. ASSUME NEW c \in inflight, Transmit(c)
        PROVE  Stream!Emit \/ UNCHANGED Stream!bsvars
    BY <1>2, <2>4, TransmitEmits
  <2> QED
    BY <1>2, <2>1, <2>2, <2>3, <2>4
       DEF Next, ThreadStep, Stream!Next, Stream!bsvars
<1>3. Init => IndInv
  BY InitInv
<1>4. IndInv /\ [Next]_vars => IndInv'
  BY NextInv
<1> QED
  BY <1>1, <1>2, <1>3, <1>4, PTL DEF Spec, Stream!Spec, TransmitsByteStream
=============================================================================
