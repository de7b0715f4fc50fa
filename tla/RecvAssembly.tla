---------------------------- MODULE RecvAssembly ----------------------------
(***************************************************************************)
(* OnRecvCompleted of ClientSession and ServerSession: the bytes of one    *)
(* connection go through the session's ring buffer and come out as         *)
(* packets.  The peer sends packets, TCP cuts them as it likes, WSARecv    *)
(* delivers at most ChunkMax bytes at a time.  A byte is its position in   *)
(* the connection's stream (Stale: left behind by an older connection), so *)
(* the model sees a byte that is lost, repeated or taken from elsewhere.   *)
(***************************************************************************)
EXTENDS RingBuffer, Sequences

CONSTANTS
  HeaderSize,   \* PACKET_HEADER_SIZE
  ChunkMax,     \* MAX_BUFFER_SIZE, the buffer of a RecvCtx
  HeaderValues, \* values of the header's size field the peer uses
  MaxPackets,   \* bound on the packets of a connection
  Window        \* packets the peer sends before it waits for an answer

ASSUME RecvAssumption ==
  /\ HeaderSize \in Nat \ {0} /\ ChunkMax \in Nat \ {0}
  /\ HeaderValues \subseteq Nat /\ MaxPackets \in Nat /\ Window \in Nat

VARIABLES
  stream,  \* packets the peer sent: [hdr, end], end = stream position after it
  got,     \* bytes WSARecv delivered
  ring,    \* m_RecvBuffer
  pc,      \* "recv": WSARecv posted; "parse": in the loop; "closed"; "crashed"
  open,    \* the socket is open
  done,    \* packets dispatched
  packet,  \* the bytes of the last one
  dropped  \* some Write did not fit

vars == <<stream, got, ring, pc, open, done, packet, dropped>>

Stale == -1
PCs   == {"recv", "parse", "closed", "crashed"}

EndOf(k) == IF k = 0 THEN 0 ELSE stream[k].end
Sent     == EndOf(Len(stream))

\* A header announces at least itself: the peer sends no shorter packet.
LengthFor(h) == IF h < HeaderSize THEN HeaderSize ELSE h

TypeOK ==
  /\ stream \in Seq([hdr : HeaderValues, end : Nat])
  /\ got \in Nat
  /\ ring \in [data : [Cells -> Int], r : Cells, w : Cells]
  /\ pc \in PCs
  /\ open \in BOOLEAN /\ dropped \in BOOLEAN
  /\ done \in Nat
  /\ packet \in [DOMAIN packet -> Int]

Init ==
  /\ stream = <<>> /\ got = 0
  /\ ring = [data |-> [i \in Cells |-> Stale], r |-> 0, w |-> 0]
  /\ pc = "recv" /\ open = TRUE
  /\ done = 0 /\ packet = [i \in {} |-> 0] /\ dropped = FALSE

\* The peer sends its next packet.
PeerSends ==
  /\ Len(stream) < MaxPackets /\ Len(stream) - done < Window
  /\ open
  /\ \E h \in HeaderValues :
       stream' = Append(stream, [hdr |-> h, end |-> Sent + LengthFor(h)])
  /\ UNCHANGED <<got, ring, pc, open, done, packet, dropped>>

\* Disconnect, up to Release: Session::Init clears the ring.
Disconnect == open' = FALSE /\ ring' = Cleared(ring)

\* The peer's end of stream, or a failed receive, is completed.
RecvEnded ==
  /\ pc = "recv"
  /\ Disconnect
  /\ pc' = "closed"
  /\ UNCHANGED <<stream, got, done, packet, dropped>>

\* OnRecvCompleted with n bytes: Write, whose result is ignored.
OnRecvCompleted ==
  /\ pc = "recv"
  /\ \E n \in 1 .. ChunkMax :
       /\ got + n <= Sent
       /\ got' = got + n
       /\ IF WriteFits(ring, n)
            THEN /\ ring' = Written(ring, [j \in 0 .. n - 1 |-> got + j], n)
                 /\ UNCHANGED dropped
            ELSE dropped' = TRUE /\ UNCHANGED ring
  /\ pc' = "parse"
  /\ UNCHANGED <<stream, open, done, packet>>

-----------------------------------------------------------------------------
\* The size field found at the read position: the peer's header if the bytes
\* there are one, anything if they are not.
HeaderSizes ==
  LET bytes  == Peek(ring, HeaderSize)
      starts == {k \in 1 .. Len(stream) :
                   \A i \in 0 .. HeaderSize - 1 : bytes[i] = EndOf(k - 1) + i}
  IN  IF starts = {} THEN HeaderValues ELSE {stream[k].hdr : k \in starts}

\* Faulty: waits for a byte behind the header.
HasHeaderAndMore == StoredSize(ring) > HeaderSize

HasHeader == StoredSize(ring) >= HeaderSize

SizeOk(size) == size >= HeaderSize /\ size <= BufSize

\* Less than a header is stored, or less than the packet: leave the loop and
\* post the next receive, which fails when a handler closed the session.
LeaveLoop ==
  /\ pc = "parse"
  /\ \/ ~HasHeader
     \/ HasHeader /\ \E size \in HeaderSizes : SizeOk(size) /\ StoredSize(ring) < size
  /\ pc' = IF open THEN "recv" ELSE "closed"
  /\ UNCHANGED <<stream, got, ring, open, done, packet, dropped>>

\* An impossible size closes the connection.
RejectSize ==
  /\ pc = "parse" /\ HasHeader
  /\ \E size \in HeaderSizes : ~SizeOk(size)
  /\ Disconnect
  /\ pc' = "closed"
  /\ UNCHANGED <<stream, got, done, packet, dropped>>

\* A whole packet is stored: Read takes it out and Dispatch hands it to its
\* handler, which may fail to send its answer and thereby Disconnect.
Dispatch ==
  /\ pc = "parse" /\ HasHeader
  /\ \E size \in HeaderSizes :
       /\ SizeOk(size) /\ StoredSize(ring) >= size /\ ~ReadFaults(ring, size)
       /\ packet' = ReadBytes(ring, size)
       /\ \/ ring' = AfterRead(ring, size) /\ UNCHANGED open
          \/ ring' = Cleared(ring) /\ open' = FALSE
  /\ done' = done + 1
  /\ UNCHANGED <<stream, got, pc, dropped>>

\* The same, and the copy in Read gets a negative length.
ReadCrashes ==
  /\ pc = "parse" /\ HasHeader
  /\ \E size \in HeaderSizes :
       SizeOk(size) /\ StoredSize(ring) >= size /\ ReadFaults(ring, size)
  /\ pc' = "crashed"
  /\ UNCHANGED <<stream, got, ring, open, done, packet, dropped>>

\* The session is taken from the pool for a new connection.  The array still
\* holds bytes of the old one.
Reopen ==
  /\ pc = "closed"
  /\ stream' = <<>> /\ got' = 0 /\ open' = TRUE /\ pc' = "recv"
  /\ ring' = [ring EXCEPT !.data = [i \in Cells |-> Stale]]
  /\ done' = 0 /\ packet' = [i \in {} |-> 0] /\ dropped' = FALSE

Step == LeaveLoop \/ RejectSize \/ Dispatch \/ ReadCrashes

Next == PeerSends \/ RecvEnded \/ OnRecvCompleted \/ Step \/ Reopen

Spec == Init /\ [][Next]_vars

\* Bytes that were sent are delivered, and a worker in the loop runs on.
FairSpec == Spec /\ WF_vars(OnRecvCompleted) /\ WF_vars(Step)
-----------------------------------------------------------------------------
\* The packets the ring can take from a peer that does not wait: what is left
\* of one, at most its size less a byte, and the next chunk fit together.
SizesFit ==
  /\ HeaderSize + ChunkMax <= BufSize
  /\ \A h \in HeaderValues : h + ChunkMax <= BufSize

\* The ring holds exactly the bytes delivered and not yet dispatched, in
\* order, through every wrap of the array.
RingHoldsStream ==
  open /\ ~dropped =>
    /\ StoredSize(ring) = got - EndOf(done)
    /\ \A i \in 0 .. StoredSize(ring) - 1 :
         ByteAt(ring, i) = EndOf(done) + i

\* No Write fails: whatever is left after the loop leaves room for the next
\* chunk, so ignoring Write's result loses nothing.
NothingDropped == ~dropped

\* The packets dispatched are the packets sent, in order, each with all its
\* bytes and no others.
DispatchInOrder ==
  ~dropped =>
    /\ done <= Len(stream)
    /\ done > 0 => packet = [i \in 0 .. stream[done].hdr - 1 |-> EndOf(done - 1) + i]

\* Taking a packet out of the ring never makes memcpy run away.
NoFault == pc # "crashed"

\* Every packet sent with a valid header is dispatched, unless the connection
\* ends first.
EveryPacketDispatched ==
  \A k \in 1 .. MaxPackets : (Len(stream) >= k) ~> (done >= k \/ pc = "closed")
=============================================================================
