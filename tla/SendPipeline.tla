---------------------------- MODULE SendPipeline ----------------------------
(***************************************************************************)
(* The send state machine of one Session object (ServerCoreLibrary/        *)
(* Session.cpp): SendPacket, Send, OnSendCompleted and the parts of        *)
(* Disconnect, Release and accept that touch the same fields.  The object  *)
(* outlives its connections: Release returns it to the pool and a later    *)
(* accept gives it a new socket, while threads still hold its address (a   *)
(* BroadCastActive snapshot) and completions of the old socket are still   *)
(* in the completion port.                                                 *)
(*                                                                         *)
(* A step is what runs under m_SendLock, or between two accesses of shared *)
(* fields.  Packets are numbered in the order they are pushed; WSASend and *)
(* the completion port are external.                                       *)
(***************************************************************************)
EXTENDS Naturals, Sequences

CONSTANTS
  Threads,      \* IOCP workers and threads that call SendPacket
  NoThread,     \* m_SendLock is free
  MaxPackets,   \* bound on the calls of SendPacket
  PacketLen,    \* bytes of a packet
  MaxConns      \* bound on the connections the object serves

ASSUME NoThreadAssumption == NoThread \notin Threads
ASSUME SizeAssumption ==
  MaxPackets \in Nat /\ PacketLen \in Nat \ {0} /\ MaxConns \in Nat

VARIABLES
  sock,          \* m_AcceptSocket: the connection's number, 0 = INVALID_SOCKET
  disconnected,  \* m_bDisconnected
  inPool,        \* the object is in the session pool
  queue,         \* m_SendQueue: items [pkt, off]
  sending,       \* m_bIsSending
  lock,          \* owner of m_SendLock between steps (Disconnect inside Send)
  pc,            \* what each thread does next on this object
  inflight,      \* SendCtx objects owned by the kernel or the completion port
  recvs,         \* RecvCtx objects outstanding, those being handled included
  conns,         \* connections accepted so far
  posted,        \* SendPacket calls so far
  owner,         \* ghost: the connection packet p was meant for (0: none)
  wire,          \* ghost: the byte after the last one transmitted
  total          \* ghost: bytes transmitted

vars == <<sock, disconnected, inPool, queue, sending, lock, pc, inflight,
          recvs, conns, posted, owner, wire, total>>

sendState == <<queue, sending, inflight, posted, owner, wire, total>>

Packets == 1 .. MaxPackets
Conns   == 0 .. MaxConns
Items   == [pkt : Packets, off : 0 .. PacketLen - 1]
Ctxs    == [pkt : Packets, off : 0 .. PacketLen - 1, conn : Conns, by : Threads,
            st : {"pending", "sent", "failed"}, n : 0 .. PacketLen]
PCs     == {"idle", "post", "close", "release", "accepted", "recv"}

\* The byte stream the callers were promised, see ByteStream.
Stream == INSTANCE ByteStream WITH accepted <- posted, next <- wire

TypeOK ==
  /\ sock \in Conns
  /\ disconnected \in BOOLEAN
  /\ inPool \in BOOLEAN
  /\ queue \in Seq(Items)
  /\ sending \in BOOLEAN
  /\ lock \in Threads \cup {NoThread}
  /\ pc \in [Threads -> PCs]
  /\ inflight \subseteq Ctxs
  /\ recvs \in Nat
  /\ conns \in Conns
  /\ posted \in 0 .. MaxPackets
  /\ owner \in [Packets -> Conns]
  /\ wire \in [pkt : 1 .. MaxPackets + 1, off : 0 .. PacketLen - 1]
  /\ total \in Nat

\* A session fresh from its factory, waiting in the pool.
Init ==
  /\ sock = 0 /\ disconnected = FALSE /\ inPool = TRUE
  /\ queue = <<>> /\ sending = FALSE /\ lock = NoThread
  /\ pc = [t \in Threads |-> "idle"]
  /\ inflight = {} /\ recvs = 0 /\ conns = 0 /\ posted = 0
  /\ owner = [p \in Packets |-> 0]
  /\ wire = [pkt |-> 1, off |-> 0] /\ total = 0

Goto(t, label) == pc' = [pc EXCEPT ![t] = label]

-----------------------------------------------------------------------------
\* Disconnect: the compare-exchange on m_bDisconnected lets one caller pass;
\* `held` is the lock's owner while the rest of Disconnect runs.
TryDisconnect(t, held) ==
  IF disconnected
    THEN Goto(t, "idle") /\ UNCHANGED <<disconnected, lock>>
    ELSE Goto(t, "close") /\ disconnected' = TRUE /\ lock' = held

\* closesocket and m_AcceptSocket := INVALID_SOCKET.
Close(t) ==
  /\ pc[t] = "close"
  /\ sock' = 0
  /\ Goto(t, "release")
  /\ UNCHANGED <<sendState, disconnected, inPool, lock, recvs, conns>>

\* Faulty: Init also empties m_SendQueue, under a request still outstanding.
ReleaseClearsQueue(t) ==
  /\ pc[t] = "release"
  /\ sock' = 0 /\ inPool' = TRUE
  /\ lock' = (IF lock = t THEN NoThread ELSE lock)
  /\ queue' = <<>> /\ sending' = FALSE
  /\ Goto(t, "idle")
  /\ UNCHANGED <<inflight, posted, owner, wire, total, disconnected, recvs, conns>>

\* Release: Init resets the receive side and the sockets and leaves
\* m_SendQueue, m_bIsSending and m_bDisconnected as they are; the object goes
\* back to the pool and a Send that called Disconnect gives the lock back.
Release(t) ==
  /\ pc[t] = "release"
  /\ sock' = 0
  /\ inPool' = TRUE
  /\ lock' = IF lock = t THEN NoThread ELSE lock
  /\ Goto(t, "idle")
  /\ UNCHANGED <<sendState, disconnected, recvs, conns>>

\* OnAcceptCompleted takes the session from the pool and sets its socket ...
Accept(t) ==
  /\ pc[t] = "idle" /\ inPool /\ conns < MaxConns
  /\ inPool' = FALSE
  /\ conns' = conns + 1
  /\ sock' = conns + 1
  /\ Goto(t, "accepted")
  /\ UNCHANGED <<sendState, disconnected, lock, recvs>>

\* ... calls OnAccepted ...
OnAccepted(t) ==
  /\ pc[t] = "accepted"
  /\ disconnected' = FALSE
  /\ Goto(t, "recv")
  /\ UNCHANGED <<sendState, sock, inPool, lock, recvs, conns>>

\* ... and posts the first receive: it fails on INVALID_SOCKET and may fail on
\* any socket, and nobody looks at the result.
Recv(t) ==
  /\ pc[t] = "recv"
  /\ recvs' \in IF sock = 0 THEN {recvs} ELSE {recvs, recvs + 1}
  /\ Goto(t, "idle")
  /\ UNCHANGED <<sendState, sock, disconnected, inPool, lock, conns>>

\* A receive completes with length 0 or an error, maybe of an older socket.
RecvEnded(t) ==
  /\ pc[t] = "idle" /\ recvs > 0
  /\ recvs' = recvs - 1
  /\ TryDisconnect(t, lock)
  /\ UNCHANGED <<sendState, sock, inPool, conns>>

\* A receive completed with data and the Recv() that should follow it fails.
RecvDropped(t) ==
  /\ pc[t] = "idle" /\ recvs > 0
  /\ recvs' = recvs - 1
  /\ UNCHANGED <<sendState, sock, disconnected, inPool, lock, pc, conns>>

-----------------------------------------------------------------------------
\* SendPacket may run once somebody has the session's address: from its first
\* registration on, for ever (the snapshot of BroadCastActive, a handler).
Reachable == conns > 1 \/ (conns = 1 /\ \A t \in Threads : pc[t] # "accepted")

\* Faulty: SendPacket does not look at m_bIsSending.
StartsSendAlways == TRUE

\* SendPacket starts a WSASend itself only when none is under way.
StartsSend == ~sending

SendPacket(t) ==
  /\ pc[t] = "idle" /\ Reachable /\ lock = NoThread /\ posted < MaxPackets
  /\ posted' = posted + 1
  /\ queue' = Append(queue, [pkt |-> posted + 1, off |-> 0])
  /\ owner' = [owner EXCEPT ![posted + 1] = sock]
  /\ IF StartsSend THEN sending' = TRUE /\ Goto(t, "post")
                   ELSE UNCHANGED <<sending, pc>>
  /\ UNCHANGED <<sock, disconnected, inPool, lock, inflight, recvs, conns, wire,
                 total>>

\* The SendCtx that Send builds: it points into the front item's buffer.
FrontCtx(t) == [pkt |-> Head(queue).pkt, off |-> Head(queue).off,
                conn |-> sock, by |-> t, st |-> "pending", n |-> 0]

\* Send with WSASend accepted (or nothing to send).
Send(t) ==
  /\ pc[t] = "post" /\ lock = NoThread
  /\ IF queue = <<>> THEN sending' = FALSE /\ UNCHANGED inflight
     ELSE sock # 0 /\ inflight' = inflight \cup {FrontCtx(t)} /\ UNCHANGED sending
  /\ Goto(t, "idle")
  /\ UNCHANGED <<sock, disconnected, inPool, queue, lock, recvs, conns,
                 posted, owner, wire, total>>

\* Send with WSASend failing at once, always so on INVALID_SOCKET: Disconnect
\* runs with m_SendLock held, and m_bIsSending stays TRUE.
SendFails(t) ==
  /\ pc[t] = "post" /\ lock = NoThread /\ queue # <<>>
  /\ TryDisconnect(t, t)
  /\ UNCHANGED <<sendState, sock, inPool, recvs, conns>>

\* The kernel transmits n bytes of a posted buffer and queues the completion.
\* It fails requests of a closed socket, and may fail any.
Transmit(c) ==
  /\ c.st = "pending"
  /\ \E n \in 0 .. (PacketLen - c.off), st \in {"sent", "failed"} :
       /\ (c.conn # sock) => st = "failed"
       /\ inflight' = (inflight \ {c}) \cup {[c EXCEPT !.st = st, !.n = n]}
       /\ wire' = IF n = 0 THEN wire
                  ELSE Stream!Advance([pkt |-> c.pkt, off |-> c.off], n)
       /\ total' = total + n
  /\ UNCHANGED <<sock, disconnected, inPool, queue, sending, lock, pc, recvs,
                 conns, posted, owner>>

\* Faulty: the finished item is recognised one byte late.
ProgressLate(q, n) ==
  IF Head(q).off + n > PacketLen THEN Tail(q)
  ELSE [q EXCEPT ![1] = [pkt |-> Head(q).pkt, off |-> Head(q).off + n]]

\* Faulty: a partial completion does not move the offset.
ProgressStays(q, n) == IF Head(q).off + n >= PacketLen THEN Tail(q) ELSE q

\* item.off += n; a finished item is popped.
Progress(q, n) ==
  IF Head(q).off + n >= PacketLen THEN Tail(q)
  ELSE [q EXCEPT ![1] = [pkt |-> Head(q).pkt, off |-> Head(q).off + n]]

\* Faulty: posts the rest of an item, never the next item.
NeedPostRest(q, n) == Head(q).off + n < PacketLen

\* Faulty: posts the next item, never the rest of one.
NeedPostNext(q, n) == Head(q).off + n >= PacketLen /\ Tail(q) # <<>>

\* needPost: the item, or the queue behind it, has bytes left.
NeedPost(q, n) == Progress(q, n) # <<>>

\* A worker dequeues a successful completion.
OnSendCompleted(t, c) ==
  /\ pc[t] = "idle" /\ c.st = "sent" /\ c.n > 0 /\ lock = NoThread
  /\ inflight' = inflight \ {c}
  /\ IF queue = <<>>
       THEN sending' = FALSE /\ UNCHANGED <<queue, pc>>
       ELSE /\ queue' = Progress(queue, c.n)
            /\ IF NeedPost(queue, c.n) THEN Goto(t, "post") /\ UNCHANGED sending
                                       ELSE sending' = FALSE /\ UNCHANGED pc
  /\ UNCHANGED <<sock, disconnected, inPool, lock, recvs, conns, posted, owner,
                 wire, total>>

\* A worker dequeues a completion of length 0, or a failed one: Disconnect.
SendEnded(t, c) ==
  /\ pc[t] = "idle" /\ (c.st = "failed" \/ (c.st = "sent" /\ c.n = 0))
  /\ inflight' = inflight \ {c}
  /\ TryDisconnect(t, lock)
  /\ UNCHANGED <<sock, inPool, queue, sending, recvs, conns, posted, owner, wire,
                 total>>

-----------------------------------------------------------------------------
ThreadStep(t) ==
  \/ Close(t) \/ Release(t)
  \/ Accept(t) \/ OnAccepted(t) \/ Recv(t)
  \/ RecvEnded(t) \/ RecvDropped(t)
  \/ SendPacket(t) \/ Send(t) \/ SendFails(t)
  \/ \E c \in inflight : OnSendCompleted(t, c) \/ SendEnded(t, c)

Next == (\E t \in Threads : ThreadStep(t)) \/ (\E c \in inflight : Transmit(c))

Spec == Init /\ [][Next]_vars

\* A thread inside one of these functions runs on; the kernel completes what
\* was posted; some worker dequeues what was completed.
Fairness ==
  /\ \A t \in Threads : WF_vars(Close(t) \/ Release(t) \/ OnAccepted(t)
                                \/ Recv(t) \/ Send(t) \/ SendFails(t))
  /\ WF_vars(\E c \in inflight : Transmit(c))
  /\ WF_vars(\E t \in Threads : \E c \in inflight :
               OnSendCompleted(t, c) \/ SendEnded(t, c))

FairSpec == Spec /\ Fairness
-----------------------------------------------------------------------------
Posters == {t \in Threads : pc[t] = "post"}

\* At most one WSASend of a session is outstanding or about to be posted, and
\* while one is, m_bIsSending is set: the flag hands the sender's role from
\* SendPacket to Send to OnSendCompleted, across reuse of the object.
SingleSend ==
  /\ \A c, d \in inflight : c = d
  /\ \A t, u \in Posters : t = u
  /\ inflight # {} => Posters = {}
  /\ (inflight # {} \/ Posters # {}) => sending

\* The raw pointer in an outstanding SendCtx stays inside the front item of
\* m_SendQueue, at the offset it was posted with: the shared buffer is not
\* released and the offset is not moved under the kernel.
BufferPinned ==
  \A c \in inflight : /\ queue # <<>>
                      /\ c.pkt = Head(queue).pkt /\ c.off = Head(queue).off

\* No packet waits in m_SendQueue with the flag down, where only a later
\* SendPacket would notice it.
NoIdleBacklog == ~sending => queue = <<>>

\* The queue holds the last packets pushed, in order, and only its front is
\* partly sent.
QueueInOrder ==
  /\ Len(queue) <= posted
  /\ \A i \in 1 .. Len(queue) : /\ queue[i].pkt = posted - Len(queue) + i
                                /\ i > 1 => queue[i].off = 0

\* The first byte not yet confirmed by a completion.
Front == IF queue = <<>> THEN [pkt |-> posted + 1, off |-> 0]
                         ELSE [pkt |-> Head(queue).pkt, off |-> Head(queue).off]

\* Where the wire stands once request c has been handled by the kernel.
After(c) == IF c.n = 0 THEN [pkt |-> c.pkt, off |-> c.off]
            ELSE Stream!Advance([pkt |-> c.pkt, off |-> c.off], c.n)

\* As long as anything can still be sent, the queue's front and the wire agree
\* up to the outstanding request.  Once a request was lost they may differ,
\* and then nothing is ever sent again: m_bIsSending stays up with nobody to
\* act on it.
WireFollowsQueue ==
  /\ QueueInOrder
  /\ (Posters # {} => queue # <<>>)
  /\ (Posters # {} \/ ~sending) => wire = Front
  /\ \A c \in inflight : /\ c.off + c.n <= PacketLen
                         /\ c.st = "pending" => c.n = 0
                         /\ wire = After(c)

\* What the kernel transmits over the object's whole life is one byte stream
\* of the packets given to SendPacket: no byte lost in the middle, repeated,
\* or put between the bytes of another packet.
TransmitsByteStream == Stream!Spec

\* m_bIsSending is set and nobody is left to act on it.
Stalled == sending /\ inflight = {} /\ Posters = {}

\* A packet waiting on an open connection, with the flag of Disconnect down, is
\* transmitted or the connection is closed, through partial completions, other
\* senders and completions of older connections: unless the send state was
\* already stalled then, which only a failed send of this or of an older
\* connection leaves behind.
FlushesUnlessStalled ==
  \A p \in Packets :
    (posted >= p /\ owner[p] # 0 /\ owner[p] = sock /\ ~disconnected /\ ~Stalled)
      ~> (wire.pkt > p \/ sock # owner[p])

\* A packet given to SendPacket on an open connection is transmitted, or that
\* connection is closed.
Flushes ==
  \A p \in Packets :
    (posted >= p /\ owner[p] # 0) ~> (wire.pkt > p \/ sock # owner[p])
=============================================================================
