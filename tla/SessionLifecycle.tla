--------------------------- MODULE SessionLifecycle ---------------------------
(***************************************************************************)
(* The life of the Session objects of one type: the pool and the map of    *)
(* active sessions (SessionManager.cpp), the accept path (Listener.cpp),   *)
(* the dispatch of completions (IocpCore.cpp), Recv and Disconnect         *)
(* (Session.cpp).  The objects are never freed: they go round between the  *)
(* pool and the connections, while completions of an older connection      *)
(* still name them.                                                        *)
(*                                                                         *)
(* Workers are the threads of the completion port.  A step is one access   *)
(* to the pool (m_SessionLock), to the active map (m_ActiveLock), to the   *)
(* atomic m_bDisconnected, to m_AcceptSocket or m_ui64SessionId.           *)
(***************************************************************************)
EXTENDS Naturals, Sequences, FiniteSets

CONSTANTS
  Workers,    \* threads in WorkerLoop
  Sessions,   \* bound on the objects the factory makes
  NoSession,  \* nullptr
  MaxConns,   \* bound on the connections accepted
  Slots,      \* ACCEPT_BACKLOG: AcceptEx requests posted at start
  Faults      \* calls that may fail: "register", "recv", "accept"

ASSUME NoSessionAssumption == NoSession \notin Sessions
ASSUME BoundAssumption == MaxConns \in Nat /\ Slots \in Nat
ASSUME FaultAssumption == Faults \subseteq {"register", "recv", "accept"}

VARIABLES
  pool,         \* m_SessionPool of the type, a stack: its top is the last item
  made,         \* objects the factory has made
  sock,         \* m_AcceptSocket: the connection's number, 0 = INVALID_SOCKET
  disconnected, \* m_bDisconnected
  id,           \* m_ui64SessionId
  active,       \* m_ActiveSessions: the object registered under a token, if any
  nextToken,    \* m_ui64NextToken
  known,        \* objects registered once: any thread may hold their address
  stuck,        \* objects whose m_bIsSending was left TRUE by a failed send
  recvs,        \* recvs[s][c]: RecvCtx of object s outstanding on connection c
  slots,        \* AcceptEx requests outstanding
  conns,        \* connections accepted
  gone,         \* connections whose peer has left
  local         \* per worker: next step, object, connection, token, return step

sessionVars == <<sock, disconnected, id, stuck>>
poolVars    == <<pool, made>>
activeVars  == <<active, nextToken, known>>
netVars     == <<recvs, slots, conns, gone>>

vars == <<sessionVars, poolVars, activeVars, netVars, local>>

Conns    == 1 .. MaxConns
OptConns == 0 .. MaxConns   \* also the tokens: one per connection, 0 for none
Tokens   == 1 .. MaxConns

AcceptPCs == {"attach", "accepted", "enlist", "assign", "recv"}
ClosePCs  == {"close", "unregister", "return"}
PCs == {"idle", "giveback", "refill", "rearm"} \cup AcceptPCs \cup ClosePCs

Locals == [pc : PCs, s : Sessions \cup {NoSession}, c : OptConns,
           tok : OptConns, back : {"idle", "rearm"}]

\* A worker at a label, busy with object s on connection c.
At(label, s, c, back) ==
  [pc |-> label, s |-> s, c |-> c, tok |-> 0, back |-> back]

Idle == At("idle", NoSession, 0, "idle")

TypeOK ==
  /\ pool \in Seq(Sessions) /\ made \subseteq Sessions
  /\ sock \in [Sessions -> OptConns] /\ id \in [Sessions -> OptConns]
  /\ disconnected \in [Sessions -> BOOLEAN]
  /\ active \in [Tokens -> Sessions \cup {NoSession}]
  /\ nextToken \in 1 .. MaxConns + 1
  /\ known \subseteq Sessions /\ stuck \subseteq Sessions
  /\ recvs \in [Sessions -> [Conns -> Nat]]
  /\ slots \in Nat /\ conns \in OptConns /\ gone \subseteq Conns
  /\ local \in [Workers -> Locals]
  /\ \A w \in Workers : local[w].pc \notin {"idle", "refill"} => local[w].s # NoSession

\* RegisterFactory has put one object into the pool (its default size), and
\* NetworkManager::Init has posted the accepts.
Init ==
  /\ \E s \in Sessions : pool = <<s>> /\ made = {s}
  /\ sock = [s \in Sessions |-> 0]
  /\ disconnected = [s \in Sessions |-> FALSE]
  /\ id = [s \in Sessions |-> 0]
  /\ active = [t \in Tokens |-> NoSession] /\ nextToken = 1
  /\ known = {} /\ stuck = {}
  /\ recvs = [s \in Sessions |-> [c \in Conns |-> 0]]
  /\ slots = Slots /\ conns = 0 /\ gone = {}
  /\ local = [w \in Workers |-> Idle]

Goto(w, label) ==
  local' = [local EXCEPT ![w] = IF label = "idle" THEN Idle
                                ELSE [local[w] EXCEPT !.pc = label]]

InPool(s) == \E i \in 1 .. Len(pool) : pool[i] = s

-----------------------------------------------------------------------------
\* Faulty: the object is read from the stack and stays there.
GetEmptySessionNoPop(s) ==
  IF pool # <<>> THEN s = pool[Len(pool)] /\ UNCHANGED <<pool, made>>
                 ELSE s \notin made /\ made' = made \cup {s} /\ UNCHANGED pool

\* GetEmptySession returns s: the top of the stack, or a new object when the
\* stack is empty.
GetEmptySession(s) ==
  IF pool # <<>>
    THEN /\ s = pool[Len(pool)]
         /\ pool' = SubSeq(pool, 1, Len(pool) - 1) /\ UNCHANGED made
    ELSE /\ s \notin made
         /\ made' = made \cup {s} /\ UNCHANGED pool

\* Faulty: the flag goes down before the object has its socket.
AcceptCompletedLowersFlag(w) ==
  /\ local[w].pc = "idle" /\ slots > 0 /\ conns < MaxConns
  /\ slots' = slots - 1
  /\ conns' = conns + 1
  /\ \E s \in Sessions :
       /\ GetEmptySession(s)
       /\ disconnected' = [disconnected EXCEPT ![s] = FALSE]
       /\ local' = [local EXCEPT ![w] = At("attach", s, conns + 1, "idle")]
  /\ UNCHANGED <<sock, id, stuck, activeVars, recvs, gone>>

\* OnAcceptCompleted up to RegisterSocket, which may fail.
AcceptCompleted(w) ==
  /\ local[w].pc = "idle" /\ slots > 0 /\ conns < MaxConns
  /\ slots' = slots - 1
  /\ conns' = conns + 1
  /\ \E s \in Sessions, label \in {"attach", "giveback"} :
       /\ label = "giveback" => "register" \in Faults
       /\ GetEmptySession(s)
       /\ local' = [local EXCEPT ![w] = At(label, s, conns + 1, "idle")]
  /\ UNCHANGED <<sessionVars, activeVars, recvs, gone>>

\* Faulty: the way out of OnAcceptCompleted is taken that gives an object back.
AcceptRefusedGivesBack(w) ==
  /\ local[w].pc = "idle" /\ slots > 0
  /\ slots' = slots - 1
  /\ Goto(w, "giveback")
  /\ UNCHANGED <<sessionVars, poolVars, activeVars, recvs, conns, gone>>

\* An AcceptEx that failed, or a type without a factory: the socket is closed
\* and the slot refilled.
AcceptRefused(w) ==
  /\ local[w].pc = "idle" /\ slots > 0
  /\ slots' = slots - 1
  /\ Goto(w, "refill")
  /\ UNCHANGED <<sessionVars, poolVars, activeVars, recvs, conns, gone>>

\* Release: Session::Init, and the object is pushed.
ReleaseSession(s) ==
  /\ sock' = [sock EXCEPT ![s] = 0]
  /\ id' = [id EXCEPT ![s] = 0]
  /\ pool' = Append(pool, s)

\* Faulty: this error path forgets the next AcceptEx.
GiveBackOnly(w) ==
  /\ local[w].pc = "giveback"
  /\ ReleaseSession(local[w].s)
  /\ Goto(w, "idle")
  /\ UNCHANGED <<made, disconnected, stuck, activeVars, netVars>>

\* RegisterSocket failed: the object goes back unused.
GiveBack(w) ==
  /\ local[w].pc = "giveback"
  /\ ReleaseSession(local[w].s)
  /\ Goto(w, "refill")
  /\ UNCHANGED <<made, disconnected, stuck, activeVars, netVars>>

SetAcceptedSocket(w) ==
  /\ local[w].pc = "attach"
  /\ sock' = [sock EXCEPT ![local[w].s] = local[w].c]
  /\ Goto(w, "accepted")
  /\ UNCHANGED <<disconnected, id, stuck, poolVars, activeVars, netVars>>

\* OnAccepted: first the flag; from here on Disconnect works on the object ...
OnAccepted(w) ==
  /\ local[w].pc = "accepted"
  /\ disconnected' = [disconnected EXCEPT ![local[w].s] = FALSE]
  /\ Goto(w, "enlist")
  /\ UNCHANGED <<sock, id, stuck, poolVars, activeVars, netVars>>

\* ... then the active map ...
RegisterActive(w) ==
  /\ local[w].pc = "enlist" /\ nextToken <= MaxConns
  /\ active' = [active EXCEPT ![nextToken] = local[w].s]
  /\ nextToken' = nextToken + 1
  /\ known' = known \cup {local[w].s}
  /\ local' = [local EXCEPT ![w] = [@ EXCEPT !.pc = "assign", !.tok = nextToken]]
  /\ UNCHANGED <<sessionVars, poolVars, netVars>>

\* ... then m_ui64SessionId.
AssignId(w) ==
  /\ local[w].pc = "assign"
  /\ id' = [id EXCEPT ![local[w].s] = local[w].tok]
  /\ Goto(w, "recv")
  /\ UNCHANGED <<sock, disconnected, stuck, poolVars, activeVars, netVars>>

\* Faulty: posts nothing while a receive of the object is outstanding.
RecvSingle(s) ==
  IF sock[s] # 0 /\ \A c \in Conns : recvs[s][c] = 0
    THEN recvs' = [recvs EXCEPT ![s][sock[s]] = 1]
    ELSE UNCHANGED recvs

\* Recv, on whatever socket the object has now.  No caller looks at the result.
Recv(s) ==
  \/ sock[s] # 0 /\ recvs' = [recvs EXCEPT ![s][sock[s]] = @ + 1]
  \/ (sock[s] = 0 \/ "recv" \in Faults) /\ UNCHANGED recvs

\* The first receive, posted by the accept path.
FirstRecv(w) ==
  /\ local[w].pc = "recv"
  /\ Recv(local[w].s)
  /\ Goto(w, "refill")
  /\ UNCHANGED <<sessionVars, poolVars, activeVars, slots, conns, gone>>

\* PostAccept: no caller looks at its result either.
PostAccept(w) ==
  /\ local[w].pc = "refill"
  /\ \/ slots' = slots + 1
     \/ "accept" \in Faults /\ UNCHANGED slots
  /\ Goto(w, "idle")
  /\ UNCHANGED <<sessionVars, poolVars, activeVars, recvs, conns, gone>>

-----------------------------------------------------------------------------
\* Disconnect(s) by worker w on account of connection c: the compare-exchange
\* lets one caller pass; then control returns to `back`.
TryDisconnect(w, s, c, back) ==
  IF disconnected[s]
    THEN /\ local' = [local EXCEPT ![w] = IF back = "idle" THEN Idle
                                          ELSE At(back, s, c, "idle")]
         /\ UNCHANGED disconnected
    ELSE /\ local' = [local EXCEPT ![w] = At("close", s, c, back)]
         /\ disconnected' = [disconnected EXCEPT ![s] = TRUE]

\* closesocket on the object's present socket.
Close(w) ==
  /\ local[w].pc = "close"
  /\ sock' = [sock EXCEPT ![local[w].s] = 0]
  /\ Goto(w, "unregister")
  /\ UNCHANGED <<disconnected, id, stuck, poolVars, activeVars, netVars>>

\* The first entry of the active map found for the object is erased.
UnregisterActive(w) ==
  /\ local[w].pc = "unregister"
  /\ LET entries == {t \in Tokens : active[t] = local[w].s}
     IN IF entries = {} THEN UNCHANGED active
        ELSE \E t \in entries : active' = [active EXCEPT ![t] = NoSession]
  /\ Goto(w, "return")
  /\ UNCHANGED <<sessionVars, poolVars, nextToken, known, netVars>>

\* Faulty: Init lowers m_bDisconnected with the other fields.
ReleaseLowersFlag(w) ==
  /\ local[w].pc = "return"
  /\ ReleaseSession(local[w].s)
  /\ disconnected' = [disconnected EXCEPT ![local[w].s] = FALSE]
  /\ Goto(w, local[w].back)
  /\ UNCHANGED <<made, stuck, activeVars, netVars>>

Release(w) ==
  /\ local[w].pc = "return"
  /\ ReleaseSession(local[w].s)
  /\ Goto(w, local[w].back)
  /\ UNCHANGED <<made, disconnected, stuck, activeVars, netVars>>

\* Faulty: a failed receive is dropped.
RecvEndedDropped(w, s, c) ==
  /\ local[w].pc = "idle" /\ recvs[s][c] > 0
  /\ c \in gone \/ sock[s] # c
  /\ recvs' = [recvs EXCEPT ![s][c] = @ - 1]
  /\ UNCHANGED <<sessionVars, poolVars, activeVars, slots, conns, gone, local>>

\* A receive on connection c completes with length 0 or an error: the peer has
\* left, or the server has closed the socket.
RecvEnded(w, s, c) ==
  /\ local[w].pc = "idle" /\ recvs[s][c] > 0
  /\ c \in gone \/ sock[s] # c
  /\ recvs' = [recvs EXCEPT ![s][c] = @ - 1]
  /\ TryDisconnect(w, s, c, "idle")
  /\ UNCHANGED <<sock, id, stuck, poolVars, activeVars, slots, conns, gone>>

\* A receive completed with data, perhaps before the socket was closed.  Every
\* packet is handled and the next receive posted; or the size field is
\* impossible, Disconnect and no further receive; or a handler's SendPacket
\* fails, Disconnect, and the loop goes on to the next receive.
RecvCompleted(w, s, c) ==
  /\ local[w].pc = "idle" /\ recvs[s][c] > 0 /\ c \notin gone
  /\ recvs' = [recvs EXCEPT ![s][c] = @ - 1]
  /\ \/ /\ local' = [local EXCEPT ![w] = At("rearm", s, c, "idle")]
        /\ UNCHANGED <<disconnected, stuck>>
     \/ TryDisconnect(w, s, c, "idle") /\ UNCHANGED stuck
     \/ /\ s \notin stuck /\ stuck' = stuck \cup {s}
        /\ TryDisconnect(w, s, c, "rearm")
  /\ UNCHANGED <<sock, id, poolVars, activeVars, slots, conns, gone>>

\* Recv at the end of OnRecvCompleted.
Rearm(w) ==
  /\ local[w].pc = "rearm"
  /\ Recv(local[w].s)
  /\ Goto(w, "idle")
  /\ UNCHANGED <<sessionVars, poolVars, activeVars, slots, conns, gone>>

\* A send fails, in SendPacket (which a thread may call on any object whose
\* address it ever read) or on completion.  It leaves m_bIsSending set, so it
\* is the object's last send.
SendFailed(w, s) ==
  /\ local[w].pc = "idle" /\ s \in known \ stuck
  /\ stuck' = stuck \cup {s}
  /\ TryDisconnect(w, s, sock[s], "idle")
  /\ UNCHANGED <<sock, id, poolVars, activeVars, netVars>>

\* The peer of connection c ends it, or the network does.
PeerLeaves(c) ==
  /\ c <= conns /\ c \notin gone
  /\ gone' = gone \cup {c}
  /\ UNCHANGED <<sessionVars, poolVars, activeVars, recvs, slots, conns, local>>

-----------------------------------------------------------------------------
AcceptStep(w) ==
  GiveBack(w) \/ SetAcceptedSocket(w) \/ OnAccepted(w) \/ RegisterActive(w)
  \/ AssignId(w) \/ FirstRecv(w) \/ PostAccept(w)

CloseStep(w) == Close(w) \/ UnregisterActive(w) \/ Release(w)

Next ==
  \/ \E w \in Workers :
       \/ AcceptCompleted(w) \/ AcceptRefused(w) \/ AcceptStep(w)
       \/ CloseStep(w) \/ Rearm(w)
       \/ \E s \in Sessions :
            \/ SendFailed(w, s)
            \/ \E c \in Conns : RecvEnded(w, s, c) \/ RecvCompleted(w, s, c)
  \/ \E c \in Conns : PeerLeaves(c)

Spec == Init /\ [][Next]_vars

\* A worker inside a handler runs on.  The port's queue is first in, first out:
\* the completion of a receive that ended is not passed over for ever, however
\* busy other connections keep the workers.
Fairness ==
  /\ \A w \in Workers : WF_vars(AcceptStep(w) \/ CloseStep(w) \/ Rearm(w))
  /\ \A s \in Sessions, c \in Conns : SF_vars(\E w \in Workers : RecvEnded(w, s, c))

FairSpec == Spec /\ Fairness
-----------------------------------------------------------------------------
\* Workers that own object s: between the pop and the flag going down, and
\* between the flag going up and the push.
Owning == {"attach", "giveback", "accepted"} \cup ClosePCs
Owners(s) == {w \in Workers : local[w].pc \in Owning /\ local[w].s = s}

\* In use: neither in the pool nor in transit.
Live(s) == s \in made /\ ~InPool(s) /\ Owners(s) = {}

\* An object is in one place: once in the pool, or with one worker, or in use
\* with the flag down.  No interleaving of accepts, late completions and
\* failing sends gives it back twice or hands it out twice.
OneOwner ==
  /\ \A i, j \in 1 .. Len(pool) : pool[i] = pool[j] => i = j
  /\ \A s \in Sessions :
       /\ InPool(s) => s \in made /\ Owners(s) = {}
       /\ \A v, w \in Owners(s) : v = w
       /\ Owners(s) # {} => s \in made
       /\ Live(s) => ~disconnected[s]

\* An object in the pool has no socket, and no two objects have the same.
OneSocket ==
  \A s \in Sessions :
    /\ InPool(s) => sock[s] = 0
    /\ \A t \in Sessions : sock[s] = sock[t] /\ sock[s] # 0 => s = t

\* Workers still in the accept path for the present connection of object s.
Starting(s, pcs) == \E w \in Workers : /\ local[w].s = s /\ local[w].c = sock[s]
                                       /\ local[w].pc \in pcs

\* A session in use can be found: it is in the active map, so a broadcast
\* reaches it, whatever older entries Disconnect erased.
LiveIsRegistered ==
  \A s \in Sessions :
    Live(s) /\ ~Starting(s, {"enlist"}) => \E t \in Tokens : active[t] = s

\* A session in use has a receive outstanding on its present connection, or a
\* worker about to post one: otherwise it would never learn of its peer's end.
NoOrphan ==
  \A s \in Sessions :
    Live(s) /\ ~Starting(s, {"enlist", "assign", "recv"}) =>
      \/ recvs[s][sock[s]] > 0
      \/ \E w \in Workers : local[w].s = s /\ local[w].pc = "rearm"

\* The token an object holds never leads FindByToken to another object, though
\* AssignId may be so late that the token's entry is gone, or that it overwrites
\* the token of the object's next connection.
TokenLeadsHome ==
  \A s \in Sessions : id[s] # 0 => active[id[s]] \in {s, NoSession}

\* A session in use is reachable, from the server's side and from its peer's.
LiveIsAttended == LiveIsRegistered /\ NoOrphan /\ TokenLeadsHome

\* Every AcceptEx taken from the port is posted again, on the error paths of
\* OnAcceptCompleted and of WorkerLoop too: the server never listens with less.
SlotsKept ==
  slots + Cardinality({w \in Workers : local[w].pc \in
                         AcceptPCs \cup {"giveback", "refill"}}) = Slots

\* Each connection is served once and by one object, see ConnectionService.
Service == INSTANCE ConnectionService WITH
  serving <- {p \in Conns \X Sessions : sock[p[2]] = p[1]},
  seen    <- (1 .. conns) \ {local[w].c : w \in {v \in Workers : local[v].pc = "attach"}}

ServesOnce == Service!Spec

Served(c) == \E s \in Sessions : sock[s] = c

\* A connection whose peer has left is closed.
PeerEndIsNoticed == \A c \in Conns : (c \in gone /\ Served(c)) ~> ~Served(c)

=============================================================================
