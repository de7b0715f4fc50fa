------------------------ MODULE SessionLifecycleProofs ------------------------
(***************************************************************************)
(* Proofs about SessionLifecycle for every number of workers, objects and  *)
(* connections and every set of faults.                                    *)
(***************************************************************************)
EXTENDS SessionLifecycle, FiniteSetTheorems, SequenceTheorems, TLAPS

\* The step of a worker from one label to another.
LEMMA GotoStep ==
  ASSUME TypeOK, NEW w \in Workers, NEW label \in PCs, Goto(w, label),
         label \notin {"idle", "refill"} => local[w].s # NoSession
  PROVE  /\ local' \in [Workers -> Locals]
         /\ \A v \in Workers : v # w => local'[v] = local[v]
         /\ local'[w].pc = label
         /\ label # "idle" => /\ local'[w].s = local[w].s
                              /\ local'[w].c = local[w].c
                              /\ local'[w].tok = local[w].tok
                              /\ local'[w].back = local[w].back
         /\ label = "idle" => local'[w] = Idle
         /\ \A v \in Workers : local'[v].pc \notin {"idle", "refill"}
                                 => local'[v].s # NoSession
<1> DEFINE r == IF label = "idle" THEN Idle ELSE [local[w] EXCEPT !.pc = label]
<1>1. local \in [Workers -> Locals] /\ local[w] \in Locals
  BY DEF TypeOK
<1>2. r \in Locals /\ r.pc = label
      /\ (label # "idle" => /\ r.s = local[w].s /\ r.c = local[w].c
                            /\ r.tok = local[w].tok /\ r.back = local[w].back)
      /\ (label = "idle" => r = Idle)
  BY <1>1, BoundAssumption DEF Locals, Idle, At, PCs, OptConns
<1>3. local' = [local EXCEPT ![w] = r]
  BY DEF Goto
<1> HIDE DEF r
<1>4. /\ local' \in [Workers -> Locals] /\ local'[w] = r
      /\ \A v \in Workers : v # w => local'[v] = local[v]
  BY <1>1, <1>2, <1>3
<1> QED
  BY <1>2, <1>4 DEF TypeOK

\* The step of a worker to a whole new record.
LEMMA JumpStep ==
  ASSUME TypeOK, NEW w \in Workers, NEW r \in Locals,
         local' = [local EXCEPT ![w] = r],
         r.pc \notin {"idle", "refill"} => r.s # NoSession
  PROVE  /\ local' \in [Workers -> Locals]
         /\ local'[w] = r
         /\ \A v \in Workers : v # w => local'[v] = local[v]
         /\ \A v \in Workers : local'[v].pc \notin {"idle", "refill"}
                                 => local'[v].s # NoSession
BY DEF TypeOK

\* What Disconnect does to its caller.
LEMMA DisconnectStep ==
  ASSUME TypeOK, NEW w \in Workers, NEW s \in Sessions, NEW c \in OptConns,
         NEW back \in {"idle", "rearm"}, TryDisconnect(w, s, c, back)
  PROVE  /\ local' \in [Workers -> Locals]
         /\ \A v \in Workers : v # w => local'[v] = local[v]
         /\ \A v \in Workers : local'[v].pc \notin {"idle", "refill"}
                                 => local'[v].s # NoSession
         /\ disconnected' \in [Sessions -> BOOLEAN]
         /\ \/ /\ disconnected[s] /\ UNCHANGED disconnected
               /\ local'[w].pc = back
               /\ back = "rearm" => local'[w].s = s
            \/ /\ ~disconnected[s]
               /\ disconnected' = [disconnected EXCEPT ![s] = TRUE]
               /\ local'[w].pc = "close" /\ local'[w].s = s
               /\ local'[w].c = c /\ local'[w].back = back
<1>1. NoSession \in Sessions \cup {NoSession} /\ 0 \in OptConns
  BY BoundAssumption DEF OptConns
<1>2. s # NoSession
  BY NoSessionAssumption
<1>3. disconnected \in [Sessions -> BOOLEAN]
  BY DEF TypeOK
<1>4. CASE disconnected[s]
  <2> DEFINE r == IF back = "idle" THEN Idle ELSE At(back, s, c, "idle")
  <2>1. local' = [local EXCEPT ![w] = r] /\ UNCHANGED disconnected
    BY <1>4 DEF TryDisconnect
  <2>2. r \in Locals /\ r.pc = back /\ (back = "rearm" => r.s = s)
    BY <1>1 DEF Locals, PCs, Idle, At
  <2> HIDE DEF r
  <2>3. local'[w] = r /\ local' \in [Workers -> Locals]
        /\ (\A v \in Workers : v # w => local'[v] = local[v])
        /\ \A v \in Workers : local'[v].pc \notin {"idle", "refill"}
                                => local'[v].s # NoSession
    BY <1>2, <2>1, <2>2, JumpStep
  <2> QED
    BY <1>3, <1>4, <2>1, <2>2, <2>3, Zenon
<1>5. CASE ~disconnected[s]
  <2> DEFINE r == At("close", s, c, back)
  <2>1. local' = [local EXCEPT ![w] = r]
    BY <1>5 DEF TryDisconnect
  <2>2. disconnected' = [disconnected EXCEPT ![s] = TRUE]
    BY <1>5 DEF TryDisconnect
  <2>3. r \in Locals /\ r.pc = "close" /\ r.s = s /\ r.c = c /\ r.back = back
    BY <1>1 DEF Locals, PCs, ClosePCs, At
  <2> HIDE DEF r
  <2>4. local'[w] = r /\ local' \in [Workers -> Locals]
        /\ (\A v \in Workers : v # w => local'[v] = local[v])
        /\ \A v \in Workers : local'[v].pc \notin {"idle", "refill"}
                                => local'[v].s # NoSession
    BY <1>2, <2>1, <2>3, JumpStep
  <2>5. disconnected' \in [Sessions -> BOOLEAN]
    BY <1>3, <2>2, Zenon
  <2> QED
    BY <1>5, <2>2, <2>3, <2>4, <2>5, Zenon
<1> QED
  BY <1>4, <1>5, Zenon

\* Release: the object is on top of the stack.
LEMMA ReleaseStep ==
  ASSUME TypeOK, NEW s \in Sessions, ReleaseSession(s)
  PROVE  /\ pool' \in Seq(Sessions) /\ Len(pool') = Len(pool) + 1
         /\ \A i \in 1 .. Len(pool) : pool'[i] = pool[i]
         /\ pool'[Len(pool) + 1] = s
         /\ sock' \in [Sessions -> OptConns] /\ id' \in [Sessions -> OptConns]
         /\ sock'[s] = 0
         /\ \A t \in Sessions : t # s => sock'[t] = sock[t]
         /\ \A t \in Sessions : InPool(t)' <=> (InPool(t) \/ t = s)
<1>1. pool \in Seq(Sessions) /\ Len(pool) \in Nat
  BY DEF TypeOK
<1>2. pool' = Append(pool, s)
  BY DEF ReleaseSession
<1>3. /\ pool' \in Seq(Sessions) /\ Len(pool') = Len(pool) + 1
      /\ \A i \in 1 .. Len(pool) : pool'[i] = pool[i]
      /\ pool'[Len(pool) + 1] = s
  BY <1>1, <1>2, AppendProperties
<1>4. ASSUME NEW t \in Sessions
      PROVE  InPool(t)' <=> (InPool(t) \/ t = s)
  BY <1>1, <1>3 DEF InPool
<1>5. /\ sock' \in [Sessions -> OptConns] /\ id' \in [Sessions -> OptConns]
      /\ sock'[s] = 0
      /\ \A t \in Sessions : t # s => sock'[t] = sock[t]
  BY BoundAssumption DEF TypeOK, ReleaseSession, OptConns
<1> QED
  BY <1>3, <1>4, <1>5

\* GetEmptySession: the top of the stack is gone, or a new object is made.
LEMMA GetStep ==
  ASSUME TypeOK, NEW s \in Sessions, GetEmptySession(s)
  PROVE  /\ pool' \in Seq(Sessions)
         /\ \/ /\ Len(pool) > 0 /\ Len(pool') = Len(pool) - 1 /\ made' = made
               /\ s = pool[Len(pool)]
               /\ \A i \in 1 .. Len(pool') : pool'[i] = pool[i]
            \/ pool' = pool /\ s \notin made /\ made' = made \cup {s}
<1>1. pool \in Seq(Sessions) /\ Len(pool) \in Nat
  BY DEF TypeOK
<1>2. CASE pool # <<>>
  <2>1. Len(pool) > 0
    BY <1>1, <1>2, EmptySeq
  <2>2. pool' = SubSeq(pool, 1, Len(pool) - 1) /\ made' = made /\ s = pool[Len(pool)]
    BY <1>2 DEF GetEmptySession
  <2>3. /\ pool' \in Seq(Sessions) /\ Len(pool') = Len(pool) - 1
        /\ \A i \in 1 .. Len(pool) - 1 : pool'[i] = pool[i]
    <3>1. /\ 1 \in Int /\ Len(pool) - 1 \in Int
          /\ \A i \in 1 .. Len(pool) - 1 : pool[i] \in Sessions
      BY <1>1, <2>1, ElementOfSeq
    <3> DEFINE n == Len(pool) - 1
    <3>2. /\ SubSeq(pool, 1, n) \in Seq(Sessions)
          /\ Len(SubSeq(pool, 1, n)) = IF 1 <= n THEN n - 1 + 1 ELSE 0
          /\ \A i \in 1 .. n - 1 + 1 : SubSeq(pool, 1, n)[i] = pool[1 + i - 1]
      <4> HIDE DEF n
      <4> QED
        BY <3>1, SubSeqProperties DEF n
    <3>3. n \in Nat /\ n = Len(pool) - 1
      BY <1>1, <2>1
    <3>4. pool' = SubSeq(pool, 1, n)
      BY <2>2
    <3> HIDE DEF n
    <3>5. pool' \in Seq(Sessions) /\ Len(pool') = n
      BY <3>2, <3>3, <3>4
    <3>6. ASSUME NEW i \in 1 .. n PROVE pool'[i] = pool[i]
      <4>1. i \in 1 .. n - 1 + 1 /\ 1 + i - 1 = i
        BY <3>3
      <4> QED
        BY <3>2, <3>4, <4>1, Zenon
    <3> QED
      BY <3>3, <3>5, <3>6
  <2> QED
    BY <2>1, <2>2, <2>3
<1>3. CASE pool = <<>>
  BY <1>1, <1>3 DEF GetEmptySession
<1> QED
  BY <1>2, <1>3

\* Recv: only recvs can change.
LEMMA RecvStep ==
  ASSUME TypeOK, NEW s \in Sessions, Recv(s)
  PROVE  /\ recvs' \in [Sessions -> [Conns -> Nat]]
         /\ \A t \in Sessions, c \in Conns :
              recvs'[t][c] = recvs[t][c] \/ (t = s /\ recvs'[t][c] = recvs[t][c] + 1)
         /\ "recv" \notin Faults /\ sock[s] # 0 => recvs'[s][sock[s]] > 0
<1>1. recvs \in [Sessions -> [Conns -> Nat]] /\ sock \in [Sessions -> OptConns]
  BY DEF TypeOK
<1>2. CASE sock[s] # 0 /\ recvs' = [recvs EXCEPT ![s][sock[s]] = @ + 1]
  <2>1. sock[s] \in Conns
    BY <1>1, <1>2, BoundAssumption DEF Conns, OptConns
  <2> QED
    BY <1>1, <1>2, <2>1
<1>3. CASE (sock[s] = 0 \/ "recv" \in Faults) /\ UNCHANGED recvs
  BY <1>1, <1>3
<1> QED
  BY <1>2, <1>3 DEF Recv

\* A completion taken from the port.
LEMMA TakeRecv ==
  ASSUME TypeOK, NEW s \in Sessions, NEW c \in Conns, recvs[s][c] > 0,
         recvs' = [recvs EXCEPT ![s][c] = @ - 1]
  PROVE  /\ recvs' \in [Sessions -> [Conns -> Nat]]
         /\ \A t \in Sessions, d \in Conns :
              recvs'[t][d] = (IF t = s /\ d = c THEN recvs[t][d] - 1 ELSE recvs[t][d])
BY DEF TypeOK

-----------------------------------------------------------------------------
\* Every step keeps the types.  The labels a step goes to and the objects a
\* worker holds are checked by the lemmas on Goto, Jump and Disconnect.
LEMMA TypeStep == TypeOK /\ [Next]_vars => TypeOK'
<1> SUFFICES ASSUME TypeOK, [Next]_vars PROVE TypeOK'
  OBVIOUS
<1> USE BoundAssumption
<1>0. CASE UNCHANGED vars
  BY <1>0 DEF TypeOK, vars, sessionVars, poolVars, activeVars, netVars
<1>1. ASSUME NEW w \in Workers, AcceptCompleted(w) PROVE TypeOK'
  <2>1. PICK s \in Sessions, label \in {"attach", "giveback"} :
          /\ GetEmptySession(s)
          /\ local' = [local EXCEPT ![w] = At(label, s, conns + 1, "idle")]
    BY <1>1 DEF AcceptCompleted
  <2>2. slots' \in Nat /\ conns' \in OptConns /\ conns + 1 \in OptConns
    BY <1>1 DEF AcceptCompleted, TypeOK, OptConns
  <2>3. At(label, s, conns + 1, "idle") \in Locals
    BY <2>2 DEF At, Locals, PCs, AcceptPCs, OptConns
  <2>4. At(label, s, conns + 1, "idle").s # NoSession
    BY NoSessionAssumption DEF At
  <2>5. /\ local' \in [Workers -> Locals]
        /\ \A v \in Workers : local'[v].pc \notin {"idle", "refill"}
                                => local'[v].s # NoSession
    BY <2>1, <2>3, <2>4, JumpStep
  <2>6. pool' \in Seq(Sessions) /\ made' \subseteq Sessions
    BY <2>1, GetStep DEF TypeOK
  <2> QED
    BY <1>1, <2>2, <2>5, <2>6
       DEF TypeOK, AcceptCompleted, sessionVars, activeVars
<1>2. ASSUME NEW w \in Workers, AcceptRefused(w) PROVE TypeOK'
  <2>1. Goto(w, "refill") /\ "refill" \in PCs /\ slots' \in Nat
    BY <1>2 DEF AcceptRefused, PCs, TypeOK
  <2> QED
    BY <1>2, <2>1, GotoStep
       DEF TypeOK, AcceptRefused, sessionVars, poolVars, activeVars
<1>3. ASSUME NEW w \in Workers, GiveBack(w) PROVE TypeOK'
  <2>1. local[w].s \in Sessions /\ "refill" \in PCs
    BY <1>3 DEF GiveBack, TypeOK, Locals, PCs
  <2> QED
    BY <1>3, <2>1, GotoStep, ReleaseStep
       DEF TypeOK, GiveBack, activeVars, netVars
<1>4. ASSUME NEW w \in Workers, SetAcceptedSocket(w) PROVE TypeOK'
  <2>1. local[w].s \in Sessions \ {NoSession} /\ local[w].c \in OptConns
        /\ "accepted" \in PCs
    BY <1>4 DEF SetAcceptedSocket, TypeOK, Locals, PCs, AcceptPCs
  <2>2. sock' \in [Sessions -> OptConns]
    BY <1>4, <2>1 DEF SetAcceptedSocket, TypeOK
  <2> QED
    BY <1>4, <2>1, <2>2, GotoStep
       DEF TypeOK, SetAcceptedSocket, poolVars, activeVars, netVars
<1>5. ASSUME NEW w \in Workers, OnAccepted(w) PROVE TypeOK'
  <2>1. local[w].s \in Sessions \ {NoSession} /\ "enlist" \in PCs
    BY <1>5 DEF OnAccepted, TypeOK, Locals, PCs, AcceptPCs
  <2>2. disconnected \in [Sessions -> BOOLEAN]
        /\ disconnected' = [disconnected EXCEPT ![local[w].s] = FALSE]
    BY <1>5 DEF OnAccepted, TypeOK
  <2>3. disconnected' \in [Sessions -> BOOLEAN]
    BY <2>2, Zenon
  <2> QED
    BY <1>5, <2>1, <2>3, GotoStep
       DEF TypeOK, OnAccepted, poolVars, activeVars, netVars
<1>6. ASSUME NEW w \in Workers, RegisterActive(w) PROVE TypeOK'
  <2>0. local[w].s \in Sessions \ {NoSession} /\ local[w] \in Locals
    BY <1>6 DEF RegisterActive, TypeOK, Locals
  <2>1. local[w].s \in Sessions \ {NoSession} /\ local[w] \in Locals
        /\ nextToken \in Tokens /\ nextToken \in OptConns
    BY <1>6, <2>0 DEF RegisterActive, TypeOK, Tokens, OptConns
  <2>2. /\ active' \in [Tokens -> Sessions \cup {NoSession}]
        /\ nextToken' \in 1 .. MaxConns + 1 /\ known' \subseteq Sessions
    BY <1>6, <2>1 DEF RegisterActive, TypeOK, Tokens
  <2> DEFINE r == [local[w] EXCEPT !.pc = "assign", !.tok = nextToken]
  <2>3. local' = [local EXCEPT ![w] = r]
    BY <1>6 DEF RegisterActive, TypeOK
  <2>4. r \in Locals /\ r.s = local[w].s
    BY <2>1 DEF Locals, PCs, AcceptPCs
  <2> HIDE DEF r
  <2>5. /\ local' \in [Workers -> Locals]
        /\ \A v \in Workers : local'[v].pc \notin {"idle", "refill"}
                                => local'[v].s # NoSession
    BY <2>1, <2>3, <2>4, JumpStep
  <2> QED
    BY <1>6, <2>2, <2>5 DEF TypeOK, RegisterActive, sessionVars, poolVars, netVars
<1>7. ASSUME NEW w \in Workers, AssignId(w) PROVE TypeOK'
  <2>1. local[w].s \in Sessions \ {NoSession} /\ local[w].tok \in OptConns
        /\ "recv" \in PCs
    BY <1>7 DEF AssignId, TypeOK, Locals, PCs, AcceptPCs
  <2>2. id' \in [Sessions -> OptConns]
    BY <1>7, <2>1 DEF AssignId, TypeOK
  <2> QED
    BY <1>7, <2>1, <2>2, GotoStep
       DEF TypeOK, AssignId, poolVars, activeVars, netVars
<1>8. ASSUME NEW w \in Workers, FirstRecv(w) \/ Rearm(w) PROVE TypeOK'
  <2>1. local[w].s \in Sessions /\ "refill" \in PCs /\ "idle" \in PCs
    BY <1>8 DEF FirstRecv, Rearm, TypeOK, Locals, PCs
  <2>2. /\ local' \in [Workers -> Locals]
        /\ \A v \in Workers : local'[v].pc \notin {"idle", "refill"}
                                => local'[v].s # NoSession
    BY <1>8, <2>1, GotoStep DEF FirstRecv, Rearm
  <2>3. recvs' \in [Sessions -> [Conns -> Nat]]
    BY <1>8, <2>1, RecvStep DEF FirstRecv, Rearm
  <2> QED
    BY <1>8, <2>2, <2>3
       DEF TypeOK, FirstRecv, Rearm, sessionVars, poolVars, activeVars
<1>9. ASSUME NEW w \in Workers, PostAccept(w) PROVE TypeOK'
  <2>1. Goto(w, "idle") /\ "idle" \in PCs /\ slots' \in Nat
    BY <1>9 DEF PostAccept, PCs, TypeOK
  <2> QED
    BY <1>9, <2>1, GotoStep
       DEF TypeOK, PostAccept, sessionVars, poolVars, activeVars
<1>10. ASSUME NEW w \in Workers, Close(w) PROVE TypeOK'
  <2>1. local[w].s \in Sessions \ {NoSession} /\ "unregister" \in PCs
    BY <1>10 DEF Close, TypeOK, Locals, PCs, ClosePCs
  <2>2. sock' \in [Sessions -> OptConns]
    BY <1>10, <2>1 DEF Close, TypeOK, OptConns
  <2> QED
    BY <1>10, <2>1, <2>2, GotoStep
       DEF TypeOK, Close, poolVars, activeVars, netVars
<1>11. ASSUME NEW w \in Workers, UnregisterActive(w) PROVE TypeOK'
  <2>1. local[w].s \in Sessions \ {NoSession} /\ "return" \in PCs
    BY <1>11 DEF UnregisterActive, TypeOK, Locals, PCs, ClosePCs
  <2>2. active' \in [Tokens -> Sessions \cup {NoSession}]
    BY <1>11 DEF UnregisterActive, TypeOK
  <2> QED
    BY <1>11, <2>1, <2>2, GotoStep
       DEF TypeOK, UnregisterActive, sessionVars, poolVars, netVars
<1>12. ASSUME NEW w \in Workers, Release(w) PROVE TypeOK'
  <2>1. local[w].s \in Sessions \ {NoSession} /\ local[w].back \in PCs
    BY <1>12 DEF Release, TypeOK, Locals, PCs
  <2> QED
    BY <1>12, <2>1, GotoStep, ReleaseStep
       DEF TypeOK, Release, activeVars, netVars
<1>13. ASSUME NEW w \in Workers, NEW s \in Sessions, NEW c \in Conns,
              RecvEnded(w, s, c)
       PROVE  TypeOK'
  <2>1. c \in OptConns /\ "idle" \in {"idle", "rearm"}
    BY DEF Conns, OptConns
  <2> QED
    BY <1>13, <2>1, DisconnectStep, TakeRecv
       DEF TypeOK, RecvEnded, poolVars, activeVars
<1>14. ASSUME NEW w \in Workers, NEW s \in Sessions, NEW c \in Conns,
              RecvCompleted(w, s, c)
       PROVE  TypeOK'
  <2>1. c \in OptConns /\ s # NoSession
    BY NoSessionAssumption DEF Conns, OptConns
  <2>2. recvs' \in [Sessions -> [Conns -> Nat]] /\ stuck' \subseteq Sessions
    BY <1>14, TakeRecv DEF RecvCompleted, TypeOK
  <2>3. /\ disconnected' \in [Sessions -> BOOLEAN]
        /\ local' \in [Workers -> Locals]
        /\ \A v \in Workers : local'[v].pc \notin {"idle", "refill"}
                                => local'[v].s # NoSession
    <3>1. CASE TryDisconnect(w, s, c, "idle") \/ TryDisconnect(w, s, c, "rearm")
      BY <2>1, <3>1, DisconnectStep
    <3>2. CASE /\ local' = [local EXCEPT ![w] = At("rearm", s, c, "idle")]
               /\ UNCHANGED <<disconnected, stuck>>
      <4>1. At("rearm", s, c, "idle") \in Locals
            /\ At("rearm", s, c, "idle").s # NoSession
        BY <2>1 DEF At, Locals, PCs, OptConns
      <4> QED
        BY <3>2, <4>1, JumpStep DEF TypeOK
    <3> QED
      BY <1>14, <3>1, <3>2 DEF RecvCompleted
  <2> QED
    BY <1>14, <2>2, <2>3 DEF TypeOK, RecvCompleted, poolVars, activeVars
<1>15. ASSUME NEW w \in Workers, NEW s \in Sessions, SendFailed(w, s)
       PROVE  TypeOK'
  <2>1. sock[s] \in OptConns
    BY DEF TypeOK
  <2> QED
    BY <1>15, <2>1, DisconnectStep
       DEF TypeOK, SendFailed, poolVars, activeVars, netVars
<1>16. ASSUME NEW c \in Conns, PeerLeaves(c) PROVE TypeOK'
  BY <1>16 DEF TypeOK, PeerLeaves, sessionVars, poolVars, activeVars
<1> QED
  BY <1>0, <1>1, <1>2, <1>3, <1>4, <1>5, <1>6, <1>7, <1>8, <1>9, <1>10, <1>11,
     <1>12, <1>13, <1>14, <1>15, <1>16 DEF Next, AcceptStep, CloseStep

-----------------------------------------------------------------------------
\* Worker w owns object s.
Owns(w, s) == local[w].pc \in Owning /\ local[w].s = s

\* An object is once in the pool or with one owner, and then it was made.
Placed ==
  /\ \A i, j \in 1 .. Len(pool) : pool[i] = pool[j] => i = j
  /\ \A s \in Sessions : InPool(s) => s \in made
  /\ \A s \in Sessions, w \in Workers : Owns(w, s) => s \in made /\ ~InPool(s)
  /\ \A s \in Sessions, v, w \in Workers : Owns(v, s) /\ Owns(w, s) => v = w

\* OnAccepted has run for object s: from now on anybody may disconnect it.
Opened(s) == \/ s \in known
             \/ \E w \in Workers : local[w].pc = "enlist" /\ local[w].s = s

KnowingPCs == {"assign", "recv", "rearm"} \cup ClosePCs

\* For an object once opened, m_bDisconnected is up exactly while it is in the
\* pool or owned, so the compare-exchange of Disconnect passes for objects in
\* use only.  Only such objects have receives outstanding.
Flags ==
  /\ \A s \in Sessions :
       Opened(s) => /\ s \in made
                    /\ InPool(s) => disconnected[s]
                    /\ \A w \in Workers : Owns(w, s) => disconnected[s]
  /\ \A s \in made : disconnected[s] => InPool(s) \/ \E w \in Workers : Owns(w, s)
  /\ \A w \in Workers : local[w].pc \in KnowingPCs => local[w].s \in known
  /\ \A s \in Sessions, c \in Conns : recvs[s][c] > 0 => s \in known

PlaceInv == TypeOK /\ Placed /\ Flags

\* All objects start in the pool.
LEMMA InitPlace == Init => PlaceInv
<1> SUFFICES ASSUME Init PROVE PlaceInv
  OBVIOUS
<1> USE BoundAssumption
<1>0. PICK s0 \in Sessions : pool = <<s0>> /\ made = {s0}
  BY DEF Init
<1>1. TypeOK
  <2>1. pool \in Seq(Sessions) /\ made \subseteq Sessions
    BY <1>0
  <2>2. disconnected \in [Sessions -> BOOLEAN]
    BY Zenon DEF Init
  <2>3. local \in [Workers -> Locals]
    BY DEF Init, Idle, At, Locals, PCs, OptConns
  <2>4. \A w \in Workers : local[w].pc = "idle"
    BY DEF Init, Idle, At
  <2>5. /\ sock \in [Sessions -> OptConns] /\ id \in [Sessions -> OptConns]
        /\ active \in [Tokens -> Sessions \cup {NoSession}]
        /\ nextToken \in 1 .. MaxConns + 1
        /\ known \subseteq Sessions /\ stuck \subseteq Sessions
        /\ recvs \in [Sessions -> [Conns -> Nat]]
        /\ slots \in Nat /\ conns \in OptConns /\ gone \subseteq Conns
    BY DEF Init, OptConns
  <2> QED
    BY <2>1, <2>2, <2>3, <2>4, <2>5 DEF TypeOK
<1>2. \A w \in Workers : local[w].pc = "idle"
  BY DEF Init, Idle, At
<1>3. Len(pool) = 1 /\ pool[1] = s0 /\ \A s \in Sessions : InPool(s) <=> s = s0
  BY <1>0 DEF InPool
<1>4. Placed
  BY <1>0, <1>2, <1>3 DEF Placed, Owns, Owning, ClosePCs
<1>5. Flags
  <2>1. \A s \in Sessions : ~disconnected[s] /\ ~Opened(s)
    BY <1>2 DEF Init, Opened
  <2>2. \A s \in Sessions, c \in Conns : ~(recvs[s][c] > 0)
    BY DEF Init
  <2>3. \A w \in Workers : local[w].pc \notin KnowingPCs
    BY <1>2 DEF KnowingPCs, ClosePCs
  <2> QED
    BY <1>0, <2>1, <2>2, <2>3 DEF Flags
<1> QED
  BY <1>1, <1>4, <1>5 DEF PlaceInv

\* Steps that move no object between pool, owners and use.
LEMMA Quiet ==
  ASSUME PlaceInv, UNCHANGED <<pool, made, disconnected>>,
         \A v \in Workers, s \in Sessions : Owns(v, s)' <=> Owns(v, s),
         \A s \in Sessions : Opened(s)' => Opened(s),
         \A v \in Workers : local'[v].pc \in KnowingPCs => local'[v].s \in known',
         \A s \in Sessions, c \in Conns : recvs'[s][c] > 0 => s \in known'
  PROVE  Placed' /\ Flags'
<1>1. \A s \in Sessions : InPool(s)' <=> InPool(s)
  BY DEF InPool
<1>2. Placed'
  BY <1>1 DEF PlaceInv, Placed
<1>3. Flags'
  <2>1. \A s \in Sessions :
          Opened(s)' => /\ s \in made
                        /\ InPool(s) => disconnected[s]
                        /\ \A w \in Workers : Owns(w, s) => disconnected[s]
    BY DEF PlaceInv, Flags
  <2>2. \A s \in Sessions :
          Opened(s)' => /\ s \in made'
                        /\ InPool(s)' => disconnected'[s]
                        /\ \A w \in Workers : Owns(w, s)' => disconnected'[s]
    BY <1>1, <2>1, Zenon
  <2>3. \A s \in made : disconnected[s] => InPool(s) \/ \E w \in Workers : Owns(w, s)
    BY DEF PlaceInv, Flags
  <2>4. made \subseteq Sessions
    BY DEF PlaceInv, TypeOK
  <2>5. \A s \in made' : disconnected'[s] =>
          InPool(s)' \/ \E w \in Workers : Owns(w, s)'
    BY <1>1, <2>3, <2>4, Zenon
  <2> QED
    BY <2>2, <2>5, Zenon DEF Flags
<1> QED
  BY <1>2, <1>3

\* A worker that takes another step on an object it owns, or none.
LEMMA Pass ==
  ASSUME PlaceInv, UNCHANGED <<pool, made, disconnected, recvs>>,
         known \subseteq known', NEW w \in Workers,
         \A v \in Workers : v # w => local'[v] = local[v],
         local'[w].pc \in Owning <=> local[w].pc \in Owning,
         local[w].pc \in Owning => local'[w].s = local[w].s,
         local'[w].pc # "enlist",
         \A s \in known' \ known : local[w].pc = "enlist" /\ local[w].s = s,
         local'[w].pc \in KnowingPCs => local'[w].s \in known'
  PROVE  Placed' /\ Flags'
<1>1. \A v \in Workers, s \in Sessions : Owns(v, s)' <=> Owns(v, s)
  BY DEF Owns
<1>2. \A s \in Sessions : Opened(s)' => Opened(s)
  BY DEF Opened
<1>3. \A v \in Workers : local'[v].pc \in KnowingPCs => local'[v].s \in known'
  BY DEF PlaceInv, Flags
<1>4. \A s \in Sessions, c \in Conns : recvs'[s][c] > 0 => s \in known'
  BY DEF PlaceInv, Flags
<1> QED
  BY <1>1, <1>2, <1>3, <1>4, Quiet

\* AcceptCompleted: an object leaves the pool, or is made, and has an owner.
LEMMA PlaceTake ==
  ASSUME PlaceInv, NEW w \in Workers, AcceptCompleted(w)
  PROVE  Placed' /\ Flags'
<1>1. PICK s \in Sessions, label \in {"attach", "giveback"} :
        /\ GetEmptySession(s)
        /\ local' = [local EXCEPT ![w] = At(label, s, conns + 1, "idle")]
  BY DEF AcceptCompleted
<1>2. /\ local'[w].pc = label /\ local'[w].s = s /\ local[w].pc = "idle"
      /\ \A v \in Workers : v # w => local'[v] = local[v]
  BY <1>1 DEF PlaceInv, TypeOK, At, AcceptCompleted
<1>3. UNCHANGED <<disconnected, known, recvs>>
  BY DEF AcceptCompleted, sessionVars, activeVars
<1>4. \A v \in Workers, t \in Sessions :
        Owns(v, t)' <=> (Owns(v, t) \/ (v = w /\ t = s))
  BY <1>2 DEF Owns, Owning, ClosePCs
<1>6. /\ \A t \in Sessions : InPool(t)' <=> (InPool(t) /\ t # s)
      /\ \A i, j \in 1 .. Len(pool') : pool'[i] = pool'[j] => i = j
      /\ made' = made \cup {s}
      /\ InPool(s) \/ s \notin made
  <2>1. Len(pool) \in Nat /\ \A i, j \in 1 .. Len(pool) : pool[i] = pool[j] => i = j
    BY DEF PlaceInv, TypeOK, Placed
  <2>2. CASE pool' = pool /\ s \notin made /\ made' = made \cup {s}
    <3>1. ~InPool(s)
      BY <2>2 DEF PlaceInv, Placed
    <3> QED
      BY <2>1, <2>2, <3>1 DEF InPool
  <2>3. CASE /\ Len(pool) > 0 /\ Len(pool') = Len(pool) - 1 /\ made' = made
             /\ s = pool[Len(pool)]
             /\ \A i \in 1 .. Len(pool') : pool'[i] = pool[i]
    <3>1. InPool(s) /\ made' = made \cup {s}
      BY <2>1, <2>3 DEF InPool, PlaceInv, Placed
    <3>2. \A t \in Sessions : InPool(t)' <=> (InPool(t) /\ t # s)
      BY <2>1, <2>3 DEF InPool
    <3> QED
      BY <2>1, <2>3, <3>1, <3>2
  <2> QED
    BY <1>1, <2>2, <2>3, GetStep DEF PlaceInv
<1>5. \A v \in Workers : ~Owns(v, s)
  BY <1>6 DEF PlaceInv, Placed
<1>7. Placed'
  BY <1>4, <1>5, <1>6 DEF PlaceInv, Placed
<1>8. Flags'
  <2>1. \A t \in Sessions : Opened(t)' <=> Opened(t)
    BY <1>2, <1>3 DEF Opened
  <2>2. \A t \in Sessions : Opened(t) =>
          t \in made /\ (InPool(t) => disconnected[t])
          /\ \A v \in Workers : Owns(v, t) => disconnected[t]
    BY DEF PlaceInv, Flags
  <2>3. \A t \in Sessions : Opened(t)' =>
          t \in made' /\ (InPool(t)' => disconnected'[t])
          /\ \A v \in Workers : Owns(v, t)' => disconnected'[t]
    BY <1>3, <1>4, <1>6, <2>1, <2>2, Zenon
  <2>4. made \subseteq Sessions
    BY DEF PlaceInv, TypeOK
  <2>5. \A t \in made' : disconnected'[t] =>
          InPool(t)' \/ \E v \in Workers : Owns(v, t)'
    <3>1. \A t \in made : disconnected[t] => InPool(t) \/ \E v \in Workers : Owns(v, t)
      BY DEF PlaceInv, Flags
    <3> QED
      BY <1>3, <1>4, <1>6, <2>4, <3>1, Zenon
  <2>6. \A v \in Workers : local'[v].pc \in KnowingPCs => local'[v].s \in known'
    BY <1>2, <1>3 DEF PlaceInv, Flags, KnowingPCs, ClosePCs
  <2>7. \A t \in Sessions, c \in Conns : recvs'[t][c] > 0 => t \in known'
    BY <1>3 DEF PlaceInv, Flags
  <2> QED
    BY <2>3, <2>5, <2>6, <2>7, Zenon DEF Flags
<1> QED
  BY <1>7, <1>8

\* Release and the error path of OnAcceptCompleted: the owner gives the object
\* to the pool.
LEMMA PlacePut ==
  ASSUME PlaceInv, NEW w \in Workers, GiveBack(w) \/ Release(w)
  PROVE  Placed' /\ Flags'
<1> DEFINE s == local[w].s
<1>1. /\ s \in Sessions /\ s # NoSession
      /\ local[w].back \in PCs /\ "refill" \in PCs
      /\ local[w].back \in {"idle", "rearm"}
  BY DEF PlaceInv, TypeOK, Locals, GiveBack, Release, PCs
<1>2. ReleaseSession(s) /\ UNCHANGED <<made, disconnected, known, recvs>>
  BY DEF GiveBack, Release, activeVars, netVars
<1>3. /\ \A v \in Workers : v # w => local'[v] = local[v]
      /\ local'[w].pc \in {"refill", "idle", "rearm"}
      /\ local'[w].pc = "rearm" => local[w].pc = "return" /\ local'[w].s = s
  BY <1>1, GotoStep DEF PlaceInv, GiveBack, Release
<1>4. Owns(w, s)
  BY DEF Owns, Owning, ClosePCs, GiveBack, Release
<1>5. \A v \in Workers, t \in Sessions : Owns(v, t)' <=> (Owns(v, t) /\ v # w)
  BY <1>3 DEF Owns, Owning, ClosePCs
<1>6. s \in made /\ ~InPool(s) /\ \A v \in Workers : Owns(v, s) => v = w
  BY <1>1, <1>4 DEF PlaceInv, Placed
<1>7. \A t \in Sessions : InPool(t)' <=> (InPool(t) \/ t = s)
  BY <1>1, <1>2, ReleaseStep DEF PlaceInv
<1>8. \A t \in Sessions : t # s => ~Owns(w, t)
  BY DEF Owns
<1>9. Placed'
  <2>1. ASSUME NEW i \in 1 .. Len(pool'), NEW j \in 1 .. Len(pool'),
               pool'[i] = pool'[j]
        PROVE  i = j
    <3>1. /\ Len(pool) \in Nat /\ Len(pool') = Len(pool) + 1
          /\ \A k \in 1 .. Len(pool) : pool'[k] = pool[k]
          /\ pool'[Len(pool) + 1] = s
      BY <1>1, <1>2, ReleaseStep DEF PlaceInv, TypeOK
    <3>2. \A k \in 1 .. Len(pool) : pool[k] # s
      BY <1>6 DEF InPool
    <3>3. \A k, l \in 1 .. Len(pool) : pool[k] = pool[l] => k = l
      BY DEF PlaceInv, Placed
    <3> HIDE DEF s
    <3> QED
      BY <2>1, <3>1, <3>2, <3>3
  <2> HIDE DEF s
  <2> QED
    BY <1>2, <1>5, <1>6, <1>7, <2>1 DEF PlaceInv, Placed
<1>10. Flags'
  <2>1. \A t \in Sessions : Opened(t)' => Opened(t)
    BY <1>2, <1>3 DEF Opened
  <2>2. \A t \in Sessions : Opened(t) =>
          t \in made /\ (InPool(t) => disconnected[t])
          /\ \A v \in Workers : Owns(v, t) => disconnected[t]
    BY DEF PlaceInv, Flags
  <2>3. \A t \in Sessions : Opened(t)' =>
          t \in made' /\ (InPool(t)' => disconnected'[t])
          /\ \A v \in Workers : Owns(v, t)' => disconnected'[t]
    BY <1>1, <1>2, <1>4, <1>5, <1>7, <2>1, <2>2, Zenon
  <2>4. made \subseteq Sessions
    BY DEF PlaceInv, TypeOK
  <2>5. \A t \in made' : disconnected'[t] =>
          InPool(t)' \/ \E v \in Workers : Owns(v, t)'
    <3>1. \A t \in made : disconnected[t] => InPool(t) \/ \E v \in Workers : Owns(v, t)
      BY DEF PlaceInv, Flags
    <3> QED
      BY <1>2, <1>5, <1>7, <1>8, <2>4, <3>1, Zenon
  <2>6. \A v \in Workers : local'[v].pc \in KnowingPCs => local'[v].s \in known'
    BY <1>2, <1>3 DEF PlaceInv, Flags, KnowingPCs, ClosePCs
  <2>7. \A t \in Sessions, c \in Conns : recvs'[t][c] > 0 => t \in known'
    BY <1>2 DEF PlaceInv, Flags
  <2> QED
    BY <2>3, <2>5, <2>6, <2>7, Zenon DEF Flags
<1> QED
  BY <1>9, <1>10

\* OnAccepted: the object is in use.
LEMMA PlaceOpen ==
  ASSUME PlaceInv, NEW w \in Workers, OnAccepted(w)
  PROVE  Placed' /\ Flags'
<1> DEFINE s == local[w].s
<1>1. s \in Sessions /\ s # NoSession /\ "enlist" \in PCs
  BY DEF PlaceInv, TypeOK, Locals, OnAccepted, PCs, AcceptPCs
<1>2. /\ UNCHANGED <<pool, made, known, recvs>>
      /\ disconnected \in [Sessions -> BOOLEAN]
      /\ disconnected' = [disconnected EXCEPT ![s] = FALSE]
  BY DEF OnAccepted, poolVars, activeVars, netVars, PlaceInv, TypeOK
<1>3. /\ \A v \in Workers : v # w => local'[v] = local[v]
      /\ local'[w].pc = "enlist" /\ local'[w].s = s
  BY <1>1, GotoStep DEF PlaceInv, OnAccepted
<1>4. Owns(w, s)
  BY DEF Owns, Owning, OnAccepted
<1>5. \A v \in Workers, t \in Sessions : Owns(v, t)' <=> (Owns(v, t) /\ v # w)
  BY <1>3 DEF Owns, Owning, ClosePCs
<1>6. s \in made /\ ~InPool(s) /\ \A v \in Workers : Owns(v, s) => v = w
  BY <1>1, <1>4 DEF PlaceInv, Placed
<1>7. \A t \in Sessions : InPool(t)' <=> InPool(t)
  BY <1>2 DEF InPool
<1>8. ~disconnected'[s] /\ \A t \in Sessions : t # s => disconnected'[t] = disconnected[t]
  BY <1>1, <1>2, Zenon
<1>9. \A t \in Sessions : t # s => ~Owns(w, t)
  BY DEF Owns
<1> HIDE DEF s
<1>10. Placed'
  BY <1>2, <1>5, <1>7 DEF PlaceInv, Placed
<1>11. Flags'
  <2>1. \A t \in Sessions : Opened(t)' => Opened(t) \/ t = s
    BY <1>2, <1>3 DEF Opened
  <2>2. \A t \in Sessions : Opened(t) =>
          t \in made /\ (InPool(t) => disconnected[t])
          /\ \A v \in Workers : Owns(v, t) => disconnected[t]
    BY DEF PlaceInv, Flags
  <2>3. \A t \in Sessions : Opened(t)' =>
          t \in made' /\ (InPool(t)' => disconnected'[t])
          /\ \A v \in Workers : Owns(v, t)' => disconnected'[t]
    BY <1>1, <1>2, <1>5, <1>6, <1>7, <1>8, <2>1, <2>2, Zenon
  <2>4. made \subseteq Sessions
    BY DEF PlaceInv, TypeOK
  <2>5. \A t \in made' : disconnected'[t] =>
          InPool(t)' \/ \E v \in Workers : Owns(v, t)'
    <3>1. \A t \in made : disconnected[t] => InPool(t) \/ \E v \in Workers : Owns(v, t)
      BY DEF PlaceInv, Flags
    <3> QED
      BY <1>2, <1>5, <1>7, <1>8, <1>9, <2>4, <3>1, Zenon
  <2>6. \A v \in Workers : local'[v].pc \in KnowingPCs => local'[v].s \in known'
    BY <1>2, <1>3 DEF PlaceInv, Flags, KnowingPCs, ClosePCs
  <2>7. \A t \in Sessions, c \in Conns : recvs'[t][c] > 0 => t \in known'
    BY <1>2 DEF PlaceInv, Flags
  <2> QED
    BY <2>3, <2>5, <2>6, <2>7, Zenon DEF Flags
<1> QED
  BY <1>10, <1>11

\* Disconnect on an object that was registered once: the caller owns it, or
\* somebody else does and nothing happens.
LEMMA PlaceClaim ==
  ASSUME PlaceInv, NEW w \in Workers, NEW s \in Sessions, NEW c \in OptConns,
         NEW back \in {"idle", "rearm"}, TryDisconnect(w, s, c, back),
         local[w].pc = "idle", s \in known, UNCHANGED <<pool, made, known>>,
         \A t \in Sessions, d \in Conns : recvs'[t][d] > 0 => t \in known
  PROVE  Placed' /\ Flags'
<1>0. TypeOK
  BY DEF PlaceInv
<1>3. /\ \A v \in Workers : v # w => local'[v] = local[v]
      /\ \/ /\ disconnected[s] /\ UNCHANGED disconnected
            /\ local'[w].pc = back
            /\ back = "rearm" => local'[w].s = s
         \/ /\ ~disconnected[s]
            /\ disconnected' = [disconnected EXCEPT ![s] = TRUE]
            /\ local'[w].pc = "close" /\ local'[w].s = s
            /\ local'[w].c = c /\ local'[w].back = back
  BY <1>0, DisconnectStep
<1>1. CASE disconnected[s]
  <2>1. /\ UNCHANGED disconnected
        /\ local'[w].pc = back /\ (back = "rearm" => local'[w].s = s)
        /\ \A v \in Workers : v # w => local'[v] = local[v]
    BY <1>1, <1>3, Zenon
  <2>2. \A v \in Workers, t \in Sessions : Owns(v, t)' <=> Owns(v, t)
    BY <2>1 DEF Owns, Owning, ClosePCs
  <2>3. \A t \in Sessions : Opened(t)' => Opened(t)
    BY <2>1 DEF Opened
  <2>4. \A v \in Workers : local'[v].pc \in KnowingPCs => local'[v].s \in known'
    BY <2>1 DEF PlaceInv, Flags, KnowingPCs, ClosePCs
  <2> QED
    BY <2>1, <2>2, <2>3, <2>4, Quiet
<1>2. CASE ~disconnected[s]
  <2>1. /\ disconnected' = [disconnected EXCEPT ![s] = TRUE]
        /\ local'[w].pc = "close" /\ local'[w].s = s
        /\ \A v \in Workers : v # w => local'[v] = local[v]
    BY <1>2, <1>3, Zenon
  <2>2. disconnected \in [Sessions -> BOOLEAN]
    BY <1>0 DEF TypeOK
  <2>3. disconnected'[s] /\ \A t \in Sessions : t # s => disconnected'[t] = disconnected[t]
    BY <2>1, <2>2, Zenon
  <2>4. \A v \in Workers, t \in Sessions :
          Owns(v, t)' <=> (Owns(v, t) \/ (v = w /\ t = s))
    BY <2>1 DEF Owns, Owning, ClosePCs
  <2>5. \A t \in Sessions : InPool(t)' <=> InPool(t)
    BY DEF InPool
  <2>6. \A t \in Sessions : Opened(t) =>
          t \in made /\ (InPool(t) => disconnected[t])
          /\ \A v \in Workers : Owns(v, t) => disconnected[t]
    BY DEF PlaceInv, Flags
  <2>7. s \in made /\ ~InPool(s) /\ \A v \in Workers : ~Owns(v, s)
    <3>1. Opened(s)
      BY DEF Opened
    <3> QED
      BY <1>2, <2>6, <3>1, Zenon
  <2>8. Placed'
    BY <2>4, <2>5, <2>7 DEF PlaceInv, Placed
  <2>9. Flags'
    <3>1. \A t \in Sessions : Opened(t)' => Opened(t)
      BY <2>1 DEF Opened
    <3>2. \A t \in Sessions : Opened(t)' =>
            t \in made' /\ (InPool(t)' => disconnected'[t])
            /\ \A v \in Workers : Owns(v, t)' => disconnected'[t]
      BY <2>3, <2>4, <2>5, <2>6, <3>1, Zenon
    <3>3. made \subseteq Sessions
      BY <1>0 DEF TypeOK
    <3>4. \A t \in made' : disconnected'[t] =>
            InPool(t)' \/ \E v \in Workers : Owns(v, t)'
      <4>1. \A t \in made : disconnected[t] => InPool(t) \/ \E v \in Workers : Owns(v, t)
        BY DEF PlaceInv, Flags
      <4> QED
        BY <2>3, <2>4, <2>5, <3>3, <4>1, Zenon
    <3>5. \A v \in Workers : local'[v].pc \in KnowingPCs => local'[v].s \in known'
      BY <2>1 DEF PlaceInv, Flags, KnowingPCs, ClosePCs
    <3> QED
      BY <3>2, <3>4, <3>5, Zenon DEF Flags
  <2> QED
    BY <2>8, <2>9
<1> QED
  BY <1>1, <1>2, Zenon

\* Every step keeps objects and flags in their places.
LEMMA PlaceStep == PlaceInv /\ [Next]_vars => PlaceInv'
<1> SUFFICES ASSUME PlaceInv, [Next]_vars PROVE Placed' /\ Flags'
  BY TypeStep DEF PlaceInv
<1>0. TypeOK
  BY DEF PlaceInv
<1>1. CASE UNCHANGED vars
  BY <1>1, Quiet DEF vars, sessionVars, poolVars, activeVars, netVars, PlaceInv, Flags, Owns, Opened
<1>2. ASSUME NEW w \in Workers, AcceptRefused(w) \/ PostAccept(w)
      PROVE  Placed' /\ Flags'
  <2>1. /\ local[w].pc \in {"idle", "refill"}
        /\ \E label \in {"refill", "idle"} : Goto(w, label)
        /\ {"refill", "idle"} \subseteq PCs
        /\ UNCHANGED <<pool, made, disconnected, known, recvs>>
    BY <1>2 DEF AcceptRefused, PostAccept, PCs, sessionVars, poolVars, activeVars
  <2>2. PICK label \in {"refill", "idle"} : Goto(w, label)
    BY <2>1
  <2>3. local'[w].pc = label /\ \A v \in Workers : v # w => local'[v] = local[v]
    BY <1>0, <2>1, <2>2, GotoStep
  <2> QED
    BY <2>1, <2>3, Pass DEF Owning, ClosePCs, KnowingPCs
<1>3. ASSUME NEW w \in Workers,
             SetAcceptedSocket(w) \/ Close(w) \/ UnregisterActive(w) \/ AssignId(w)
      PROVE  Placed' /\ Flags'
  <2>1. /\ UNCHANGED <<pool, made, disconnected, known, recvs>>
        /\ \/ local[w].pc = "attach" /\ Goto(w, "accepted")
           \/ local[w].pc = "close" /\ Goto(w, "unregister")
           \/ local[w].pc = "unregister" /\ Goto(w, "return")
           \/ local[w].pc = "assign" /\ Goto(w, "recv")
        /\ {"accepted", "unregister", "return", "recv"} \subseteq PCs
    BY <1>3 DEF SetAcceptedSocket, Close, UnregisterActive, AssignId, PCs,
                AcceptPCs, ClosePCs, sessionVars, poolVars, activeVars, netVars
  <2>2. local[w].s # NoSession
    BY <1>0, <2>1 DEF TypeOK
  <2>3. local[w].pc \in KnowingPCs => local[w].s \in known
    BY DEF PlaceInv, Flags
  <2>4. PICK label \in {"accepted", "unregister", "return", "recv"} :
          /\ Goto(w, label)
          /\ label = "accepted" => local[w].pc = "attach"
          /\ label = "unregister" => local[w].pc = "close"
          /\ label = "return" => local[w].pc = "unregister"
          /\ label = "recv" => local[w].pc = "assign"
    BY <2>1
  <2>5. /\ local'[w].pc = label /\ local'[w].s = local[w].s
        /\ \A v \in Workers : v # w => local'[v] = local[v]
    BY <1>0, <2>1, <2>2, <2>4, GotoStep
  <2> QED
    BY <2>1, <2>3, <2>4, <2>5, Pass DEF Owning, ClosePCs, KnowingPCs
<1>4. ASSUME NEW w \in Workers, RegisterActive(w) PROVE Placed' /\ Flags'
  <2>1. /\ UNCHANGED <<pool, made, disconnected, recvs>>
        /\ known' = known \cup {local[w].s}
        /\ local[w].pc = "enlist" /\ local[w] \in Locals
    BY <1>0, <1>4 DEF RegisterActive, TypeOK, sessionVars, poolVars, netVars
  <2>2. /\ local'[w].pc = "assign" /\ local'[w].s = local[w].s
        /\ \A v \in Workers : v # w => local'[v] = local[v]
    BY <1>0, <1>4, <2>1 DEF RegisterActive, TypeOK, Locals
  <2> QED
    BY <2>1, <2>2, Pass DEF Owning, ClosePCs, KnowingPCs
<1>5. ASSUME NEW w \in Workers, FirstRecv(w) \/ Rearm(w) PROVE Placed' /\ Flags'
  <2>1. /\ UNCHANGED <<pool, made, disconnected, known>>
        /\ local[w].pc \in {"recv", "rearm"}
        /\ Goto(w, "refill") \/ Goto(w, "idle")
        /\ "refill" \in PCs /\ "idle" \in PCs
        /\ Recv(local[w].s)
    BY <1>5 DEF FirstRecv, Rearm, PCs, sessionVars, poolVars, activeVars
  <2>2. local[w].s \in Sessions /\ local[w].s \in known
    BY <1>0, <2>1 DEF TypeOK, Locals, PlaceInv, Flags, KnowingPCs
  <2>3. /\ \A v \in Workers : v # w => local'[v] = local[v]
        /\ local'[w].pc \in {"refill", "idle"}
    BY <1>0, <2>1, GotoStep
  <2>4. \A v \in Workers, s \in Sessions : Owns(v, s)' <=> Owns(v, s)
    BY <2>1, <2>3 DEF Owns, Owning, ClosePCs
  <2>5. \A s \in Sessions : Opened(s)' => Opened(s)
    BY <2>1, <2>3 DEF Opened
  <2>6. \A v \in Workers : local'[v].pc \in KnowingPCs => local'[v].s \in known'
    BY <2>1, <2>3 DEF PlaceInv, Flags, KnowingPCs, ClosePCs
  <2>7. \A s \in Sessions, c \in Conns : recvs'[s][c] > 0 => s \in known'
    BY <1>0, <2>1, <2>2, RecvStep DEF PlaceInv, Flags
  <2> QED
    BY <2>1, <2>4, <2>5, <2>6, <2>7, Quiet
<1>6. ASSUME NEW w \in Workers, NEW s \in Sessions, NEW c \in Conns,
             RecvEnded(w, s, c) \/ RecvCompleted(w, s, c)
      PROVE  Placed' /\ Flags'
  <2>1. /\ UNCHANGED <<pool, made, known>>
        /\ local[w].pc = "idle" /\ recvs[s][c] > 0
        /\ recvs' = [recvs EXCEPT ![s][c] = @ - 1]
        /\ c \in OptConns
    BY <1>6 DEF RecvEnded, RecvCompleted, poolVars, activeVars, Conns, OptConns
  <2>2. s \in known
    BY <2>1 DEF PlaceInv, Flags
  <2>3. \A t \in Sessions, d \in Conns : recvs'[t][d] > 0 => t \in known
    BY <1>0, <2>1, <2>2, TakeRecv DEF PlaceInv, Flags
  <2>4. CASE TryDisconnect(w, s, c, "idle") \/ TryDisconnect(w, s, c, "rearm")
    BY <2>1, <2>2, <2>3, <2>4, PlaceClaim
  <2>5. CASE /\ local' = [local EXCEPT ![w] = At("rearm", s, c, "idle")]
             /\ UNCHANGED <<disconnected, stuck>>
    <3>1. /\ \A v \in Workers : v # w => local'[v] = local[v]
          /\ local'[w].pc = "rearm" /\ local'[w].s = s
      BY <1>0, <2>5 DEF TypeOK, At
    <3>2. \A v \in Workers, t \in Sessions : Owns(v, t)' <=> Owns(v, t)
      BY <2>1, <3>1 DEF Owns, Owning, ClosePCs
    <3>3. \A t \in Sessions : Opened(t)' => Opened(t)
      BY <2>1, <3>1 DEF Opened
    <3>4. \A v \in Workers : local'[v].pc \in KnowingPCs => local'[v].s \in known'
      BY <2>1, <2>2, <3>1 DEF PlaceInv, Flags
    <3> QED
      BY <2>1, <2>3, <2>5, <3>2, <3>3, <3>4, Quiet
  <2> QED
    BY <1>6, <2>4, <2>5 DEF RecvEnded, RecvCompleted
<1>7. ASSUME NEW w \in Workers, NEW s \in Sessions, SendFailed(w, s)
      PROVE  Placed' /\ Flags'
  <2>1. /\ UNCHANGED <<pool, made, known, recvs>>
        /\ local[w].pc = "idle" /\ s \in known
        /\ sock[s] \in OptConns
        /\ TryDisconnect(w, s, sock[s], "idle")
    BY <1>0, <1>7 DEF SendFailed, poolVars, activeVars, netVars, TypeOK
  <2>2. \A t \in Sessions, d \in Conns : recvs'[t][d] > 0 => t \in known
    BY <2>1 DEF PlaceInv, Flags
  <2> QED
    BY <2>1, <2>2, PlaceClaim
<1>8. ASSUME NEW c \in Conns, PeerLeaves(c) PROVE Placed' /\ Flags'
  <2>1. UNCHANGED <<pool, made, disconnected, known, recvs, local>>
    BY <1>8 DEF PeerLeaves, sessionVars, poolVars, activeVars
  <2> QED
    BY <2>1, Quiet DEF PlaceInv, Flags, Owns, Opened
<1> QED
  BY <1>1, <1>2, <1>3, <1>4, <1>5, <1>6, <1>7, <1>8, PlaceTake, PlacePut, PlaceOpen
     DEF Next, AcceptStep, CloseStep

\* Every object is in one place, whatever the workers do at the same time
\* (ServerCoreLibrary/SessionManager.cpp:14-91).
THEOREM PlaceInvariant == Spec => []PlaceInv
BY InitPlace, PlaceStep, PTL DEF Spec

\* Type correctness of every reachable state.
THEOREM TypeCorrect == Spec => []TypeOK
BY PlaceInvariant, PTL DEF PlaceInv

\* An object is once in the pool, or with one worker, or in use: the pool hands
\* it to one accept at a time, and Disconnect returns it once, whatever
\* completions and failing sends race with it.
THEOREM NoDoubleRelease == Spec => []OneOwner
<1>1. PlaceInv => OneOwner
  <2> SUFFICES ASSUME PlaceInv PROVE OneOwner
    OBVIOUS
  <2>1. \A s \in Sessions, w \in Workers : w \in Owners(s) <=> Owns(w, s)
    BY DEF Owners, Owns
  <2>2. \A s \in Sessions : Owners(s) \subseteq Workers
    BY DEF Owners
  <2>3. \A s \in Sessions : Live(s) => ~disconnected[s]
    <3>1. \A s \in made : disconnected[s] => InPool(s) \/ \E w \in Workers : Owns(w, s)
      BY DEF PlaceInv, Flags
    <3> QED
      BY <2>1, <3>1, Zenon DEF Live
  <2>4. /\ \A i, j \in 1 .. Len(pool) : pool[i] = pool[j] => i = j
        /\ \A s \in Sessions : /\ InPool(s) => s \in made /\ Owners(s) = {}
                               /\ \A v, w \in Owners(s) : v = w
                               /\ Owners(s) # {} => s \in made
    BY <2>1, <2>2 DEF PlaceInv, Placed
  <2> QED
    BY <2>3, <2>4, Zenon DEF OneOwner
<1> QED
  BY <1>1, PlaceInvariant, PTL

-----------------------------------------------------------------------------
\* Where sockets are: an object in the pool, or not yet given one, has none;
\* an object in use has one; a connection in the hands of the accept path is
\* on no object.
SockInv ==
  /\ \A s \in Sessions : InPool(s) \/ s \notin made => sock[s] = 0
  /\ \A w \in Workers : local[w].pc \in {"attach", "giveback", "unregister", "return"}
                          => sock[local[w].s] = 0
  /\ \A w \in Workers : local[w].pc = "attach" =>
       local[w].c \in 1 .. conns /\ \A s \in Sessions : sock[s] # local[w].c
  /\ \A v, w \in Workers : /\ local[v].pc = "attach" /\ local[w].pc = "attach"
                           /\ local[v].c = local[w].c
                           => v = w
  /\ \A w \in Workers : local[w].pc = "accepted" =>
       local[w].c # 0 /\ sock[local[w].s] = local[w].c
  /\ \A s \in Sessions : sock[s] <= conns
  /\ \A s, t \in Sessions : sock[s] = sock[t] /\ sock[s] # 0 => s = t
  /\ \A s \in made :
       InPool(s) \/ (\E w \in Workers : Owns(w, s)) \/ sock[s] # 0

FullInv == PlaceInv /\ SockInv

\* Steps that move no socket.
LEMMA SockQuiet ==
  ASSUME FullInv, PlaceInv', UNCHANGED <<made, sock, conns>>, NEW w \in Workers,
         \A v \in Workers : v # w => local'[v] = local[v],
         local'[w].pc \notin {"attach", "giveback", "accepted"},
         local'[w].pc \in {"unregister", "return"} => sock[local'[w].s] = 0,
         \A s \in Sessions : InPool(s) => InPool(s)',
         \A s \in Sessions : InPool(s)' => InPool(s) \/ sock[s] = 0,
         \A s \in Sessions : Owns(w, s) /\ sock[s] = 0 => InPool(s)' \/ Owns(w, s)'
  PROVE  SockInv'
<1>1. \A s \in made' : InPool(s)' \/ (\E v \in Workers : Owns(v, s)') \/ sock'[s] # 0
  <2> SUFFICES ASSUME NEW s \in made, sock[s] = 0
               PROVE  InPool(s)' \/ \E v \in Workers : Owns(v, s)'
    OBVIOUS
  <2>1. s \in Sessions
    BY DEF FullInv, PlaceInv, TypeOK
  <2>2. InPool(s) \/ \E v \in Workers : Owns(v, s)
    BY DEF FullInv, SockInv
  <2>3. \A v \in Workers : v # w /\ Owns(v, s) => Owns(v, s)'
    BY DEF Owns
  <2>4. Owns(w, s) => InPool(s)' \/ Owns(w, s)'
    BY <2>1
  <2> QED
    BY <2>1, <2>2, <2>3, <2>4
<1>2. conns \in Nat
  BY BoundAssumption DEF FullInv, PlaceInv, TypeOK, OptConns
<1> QED
  BY <1>1, <1>2 DEF FullInv, SockInv

\* GetEmptySession hands out an object that has no socket.
LEMMA SockTake ==
  ASSUME FullInv, PlaceInv', NEW w \in Workers, AcceptCompleted(w)
  PROVE  SockInv'
<1>1. PICK s \in Sessions, label \in {"attach", "giveback"} :
        /\ GetEmptySession(s)
        /\ local' = [local EXCEPT ![w] = At(label, s, conns + 1, "idle")]
  BY DEF AcceptCompleted
<1>2. /\ local'[w].pc = label /\ local'[w].s = s /\ local'[w].c = conns + 1
      /\ \A v \in Workers : v # w => local'[v] = local[v]
  BY <1>1 DEF FullInv, PlaceInv, TypeOK, At
<1>3. sock' = sock /\ conns' = conns + 1 /\ conns \in Nat
      /\ sock \in [Sessions -> OptConns] /\ local[w].pc = "idle"
  BY BoundAssumption
     DEF AcceptCompleted, sessionVars, FullInv, PlaceInv, TypeOK, OptConns
<1>4. \A t \in Sessions : sock[t] \in Nat /\ sock[t] <= conns
  BY <1>3, BoundAssumption DEF FullInv, SockInv, OptConns
<1>5. Len(pool) \in Nat /\ made \subseteq Sessions
  BY DEF FullInv, PlaceInv, TypeOK
<1>6. /\ sock[s] = 0
      /\ \A t \in Sessions : t # s => (InPool(t)' <=> InPool(t))
      /\ made' = made \cup {s}
  <2>1. CASE pool' = pool /\ s \notin made /\ made' = made \cup {s}
    BY <2>1 DEF FullInv, SockInv, InPool
  <2>2. CASE /\ Len(pool) > 0 /\ Len(pool') = Len(pool) - 1 /\ made' = made
             /\ s = pool[Len(pool)]
             /\ \A i \in 1 .. Len(pool') : pool'[i] = pool[i]
    <3>1. InPool(s) /\ made' = made \cup {s}
      BY <1>5, <2>2 DEF InPool, FullInv, PlaceInv, Placed
    <3>2. \A t \in Sessions : t # s => (InPool(t)' <=> InPool(t))
      BY <1>5, <2>2 DEF InPool
    <3> QED
      BY <3>1, <3>2 DEF FullInv, SockInv
  <2> QED
    BY <1>1, <2>1, <2>2, GetStep DEF FullInv, PlaceInv
<1>7. \A t \in Sessions : InPool(t)' \/ t \notin made' => sock'[t] = 0
  BY <1>3, <1>6 DEF FullInv, SockInv
<1>8. \A t \in made' : InPool(t)' \/ (\E v \in Workers : Owns(v, t)') \/ sock'[t] # 0
  <2>1. Owns(w, s)'
    BY <1>2 DEF Owns, Owning
  <2>2. \A v \in Workers, t \in Sessions : Owns(v, t) => Owns(v, t)'
    BY <1>2, <1>3 DEF Owns, Owning, ClosePCs
  <2> QED
    BY <1>3, <1>5, <1>6, <2>1, <2>2 DEF FullInv, SockInv
<1>9. /\ \A v \in Workers : local'[v].pc \in {"attach", "giveback", "unregister", "return"}
                          => sock'[local'[v].s] = 0
      /\ \A v \in Workers : local'[v].pc = "accepted" =>
           local'[v].c # 0 /\ sock'[local'[v].s] = local'[v].c
  BY <1>2, <1>3, <1>6 DEF FullInv, SockInv
<1>10. \A v \in Workers : local'[v].pc = "attach" =>
         local'[v].c \in 1 .. conns' /\ \A t \in Sessions : sock'[t] # local'[v].c
  BY <1>2, <1>3, <1>4 DEF FullInv, SockInv
<1>11. \A u, v \in Workers : /\ local'[u].pc = "attach" /\ local'[v].pc = "attach"
                             /\ local'[u].c = local'[v].c
                             => u = v
  BY <1>2, <1>3 DEF FullInv, SockInv
<1>12. /\ \A t \in Sessions : sock'[t] <= conns'
       /\ \A t, u \in Sessions : sock'[t] = sock'[u] /\ sock'[t] # 0 => t = u
  BY <1>3, <1>4 DEF FullInv, SockInv
<1> QED
  BY <1>7, <1>8, <1>9, <1>10, <1>11, <1>12 DEF SockInv

\* SetAcceptedSocket gives the object a socket no other has.
LEMMA SockAttach ==
  ASSUME FullInv, PlaceInv', NEW w \in Workers, SetAcceptedSocket(w)
  PROVE  SockInv'
<1> DEFINE s == local[w].s
           c == local[w].c
<1>1. /\ s \in Sessions /\ s # NoSession /\ c \in 1 .. conns
      /\ \A t \in Sessions : sock[t] # c
      /\ "accepted" \in PCs /\ TypeOK
      /\ conns \in Nat /\ sock \in [Sessions -> OptConns]
  <2>1. TypeOK /\ local[w].pc = "attach"
    BY DEF FullInv, PlaceInv, SetAcceptedSocket
  <2>2. local[w] \in Locals /\ s # NoSession
    BY <2>1 DEF TypeOK
  <2>3. s \in Sessions
    BY <2>2 DEF Locals
  <2>4. c \in 1 .. conns /\ \A t \in Sessions : sock[t] # c
    BY <2>1 DEF FullInv, SockInv
  <2>5. conns \in Nat /\ sock \in [Sessions -> OptConns]
    BY <2>1, BoundAssumption DEF TypeOK, OptConns
  <2>6. "accepted" \in PCs
    BY DEF PCs, AcceptPCs
  <2> QED
    BY <2>1, <2>2, <2>3, <2>4, <2>5, <2>6
<1>2. /\ local[w].pc = "attach" /\ Goto(w, "accepted")
      /\ sock' = [sock EXCEPT ![s] = c]
      /\ UNCHANGED <<pool, made, conns>>
  BY DEF SetAcceptedSocket, poolVars, netVars
<1>3. /\ local'[w].pc = "accepted" /\ local'[w].s = s /\ local'[w].c = c
      /\ \A v \in Workers : v # w => local'[v] = local[v]
  BY <1>1, <1>2, GotoStep
<1>4. sock'[s] = c /\ \A t \in Sessions : t # s => sock'[t] = sock[t]
  BY <1>1, <1>2
<1>5. Owns(w, s) /\ s \in made /\ ~InPool(s)
  BY <1>1, <1>2 DEF Owns, Owning, FullInv, PlaceInv, Placed
<1>6. \A v \in Workers : v # w /\ local[v].pc \in Owning => local[v].s # s
  BY <1>1, <1>5 DEF Owns, FullInv, PlaceInv, Placed
<1>7. \A t \in Sessions : InPool(t)' <=> InPool(t)
  BY <1>2 DEF InPool
<1>8. \A v \in Workers, t \in Sessions : Owns(v, t) => Owns(v, t)'
  BY <1>2, <1>3 DEF Owns, Owning, ClosePCs
<1>9. made \subseteq Sessions /\ \A v \in Workers : local[v].pc \in Owning => local[v].s \in Sessions
  BY <1>1 DEF TypeOK, Locals, Owning, ClosePCs
<1> HIDE DEF s, c
<1>10. /\ \A t \in Sessions : InPool(t)' \/ t \notin made' => sock'[t] = 0
       /\ \A t \in made' : InPool(t)' \/ (\E v \in Workers : Owns(v, t)') \/ sock'[t] # 0
  BY <1>1, <1>2, <1>4, <1>5, <1>7, <1>8, <1>9 DEF FullInv, SockInv
<1>11. \A v \in Workers : local'[v].pc \in {"attach", "giveback", "unregister", "return"}
                          => sock'[local'[v].s] = 0
  BY <1>3, <1>4, <1>6, <1>9 DEF FullInv, SockInv, Owning, ClosePCs
<1>12. \A v \in Workers : local'[v].pc = "accepted" =>
           local'[v].c # 0 /\ sock'[local'[v].s] = local'[v].c
  BY <1>1, <1>3, <1>4, <1>6, <1>9 DEF FullInv, SockInv, Owning
<1>13. \A v \in Workers : v # w /\ local[v].pc = "attach" => local[v].c # c
  BY <1>2 DEF FullInv, SockInv, c
<1>14. \A v \in Workers : local'[v].pc = "attach" =>
         local'[v].c \in 1 .. conns' /\ \A t \in Sessions : sock'[t] # local'[v].c
  BY <1>2, <1>3, <1>4, <1>13 DEF FullInv, SockInv
<1>15. \A u, v \in Workers : /\ local'[u].pc = "attach" /\ local'[v].pc = "attach"
                             /\ local'[u].c = local'[v].c
                             => u = v
  BY <1>3 DEF FullInv, SockInv
<1>16. /\ \A t \in Sessions : sock'[t] <= conns'
       /\ \A t, u \in Sessions : sock'[t] = sock'[u] /\ sock'[t] # 0 => t = u
  BY <1>1, <1>2, <1>4 DEF FullInv, SockInv
<1> QED
  BY <1>10, <1>11, <1>12, <1>14, <1>15, <1>16 DEF SockInv

\* Disconnect closes the socket and leaves the object without one.
LEMMA SockClose ==
  ASSUME FullInv, PlaceInv', NEW w \in Workers, Close(w)
  PROVE  SockInv'
<1> DEFINE s == local[w].s
<1>1. /\ s \in Sessions /\ s # NoSession
      /\ "unregister" \in PCs /\ TypeOK
      /\ conns \in Nat /\ sock \in [Sessions -> OptConns]
  <2>1. TypeOK /\ local[w].pc = "close"
    BY DEF FullInv, PlaceInv, Close
  <2>2. local[w] \in Locals /\ s # NoSession
    BY <2>1 DEF TypeOK
  <2>3. s \in Sessions
    BY <2>2 DEF Locals
  <2>4. conns \in Nat /\ sock \in [Sessions -> OptConns]
    BY <2>1, BoundAssumption DEF TypeOK, OptConns
  <2>5. "unregister" \in PCs
    BY DEF PCs, ClosePCs
  <2> QED
    BY <2>1, <2>2, <2>3, <2>4, <2>5
<1>2. /\ local[w].pc = "close" /\ Goto(w, "unregister")
      /\ sock' = [sock EXCEPT ![s] = 0]
      /\ UNCHANGED <<pool, made, conns>>
  BY DEF Close, poolVars, netVars
<1>3. /\ local'[w].pc = "unregister" /\ local'[w].s = s
      /\ \A v \in Workers : v # w => local'[v] = local[v]
  BY <1>1, <1>2, GotoStep
<1>4. sock'[s] = 0 /\ \A t \in Sessions : t # s => sock'[t] = sock[t]
  BY <1>1, <1>2
<1>5. Owns(w, s)
  BY <1>2 DEF Owns, Owning, ClosePCs
<1>6. \A v \in Workers : v # w /\ local[v].pc \in Owning => local[v].s # s
  BY <1>1, <1>5 DEF Owns, FullInv, PlaceInv, Placed
<1>7. \A t \in Sessions : InPool(t)' <=> InPool(t)
  BY <1>2 DEF InPool
<1>8. \A v \in Workers, t \in Sessions : Owns(v, t) => Owns(v, t)'
  BY <1>2, <1>3 DEF Owns, Owning, ClosePCs
<1>9. made \subseteq Sessions /\ \A v \in Workers : local[v].pc \in Owning => local[v].s \in Sessions
  BY <1>1 DEF TypeOK, Locals, Owning, ClosePCs
<1> HIDE DEF s
<1>10. /\ \A t \in Sessions : InPool(t)' \/ t \notin made' => sock'[t] = 0
       /\ \A t \in made' : InPool(t)' \/ (\E v \in Workers : Owns(v, t)') \/ sock'[t] # 0
  BY <1>2, <1>4, <1>5, <1>7, <1>8, <1>9 DEF FullInv, SockInv
<1>11. \A v \in Workers : local'[v].pc \in {"attach", "giveback", "unregister", "return"}
                          => sock'[local'[v].s] = 0
  BY <1>3, <1>4, <1>6, <1>9 DEF FullInv, SockInv, Owning, ClosePCs
<1>12. \A v \in Workers : local'[v].pc = "accepted" =>
           local'[v].c # 0 /\ sock'[local'[v].s] = local'[v].c
  BY <1>3, <1>4, <1>6, <1>9 DEF FullInv, SockInv, Owning
<1>13. \A v \in Workers : local'[v].pc = "attach" =>
         local'[v].c \in 1 .. conns' /\ \A t \in Sessions : sock'[t] # local'[v].c
  BY <1>1, <1>2, <1>3, <1>4 DEF FullInv, SockInv
<1>14. \A u, v \in Workers : /\ local'[u].pc = "attach" /\ local'[v].pc = "attach"
                             /\ local'[u].c = local'[v].c
                             => u = v
  BY <1>3 DEF FullInv, SockInv
<1>15. /\ \A t \in Sessions : sock'[t] <= conns'
       /\ \A t, u \in Sessions : sock'[t] = sock'[u] /\ sock'[t] # 0 => t = u
  BY <1>1, <1>2, <1>4 DEF FullInv, SockInv
<1> QED
  BY <1>10, <1>11, <1>12, <1>13, <1>14, <1>15 DEF SockInv

\* Release and GiveBack: the object has no socket any more, so Init clears none.
LEMMA SockRelease ==
  ASSUME FullInv, PlaceInv', NEW w \in Workers, GiveBack(w) \/ Release(w)
  PROVE  SockInv'
<1> DEFINE s == local[w].s
<1>1. /\ local[w].pc \in {"giveback", "return"} /\ ReleaseSession(s)
      /\ UNCHANGED <<made, conns>>
      /\ Goto(w, "refill") \/ Goto(w, local[w].back)
  BY DEF GiveBack, Release, netVars
<1>2. TypeOK /\ local[w] \in Locals
  BY DEF FullInv, PlaceInv, TypeOK
<1>3. s \in Sessions
  <2>1. s # NoSession
    BY <1>1, <1>2 DEF TypeOK
  <2> QED
    BY <1>2, <2>1 DEF Locals
<1>4. sock[s] = 0
  BY <1>1 DEF FullInv, SockInv
<1>5. PICK label \in {"refill", "idle", "rearm"} : Goto(w, label)
  BY <1>1, <1>2 DEF Locals
<1>6. /\ local'[w].pc = label
      /\ \A v \in Workers : v # w => local'[v] = local[v]
  <2>1. label \in PCs /\ s # NoSession
    BY <1>3, NoSessionAssumption DEF PCs
  <2> QED
    BY <1>2, <1>5, <2>1, GotoStep
<1> HIDE DEF s
<1>7. sock' = sock
  <2>1. sock \in [Sessions -> OptConns] /\ sock' = [sock EXCEPT ![s] = 0]
    BY <1>1, <1>2 DEF TypeOK, ReleaseSession
  <2> QED
    BY <1>3, <1>4, <2>1
<1>8. \A t \in Sessions : InPool(t)' <=> (InPool(t) \/ t = s)
  BY <1>1, <1>2, <1>3, ReleaseStep
<1>9. \A t \in Sessions : Owns(w, t) => InPool(t)'
  BY <1>8 DEF Owns, s
<1> QED
  BY <1>1, <1>4, <1>6, <1>7, <1>8, <1>9, SockQuiet

\* A completion or a failing send only makes the caller an owner that closes,
\* or sends it on to Recv.
LEMMA SockClaim ==
  ASSUME FullInv, PlaceInv', NEW w \in Workers, NEW s \in Sessions,
         NEW c \in OptConns, NEW back \in {"idle", "rearm"},
         local[w].pc = "idle", UNCHANGED <<pool, made, sock, conns>>,
         TryDisconnect(w, s, c, back)
  PROVE  SockInv'
<1>1. /\ \A v \in Workers : v # w => local'[v] = local[v]
      /\ local'[w].pc \in {"idle", "rearm", "close"}
  BY DisconnectStep DEF FullInv, PlaceInv
<1>2. \A t \in Sessions : (InPool(t)' <=> InPool(t)) /\ ~Owns(w, t)
  BY DEF InPool, Owns, Owning, ClosePCs
<1> QED
  BY <1>1, <1>2, SockQuiet

\* Steps of a worker that goes to a label and touches neither pool nor socket.
LEMMA SockGoto ==
  ASSUME FullInv, PlaceInv', NEW w \in Workers, NEW label \in PCs,
         Goto(w, label), UNCHANGED <<pool, made, sock, conns>>,
         label \notin {"attach", "giveback", "accepted", "unregister"},
         label \notin {"idle", "refill"} => local[w].s # NoSession,
         label = "return" <=> local[w].pc = "unregister",
         local[w].pc \in Owning => local[w].pc \in {"accepted", "unregister"}
  PROVE  SockInv'
<1>1. /\ local'[w].pc = label /\ (label # "idle" => local'[w].s = local[w].s)
      /\ \A v \in Workers : v # w => local'[v] = local[v]
  BY GotoStep DEF FullInv, PlaceInv
<1>2. \A t \in Sessions : InPool(t)' <=> InPool(t)
  BY DEF InPool
<1>3. label = "return" => sock[local[w].s] = 0
  BY DEF FullInv, SockInv
<1>4. \A t \in Sessions : Owns(w, t) /\ sock[t] = 0 => Owns(w, t)'
  <2> SUFFICES ASSUME NEW t \in Sessions, Owns(w, t), sock[t] = 0
               PROVE  Owns(w, t)'
    OBVIOUS
  <2>1. local[w].pc # "accepted"
    BY DEF FullInv, SockInv, Owns
  <2> QED
    BY <1>1, <2>1 DEF Owns, Owning, ClosePCs
<1> QED
  BY <1>1, <1>2, <1>3, <1>4, SockQuiet

\* Every step keeps places and sockets.
LEMMA SockStep == FullInv /\ [Next]_vars => FullInv'
<1> SUFFICES ASSUME FullInv, [Next]_vars PROVE SockInv'
  BY PlaceStep DEF FullInv
<1>0. /\ PlaceInv' /\ TypeOK
      /\ \A w \in Workers : local[w].pc \notin {"idle", "refill"} => local[w].s # NoSession
  BY PlaceStep DEF FullInv, PlaceInv, TypeOK
<1>1. ASSUME UNCHANGED <<pool, made, sock, conns, local>> PROVE SockInv'
  BY <1>1 DEF FullInv, SockInv, InPool, Owns
<1>2. CASE UNCHANGED vars
  BY <1>1, <1>2 DEF vars, sessionVars, poolVars, netVars
<1>3. ASSUME NEW c \in Conns, PeerLeaves(c) PROVE SockInv'
  BY <1>1, <1>3 DEF PeerLeaves, sessionVars, poolVars
<1>4. ASSUME NEW w \in Workers, AcceptRefused(w) PROVE SockInv'
  <2>1. /\ local[w].pc = "idle" /\ Goto(w, "refill")
        /\ UNCHANGED <<pool, made, sock, conns>> /\ "refill" \in PCs
    BY <1>4 DEF AcceptRefused, sessionVars, poolVars, PCs
  <2> QED
    BY <1>0, <2>1, SockGoto DEF Owning, ClosePCs
<1>5. ASSUME NEW w \in Workers, PostAccept(w) PROVE SockInv'
  <2>1. /\ local[w].pc = "refill" /\ Goto(w, "idle")
        /\ UNCHANGED <<pool, made, sock, conns>> /\ "idle" \in PCs
    BY <1>5 DEF PostAccept, sessionVars, poolVars, PCs
  <2> QED
    BY <1>0, <2>1, SockGoto DEF Owning, ClosePCs
<1>6. ASSUME NEW w \in Workers, OnAccepted(w) PROVE SockInv'
  <2>1. /\ local[w].pc = "accepted" /\ Goto(w, "enlist")
        /\ UNCHANGED <<pool, made, sock, conns>> /\ "enlist" \in PCs
    BY <1>6 DEF OnAccepted, poolVars, netVars, PCs, AcceptPCs
  <2> QED
    BY <1>0, <2>1, SockGoto
<1>7. ASSUME NEW w \in Workers, RegisterActive(w) PROVE SockInv'
  <2>1. /\ local[w].pc = "enlist" /\ UNCHANGED <<pool, made, sock, conns>>
    BY <1>7 DEF RegisterActive, sessionVars, poolVars, netVars
  <2>2. /\ local'[w].pc = "assign"
        /\ \A v \in Workers : v # w => local'[v] = local[v]
    BY <1>0, <1>7 DEF RegisterActive, TypeOK, Locals
  <2>3. \A t \in Sessions : (InPool(t)' <=> InPool(t)) /\ ~Owns(w, t)
    BY <2>1 DEF InPool, Owns, Owning, ClosePCs
  <2> QED
    BY <1>0, <2>1, <2>2, <2>3, SockQuiet
<1>8. ASSUME NEW w \in Workers, AssignId(w) PROVE SockInv'
  <2>1. /\ local[w].pc = "assign" /\ Goto(w, "recv")
        /\ UNCHANGED <<pool, made, sock, conns>> /\ "recv" \in PCs
    BY <1>8 DEF AssignId, poolVars, netVars, PCs, AcceptPCs
  <2> QED
    BY <1>0, <2>1, SockGoto DEF Owning, ClosePCs
<1>9. ASSUME NEW w \in Workers, FirstRecv(w) PROVE SockInv'
  <2>1. /\ local[w].pc = "recv" /\ Goto(w, "refill")
        /\ UNCHANGED <<pool, made, sock, conns>> /\ "refill" \in PCs
    BY <1>9 DEF FirstRecv, sessionVars, poolVars, PCs
  <2> QED
    BY <1>0, <2>1, SockGoto DEF Owning, ClosePCs
<1>10. ASSUME NEW w \in Workers, Rearm(w) PROVE SockInv'
  <2>1. /\ local[w].pc = "rearm" /\ Goto(w, "idle")
        /\ UNCHANGED <<pool, made, sock, conns>> /\ "idle" \in PCs
    BY <1>10 DEF Rearm, sessionVars, poolVars, PCs
  <2> QED
    BY <1>0, <2>1, SockGoto DEF Owning, ClosePCs
<1>11. ASSUME NEW w \in Workers, UnregisterActive(w) PROVE SockInv'
  <2>1. /\ local[w].pc = "unregister" /\ Goto(w, "return")
        /\ UNCHANGED <<pool, made, sock, conns>> /\ "return" \in PCs
    BY <1>11 DEF UnregisterActive, sessionVars, poolVars, netVars, PCs, ClosePCs
  <2> QED
    BY <1>0, <2>1, SockGoto
<1>12. ASSUME NEW w \in Workers, NEW s \in Sessions, NEW c \in Conns,
              RecvEnded(w, s, c) \/ RecvCompleted(w, s, c)
       PROVE  SockInv'
  <2>1. /\ local[w].pc = "idle" /\ c \in OptConns
        /\ UNCHANGED <<pool, made, sock, conns>>
    BY <1>12 DEF RecvEnded, RecvCompleted, poolVars, Conns, OptConns
  <2>2. CASE TryDisconnect(w, s, c, "idle") \/ TryDisconnect(w, s, c, "rearm")
    BY <1>0, <2>1, <2>2, SockClaim
  <2>3. CASE local' = [local EXCEPT ![w] = At("rearm", s, c, "idle")]
    <3>1. /\ \A v \in Workers : v # w => local'[v] = local[v]
          /\ local'[w].pc = "rearm"
      BY <1>0, <2>3 DEF TypeOK, At
    <3>2. \A t \in Sessions : (InPool(t)' <=> InPool(t)) /\ ~Owns(w, t)
      BY <2>1 DEF InPool, Owns, Owning, ClosePCs
    <3> QED
      BY <1>0, <2>1, <3>1, <3>2, SockQuiet
  <2> QED
    BY <1>12, <2>2, <2>3 DEF RecvEnded, RecvCompleted
<1>13. ASSUME NEW w \in Workers, NEW s \in Sessions, SendFailed(w, s) PROVE SockInv'
  <2>1. /\ local[w].pc = "idle" /\ UNCHANGED <<pool, made, sock, conns>>
        /\ sock[s] \in OptConns /\ TryDisconnect(w, s, sock[s], "idle")
    BY <1>0, <1>13 DEF SendFailed, poolVars, netVars, TypeOK
  <2> QED
    BY <1>0, <2>1, SockClaim
<1> QED
  BY <1>0, <1>2, <1>3, <1>4, <1>5, <1>6, <1>7, <1>8, <1>9, <1>10, <1>11, <1>12,
     <1>13, SockTake, SockAttach, SockClose, SockRelease
     DEF Next, AcceptStep, CloseStep

\* They hold at the start ...
LEMMA InitSock == Init => FullInv
<1> SUFFICES ASSUME Init PROVE SockInv
  BY InitPlace DEF FullInv
<1>1. \A w \in Workers : local[w].pc = "idle"
  BY DEF Init, Idle, At
<1>2. PICK s0 \in Sessions : pool = <<s0>> /\ made = {s0}
  BY DEF Init
<1>3. InPool(s0)
  BY <1>2 DEF InPool
<1> QED
  BY <1>1, <1>2, <1>3 DEF Init, SockInv

\* ... and always: objects are in one place and sockets of one object
\* (ServerCoreLibrary/Session.cpp:133-180).
THEOREM FullInvariant == Spec => []FullInv
BY InitSock, SockStep, PTL DEF Spec

\* An object in the pool holds no socket, and no two objects hold the same one.
THEOREM SocketsApart == Spec => []OneSocket
<1>1. FullInv => OneSocket
  BY DEF FullInv, SockInv, OneSocket
<1> QED
  BY <1>1, FullInvariant, PTL

-----------------------------------------------------------------------------
\* The two variables of ConnectionService, as the accept path keeps them.
Serving == {p \in Conns \X Sessions : sock[p[2]] = p[1]}
Held    == {local[w].c : w \in {v \in Workers : local[v].pc = "attach"}}
Seen    == (1 .. conns) \ Held

\* A step that leaves the served and the seen connections alone stutters.
LEMMA ServiceVars ==
  ASSUME Serving' = Serving, Seen' = Seen PROVE UNCHANGED Service!csvars
BY DEF Service!csvars, Serving, Seen, Held

\* Steps of a worker that has no accepted connection in its hands.
LEMMA HeldQuiet ==
  ASSUME NEW w \in Workers, \A v \in Workers : v # w => local'[v] = local[v],
         local[w].pc # "attach", local'[w].pc # "attach"
  PROVE  Held' = Held
BY DEF Held

\* Nor do steps to a label other than attach change what is held.
LEMMA HeldGoto ==
  ASSUME FullInv, NEW w \in Workers, NEW label \in PCs, Goto(w, label),
         label \notin {"idle", "refill"} => local[w].pc \notin {"idle", "refill"},
         local[w].pc # "attach", label # "attach"
  PROVE  Held' = Held
<1>1. TypeOK /\ (label \notin {"idle", "refill"} => local[w].s # NoSession)
  BY DEF FullInv, PlaceInv, TypeOK
<1>2. local'[w].pc = label /\ \A v \in Workers : v # w => local'[v] = local[v]
  BY <1>1, GotoStep
<1> QED
  BY <1>2, HeldQuiet

\* Completions and failing sends leave the accept path alone.
LEMMA HeldClaim ==
  ASSUME FullInv, NEW w \in Workers, NEW s \in Sessions, NEW c \in OptConns,
         NEW back \in {"idle", "rearm"}, local[w].pc = "idle",
         TryDisconnect(w, s, c, back)
  PROVE  Held' = Held
<1>1. /\ \A v \in Workers : v # w => local'[v] = local[v]
      /\ local'[w].pc \in {"idle", "rearm", "close"}
  BY DisconnectStep DEF FullInv, PlaceInv
<1> QED
  BY <1>1, HeldQuiet

\* Only AcceptCompleted takes a connection up, only SetAcceptedSocket lays it
\* down on an object, and only Close ends one.
LEMMA ServiceQuiet ==
  ASSUME FullInv, NEW w \in Workers,
         \/ AcceptRefused(w) \/ GiveBack(w) \/ OnAccepted(w) \/ RegisterActive(w)
         \/ AssignId(w) \/ FirstRecv(w) \/ PostAccept(w) \/ UnregisterActive(w)
         \/ Release(w) \/ Rearm(w)
  PROVE  Held' = Held
<1>0. TypeOK /\ local[w] \in Locals
  BY DEF FullInv, PlaceInv, TypeOK
<1> DEFINE Ends == {"idle", "refill"}
           Inner == {"enlist", "recv", "return"}
<1>1. CASE AcceptRefused(w) \/ GiveBack(w) \/ FirstRecv(w) \/ PostAccept(w) \/ Rearm(w)
  <2>1. local[w].pc # "attach" /\ \E label \in Ends : Goto(w, label)
    BY <1>1 DEF AcceptRefused, GiveBack, FirstRecv, PostAccept, Rearm
  <2>2. PICK label \in Ends : Goto(w, label)
    BY <2>1
  <2>3. label \in PCs
    BY DEF PCs
  <2> QED
    BY <2>1, <2>2, <2>3, HeldGoto
<1>2. CASE OnAccepted(w) \/ AssignId(w) \/ UnregisterActive(w)
  <2>1. /\ local[w].pc \in {"accepted", "assign", "unregister"}
        /\ \E label \in Inner : Goto(w, label)
    BY <1>2 DEF OnAccepted, AssignId, UnregisterActive
  <2>2. PICK label \in Inner : Goto(w, label)
    BY <2>1
  <2>3. label \in PCs
    BY DEF PCs, AcceptPCs, ClosePCs
  <2> QED
    BY <2>1, <2>2, <2>3, HeldGoto
<1>3. CASE Release(w)
  <2>1. local[w].pc = "return" /\ Goto(w, local[w].back) /\ local[w].back \in {"idle", "rearm"}
    BY <1>0, <1>3 DEF Release, Locals
  <2>2. PICK label \in {"idle", "rearm"} : Goto(w, label)
    BY <2>1
  <2>3. label \in PCs
    BY DEF PCs
  <2> QED
    BY <2>1, <2>2, <2>3, HeldGoto
<1>4. CASE RegisterActive(w)
  <2>1. /\ local[w].pc = "enlist" /\ local'[w].pc = "assign"
        /\ \A v \in Workers : v # w => local'[v] = local[v]
    BY <1>0, <1>4 DEF RegisterActive, TypeOK, Locals
  <2> QED
    BY <2>1, HeldQuiet
<1> QED
  BY <1>1, <1>2, <1>3, <1>4

\* The same steps move no socket: Release finds none to clear.
LEMMA SocketQuiet ==
  ASSUME FullInv, NEW w \in Workers,
         \/ AcceptRefused(w) \/ GiveBack(w) \/ OnAccepted(w) \/ RegisterActive(w)
         \/ AssignId(w) \/ FirstRecv(w) \/ PostAccept(w) \/ UnregisterActive(w)
         \/ Release(w) \/ Rearm(w)
  PROVE  sock' = sock /\ conns' = conns
<1>1. CASE GiveBack(w) \/ Release(w)
  <2>1. /\ sock[local[w].s] = 0 /\ sock' = [sock EXCEPT ![local[w].s] = 0]
        /\ sock \in [Sessions -> OptConns] /\ conns' = conns
    BY <1>1 DEF GiveBack, Release, ReleaseSession, netVars, FullInv, SockInv,
                PlaceInv, TypeOK
  <2> QED
    BY <2>1
<1>2. CASE ~(GiveBack(w) \/ Release(w))
  BY <1>2 DEF AcceptRefused, OnAccepted, RegisterActive, AssignId, FirstRecv,
       PostAccept, UnregisterActive, Rearm, sessionVars, netVars
<1> QED
  BY <1>1, <1>2

\* A connection taken up is not seen yet; one given back is refused.
LEMMA ServiceTake ==
  ASSUME FullInv, NEW w \in Workers, AcceptCompleted(w)
  PROVE  Service!Next \/ UNCHANGED Service!csvars
<1>1. PICK s \in Sessions, label \in {"attach", "giveback"} :
        local' = [local EXCEPT ![w] = At(label, s, conns + 1, "idle")]
  BY DEF AcceptCompleted
<1>2. /\ local'[w].pc = label /\ local'[w].c = conns + 1
      /\ \A v \in Workers : v # w => local'[v] = local[v]
      /\ local[w].pc = "idle" /\ sock' = sock /\ conns' = conns + 1
      /\ conns \in Nat /\ conns + 1 \in Conns
  BY <1>1, BoundAssumption
     DEF AcceptCompleted, sessionVars, FullInv, PlaceInv, TypeOK, At, Conns, OptConns
<1>3. Serving' = Serving
  BY <1>2 DEF Serving
<1>4. \A v \in Workers : local[v].pc = "attach" => local[v].c \in 1 .. conns
  BY DEF FullInv, SockInv
<1>5. Held \subseteq 1 .. conns
  BY <1>4 DEF Held
<1>6. CASE label = "attach"
  <2>1. Held' = Held \cup {conns + 1}
    <3>1. ASSUME NEW c PROVE c \in Held' <=> (c \in Held \/ c = conns + 1)
      <4>1. c \in Held <=> \E v \in Workers : local[v].pc = "attach" /\ c = local[v].c
        BY DEF Held
      <4>2. c \in Held' <=> \E v \in Workers : local'[v].pc = "attach" /\ c = local'[v].c
        BY DEF Held
      <4> QED
        BY <1>2, <1>6, <4>1, <4>2
    <3> QED
      BY <3>1
  <2>2. Seen' = Seen
    BY <1>2, <1>5, <2>1 DEF Seen
  <2> QED
    BY <1>3, <2>2, ServiceVars
<1>7. CASE label = "giveback"
  <2>1. Held' = Held
    BY <1>2, <1>7, HeldQuiet
  <2>2. Seen' = Seen \cup {conns + 1} /\ conns + 1 \notin Seen
    BY <1>2, <1>5, <2>1 DEF Seen
  <2> QED
    BY <1>2, <1>3, <2>2 DEF Service!Next, Service!Refuse, Serving, Seen, Held
<1> QED
  BY <1>1, <1>6, <1>7

\* SetAcceptedSocket is the moment the connection is served: by an object that
\* serves no other, for a connection no worker and no object has had.
LEMMA ServiceAttach ==
  ASSUME FullInv, NEW w \in Workers, SetAcceptedSocket(w)
  PROVE  Service!Next \/ UNCHANGED Service!csvars
<1> DEFINE s == local[w].s
           c == local[w].c
<1>1. /\ local[w].pc = "attach" /\ Goto(w, "accepted") /\ conns' = conns
      /\ sock' = [sock EXCEPT ![s] = c] /\ TypeOK /\ local[w] \in Locals
  BY DEF SetAcceptedSocket, netVars, FullInv, PlaceInv, TypeOK
<1>2. /\ sock[s] = 0 /\ c \in 1 .. conns
      /\ \A v \in Workers : v # w /\ local[v].pc = "attach" => local[v].c # c
  BY <1>1 DEF FullInv, SockInv
<1>3. s \in Sessions /\ s # NoSession /\ "accepted" \in PCs
  BY <1>1 DEF TypeOK, Locals, PCs, AcceptPCs
<1>4. c \in Conns
  BY <1>1, <1>2, BoundAssumption DEF TypeOK, Conns, OptConns
<1>5. /\ local'[w].pc = "accepted"
      /\ \A v \in Workers : v # w => local'[v] = local[v]
  BY <1>1, <1>3, GotoStep
<1>6. sock \in [Sessions -> OptConns]
  BY <1>1 DEF TypeOK
<1>7. c \in Held
  BY <1>1 DEF Held
<1> HIDE DEF s, c
<1>8. Serving' = Serving \cup {<<c, s>>} /\ \A p \in Serving : p[2] # s
  <2>1. \A p \in Serving : p[2] # s
    BY <1>2 DEF Serving, Conns
  <2>2. ASSUME NEW d \in Conns, NEW t \in Sessions
        PROVE  sock'[t] = d <=> (sock[t] = d \/ (d = c /\ t = s))
    BY <1>1, <1>2, <1>3, <1>6, <2>2 DEF Conns
  <2>3. \A p : p \in Serving' <=> (p \in Serving \/ p = <<c, s>>)
    BY <1>3, <1>4, <2>2 DEF Serving
  <2> QED
    BY <2>1, <2>3
<1>9. Held' = Held \ {c}
  <2>1. ASSUME NEW d PROVE d \in Held' <=> (d \in Held /\ d # c)
    <3>1. d \in Held <=> \E v \in Workers : local[v].pc = "attach" /\ d = local[v].c
      BY DEF Held
    <3>2. d \in Held' <=> \E v \in Workers : local'[v].pc = "attach" /\ d = local'[v].c
      BY DEF Held
    <3>3. c = local[w].c
      BY DEF c
    <3> QED
      BY <1>1, <1>2, <1>5, <3>1, <3>2, <3>3
  <2> QED
    BY <2>1
<1>10. Seen' = Seen \cup {c} /\ c \notin Seen
  BY <1>1, <1>2, <1>7, <1>9 DEF Seen
<1>11. PICK d \in Conns, t \in Sessions : d = c /\ t = s
  BY <1>3, <1>4
<1>12. Service!Serve(d, t)
  BY <1>8, <1>10, <1>11 DEF Service!Serve, Serving, Seen, Held
<1> QED
  BY <1>12 DEF Service!Next

\* Close ends the connection the object has, if it has one.
LEMMA ServiceClose ==
  ASSUME FullInv, NEW w \in Workers, Close(w)
  PROVE  Service!Next \/ UNCHANGED Service!csvars
<1> DEFINE s == local[w].s
<1>1. /\ local[w].pc = "close" /\ Goto(w, "unregister") /\ conns' = conns
      /\ sock' = [sock EXCEPT ![s] = 0] /\ TypeOK /\ local[w] \in Locals
  BY DEF Close, netVars, FullInv, PlaceInv, TypeOK
<1>2. s \in Sessions /\ "unregister" \in PCs
  BY <1>1 DEF TypeOK, Locals, PCs, ClosePCs
<1>3. Held' = Held
  BY <1>1, <1>2, HeldGoto
<1>4. Seen' = Seen /\ sock \in [Sessions -> OptConns]
  BY <1>1, <1>3 DEF Seen, TypeOK
<1> HIDE DEF s
<1>5. CASE sock[s] = 0
  <2>1. sock' = sock
    BY <1>1, <1>2, <1>4, <1>5
  <2> QED
    <3>1. Serving' = Serving
      BY <2>1 DEF Serving
    <3> QED
      BY <1>4, <3>1, ServiceVars
<1>6. CASE sock[s] # 0
  <2> DEFINE p == <<sock[s], s>>
  <2>1. sock[s] \in Conns
    BY <1>2, <1>4, <1>6, BoundAssumption DEF Conns, OptConns
  <2>2. p \in Serving
    BY <1>2, <2>1 DEF Serving
  <2>3. ASSUME NEW d \in Conns, NEW t \in Sessions
        PROVE  sock'[t] = d <=> (sock[t] = d /\ t # s)
    BY <1>1, <1>2, <1>4 DEF Conns
  <2>4. \A q : q \in Serving' <=> (q \in Serving /\ q # p)
    BY <1>2, <2>1, <2>3 DEF Serving
  <2>5. Serving' = Serving \ {p}
    BY <2>4
  <2> QED
    BY <1>4, <2>2, <2>5 DEF Service!Next, Service!End, Serving, Seen, Held
<1> QED
  BY <1>5, <1>6

\* Every step of the life cycle is a step of ConnectionService, or a stutter.
LEMMA ServiceStep ==
  FullInv /\ [Next]_vars => Service!Next \/ UNCHANGED Service!csvars
<1> SUFFICES ASSUME FullInv, [Next]_vars
             PROVE  Service!Next \/ UNCHANGED Service!csvars
  OBVIOUS
<1>1. ASSUME UNCHANGED <<sock, conns>>, Held' = Held
      PROVE  UNCHANGED Service!csvars
  <2>1. Serving' = Serving /\ Seen' = Seen
    BY <1>1 DEF Serving, Seen
  <2> QED
    BY <2>1, ServiceVars
<1>2. CASE UNCHANGED vars
  BY <1>1, <1>2 DEF vars, sessionVars, netVars, Held
<1>3. ASSUME NEW c \in Conns, PeerLeaves(c) PROVE UNCHANGED Service!csvars
  BY <1>1, <1>3 DEF PeerLeaves, sessionVars, Held
<1>4. ASSUME NEW w \in Workers, NEW s \in Sessions, NEW c \in Conns,
             RecvEnded(w, s, c) \/ RecvCompleted(w, s, c)
      PROVE  UNCHANGED Service!csvars
  <2>1. /\ local[w].pc = "idle" /\ c \in OptConns
        /\ UNCHANGED <<sock, conns>> /\ TypeOK
    BY <1>4 DEF RecvEnded, RecvCompleted, Conns, OptConns, FullInv, PlaceInv
  <2>2. CASE TryDisconnect(w, s, c, "idle") \/ TryDisconnect(w, s, c, "rearm")
    BY <1>1, <2>1, <2>2, HeldClaim
  <2>3. CASE local' = [local EXCEPT ![w] = At("rearm", s, c, "idle")]
    <3>1. /\ \A v \in Workers : v # w => local'[v] = local[v]
          /\ local'[w].pc = "rearm"
      BY <2>1, <2>3 DEF TypeOK, At
    <3> QED
      BY <1>1, <2>1, <3>1, HeldQuiet
  <2> QED
    BY <1>4, <2>2, <2>3 DEF RecvEnded, RecvCompleted
<1>5. ASSUME NEW w \in Workers, NEW s \in Sessions, SendFailed(w, s)
      PROVE  UNCHANGED Service!csvars
  <2>1. /\ local[w].pc = "idle" /\ UNCHANGED <<sock, conns>>
        /\ sock[s] \in OptConns /\ TryDisconnect(w, s, sock[s], "idle")
    BY <1>5 DEF SendFailed, netVars, FullInv, PlaceInv, TypeOK
  <2> QED
    BY <1>1, <2>1, HeldClaim
<1> QED
  BY <1>1, <1>2, <1>3, <1>4, <1>5, ServiceTake, ServiceAttach, ServiceClose,
     ServiceQuiet, SocketQuiet DEF Next, AcceptStep, CloseStep

\* The pool, the accept path and Disconnect implement ConnectionService: every
\* connection is served at most once, by one object that serves no other, and
\* no connection that was closed or refused is served again.
THEOREM ImplementsConnectionService == Spec => ServesOnce
<1>1. Init => Service!Init
  <2> SUFFICES ASSUME Init PROVE Service!Init
    OBVIOUS
  <2>1. conns = 0 /\ \A s \in Sessions : sock[s] = 0
    BY DEF Init
  <2> QED
    BY <2>1 DEF Service!Init, Conns
<1>2. FullInv /\ [Next]_vars => [Service!Next]_(Service!csvars)
  BY ServiceStep
<1> QED
  BY <1>1, <1>2, FullInvariant, PTL DEF Spec, ServesOnce, Service!Spec

-----------------------------------------------------------------------------
(* A session in use is reachable. *)

\* A worker inside a handler takes the next step of it, or none.
LEMMA WorkerStep ==
  ASSUME TypeOK, [Next]_vars, NEW v \in Workers, local[v].pc # "idle"
  PROVE  local'[v] = local[v] \/ AcceptStep(v) \/ CloseStep(v) \/ Rearm(v)
<1>1. local \in [Workers -> Locals]
  BY DEF TypeOK
<1>2. ASSUME NEW w \in Workers, w # v, NEW r, local' = [local EXCEPT ![w] = r]
      PROVE  local'[v] = local[v]
  BY <1>1, <1>2
<1>3. ASSUME NEW w \in Workers, w # v, AcceptStep(w) \/ CloseStep(w) \/ Rearm(w)
      PROVE  local'[v] = local[v]
  BY <1>1, <1>3 DEF AcceptStep, GiveBack, SetAcceptedSocket, OnAccepted, RegisterActive,
     AssignId, FirstRecv, PostAccept, CloseStep, Close, UnregisterActive, Release, Rearm, Goto
<1>4. ASSUME NEW w \in Workers, AcceptCompleted(w) \/ AcceptRefused(w)
      PROVE  local'[v] = local[v]
  <2>1. w # v
    BY <1>4 DEF AcceptCompleted, AcceptRefused
  <2>2. \E r : local' = [local EXCEPT ![w] = r]
    BY <1>4 DEF AcceptCompleted, AcceptRefused, Goto
  <2> QED
    BY <1>2, <2>1, <2>2
<1>5. ASSUME NEW w \in Workers, NEW s \in Sessions, NEW c \in Conns,
             RecvEnded(w, s, c) \/ RecvCompleted(w, s, c)
      PROVE  local'[v] = local[v]
  <2>1. w # v
    BY <1>5 DEF RecvEnded, RecvCompleted
  <2>2. ASSUME NEW d, NEW back, TryDisconnect(w, s, d, back)
        PROVE  \E r : local' = [local EXCEPT ![w] = r]
    BY <2>2 DEF TryDisconnect
  <2>3. \E r : local' = [local EXCEPT ![w] = r]
    BY <1>5, <2>2 DEF RecvEnded, RecvCompleted
  <2> QED
    BY <1>2, <2>1, <2>3
<1>6. ASSUME NEW s \in Sessions, NEW w \in Workers, SendFailed(w, s)
      PROVE  local'[v] = local[v]
  <2>1. w # v
    BY <1>6 DEF SendFailed
  <2>2. \E r : local' = [local EXCEPT ![w] = r]
    BY <1>6 DEF SendFailed, TryDisconnect
  <2> QED
    BY <1>2, <2>1, <2>2
<1>7. ASSUME NEW c \in Conns, PeerLeaves(c)
      PROVE  local' = local
  BY <1>7 DEF PeerLeaves
<1>8. CASE UNCHANGED vars
  BY <1>8 DEF vars
<1> QED
  BY <1>3, <1>4, <1>5, <1>6, <1>7, <1>8 DEF Next

\* A worker that is free begins with one of the first steps of a handler.
LEMMA WorkerStarts ==
  ASSUME TypeOK, [Next]_vars, NEW v \in Workers, local[v].pc = "idle"
  PROVE  local'[v].pc \in {"idle", "attach", "giveback", "refill", "rearm", "close"}
<1>1. local \in [Workers -> Locals]
  BY DEF TypeOK
<1>2. ASSUME NEW w \in Workers, NEW r, local' = [local EXCEPT ![w] = r],
             r.pc \in {"attach", "giveback", "refill", "rearm", "close", "idle"}
      PROVE  local'[v].pc \in {"idle", "attach", "giveback", "refill", "rearm", "close"}
  BY <1>1, <1>2
<1>3. ASSUME NEW w \in Workers, AcceptCompleted(w)
      PROVE  local'[v].pc \in {"idle", "attach", "giveback", "refill", "rearm", "close"}
  <2>1. \E s \in Sessions, label \in {"attach", "giveback"} :
          local' = [local EXCEPT ![w] = At(label, s, conns + 1, "idle")]
    BY <1>3 DEF AcceptCompleted
  <2> QED
    BY <1>2, <2>1 DEF At
<1>4. ASSUME NEW w \in Workers, AcceptRefused(w)
      PROVE  local'[v].pc \in {"idle", "attach", "giveback", "refill", "rearm", "close"}
  <2>1. /\ local' = [local EXCEPT ![w] = [local[w] EXCEPT !.pc = "refill"]]
        /\ [local[w] EXCEPT !.pc = "refill"].pc = "refill"
    BY <1>1, <1>4 DEF AcceptRefused, Goto, Locals
  <2> QED
    BY <1>2, <2>1
<1>5. ASSUME NEW w \in Workers, NEW s \in Sessions, NEW c, NEW back \in {"idle", "rearm"},
             TryDisconnect(w, s, c, back) \/ local' = [local EXCEPT ![w] = At("rearm", s, c, "idle")]
      PROVE  local'[v].pc \in {"idle", "attach", "giveback", "refill", "rearm", "close"}
  BY <1>2, <1>5 DEF TryDisconnect, At, Idle
<1>6. ASSUME NEW w \in Workers, NEW s \in Sessions, NEW c \in Conns,
             RecvEnded(w, s, c) \/ RecvCompleted(w, s, c)
      PROVE  local'[v].pc \in {"idle", "attach", "giveback", "refill", "rearm", "close"}
  BY <1>5, <1>6 DEF RecvEnded, RecvCompleted
<1>7. ASSUME NEW w \in Workers, NEW s \in Sessions, SendFailed(w, s)
      PROVE  local'[v].pc \in {"idle", "attach", "giveback", "refill", "rearm", "close"}
  BY <1>5, <1>7 DEF SendFailed
<1>8. ASSUME NEW w \in Workers, AcceptStep(w) \/ CloseStep(w) \/ Rearm(w)
      PROVE  local'[v] = local[v]
  <2>1. w # v
    BY <1>8 DEF AcceptStep, GiveBack, SetAcceptedSocket, OnAccepted, RegisterActive,
       AssignId, FirstRecv, PostAccept, CloseStep, Close, UnregisterActive, Release, Rearm
  <2> QED
    BY <1>1, <1>8, <2>1 DEF AcceptStep, GiveBack, SetAcceptedSocket, OnAccepted, RegisterActive,
       AssignId, FirstRecv, PostAccept, CloseStep, Close, UnregisterActive, Release, Rearm, Goto
<1>9. ASSUME NEW c \in Conns, PeerLeaves(c)
      PROVE  local' = local
  BY <1>9 DEF PeerLeaves
<1>10. CASE UNCHANGED vars
  BY <1>10 DEF vars
<1> QED
  BY <1>3, <1>4, <1>6, <1>7, <1>8, <1>9, <1>10 DEF Next

\* What the next step of a handler is: the labels in their order.
LEMMA WorkerGoes ==
  ASSUME TypeOK, NEW v \in Workers, local[v].pc # "idle",
         [Next]_vars, local'[v] # local[v]
  PROVE  /\ local'[v].pc # "idle" => local'[v].s = local[v].s /\ local'[v].c = local[v].c
         /\ \/ GiveBack(v) /\ local'[v].pc = "refill"
            \/ SetAcceptedSocket(v) /\ local'[v].pc = "accepted"
            \/ OnAccepted(v) /\ local'[v].pc = "enlist"
            \/ RegisterActive(v) /\ local'[v].pc = "assign"
            \/ AssignId(v) /\ local'[v].pc = "recv"
            \/ FirstRecv(v) /\ local'[v].pc = "refill"
            \/ PostAccept(v) /\ local'[v].pc = "idle"
            \/ Close(v) /\ local'[v].pc = "unregister"
            \/ UnregisterActive(v) /\ local'[v].pc = "return"
            \/ Release(v) /\ local'[v].pc \in {"idle", "rearm"}
            \/ Rearm(v) /\ local'[v].pc = "idle"
<1>1. local \in [Workers -> Locals] /\ local[v].back \in {"idle", "rearm"}
  BY DEF TypeOK, Locals
<1>2. local[v].pc # "refill" => local[v].s # NoSession
  BY DEF TypeOK
<1>3. AcceptStep(v) \/ CloseStep(v) \/ Rearm(v)
  BY WorkerStep
<1>4. CASE RegisterActive(v)
  BY <1>1, <1>4 DEF RegisterActive, Locals
<1>5. ASSUME NEW label \in PCs, Goto(v, label), local[v].pc # "refill" \/ label = "idle"
      PROVE  /\ local'[v].pc = label
             /\ label # "idle" => local'[v].s = local[v].s /\ local'[v].c = local[v].c
  BY <1>2, <1>5, GotoStep
<1>6. /\ PCs \cap {"refill", "accepted", "enlist", "recv", "idle", "unregister", "return", "rearm"}
           = {"refill", "accepted", "enlist", "recv", "idle", "unregister", "return", "rearm"}
  BY DEF PCs, AcceptPCs, ClosePCs
<1>7. CASE GiveBack(v) \/ SetAcceptedSocket(v) \/ OnAccepted(v) \/ AssignId(v)
  BY <1>5, <1>6, <1>7 DEF GiveBack, SetAcceptedSocket, OnAccepted, AssignId
<1>8. CASE FirstRecv(v) \/ PostAccept(v) \/ Rearm(v)
  BY <1>5, <1>6, <1>8 DEF FirstRecv, PostAccept, Rearm
<1>9. CASE Close(v) \/ UnregisterActive(v) \/ Release(v)
  BY <1>1, <1>5, <1>6, <1>9 DEF Close, UnregisterActive, Release
<1> QED
  BY <1>3, <1>4, <1>7, <1>8, <1>9 DEF AcceptStep, CloseStep

\* The socket of an object is changed by the worker that owns it.
LEMMA SocketOwned ==
  ASSUME TypeOK, [Next]_vars, NEW s \in Sessions, sock'[s] # sock[s]
  PROVE  \E w \in Workers :
           /\ local[w].s = s
           /\ SetAcceptedSocket(w) \/ Close(w) \/ GiveBack(w) \/ Release(w)
<1>1. sock \in [Sessions -> OptConns]
  BY DEF TypeOK
<1>2. ASSUME NEW w \in Workers, AcceptStep(w) \/ CloseStep(w)
      PROVE  /\ local[w].s = s
             /\ SetAcceptedSocket(w) \/ Close(w) \/ GiveBack(w) \/ Release(w)
  <2>1. SetAcceptedSocket(w) \/ Close(w) \/ GiveBack(w) \/ Release(w)
    BY <1>2 DEF AcceptStep, CloseStep, OnAccepted, RegisterActive, AssignId, FirstRecv,
       PostAccept, UnregisterActive, sessionVars
  <2>2. \E n : sock' = [sock EXCEPT ![local[w].s] = n]
    BY <2>1 DEF SetAcceptedSocket, Close, GiveBack, Release, ReleaseSession
  <2> QED
    BY <1>1, <2>1, <2>2
<1>3. ASSUME NEW w \in Workers, AcceptCompleted(w) \/ AcceptRefused(w) \/ Rearm(w)
      PROVE  FALSE
  BY <1>3 DEF AcceptCompleted, AcceptRefused, Rearm, sessionVars
<1>4. ASSUME NEW w \in Workers, NEW t \in Sessions, SendFailed(w, t)
      PROVE  FALSE
  BY <1>4 DEF SendFailed
<1>5. ASSUME NEW w \in Workers, NEW t \in Sessions, NEW c \in Conns,
             RecvEnded(w, t, c) \/ RecvCompleted(w, t, c)
      PROVE  FALSE
  BY <1>5 DEF RecvEnded, RecvCompleted
<1>6. ASSUME NEW c \in Conns, PeerLeaves(c)
      PROVE  FALSE
  BY <1>6 DEF PeerLeaves, sessionVars
<1>7. ~UNCHANGED vars
  BY DEF vars, sessionVars
<1> QED
  BY <1>2, <1>3, <1>4, <1>5, <1>6, <1>7 DEF Next

\* In use: made, not in the pool, without an owner; it has a socket then.
LEMMA LiveFacts ==
  ASSUME FullInv, NEW s \in Sessions
  PROVE  /\ Live(s) <=> s \in made /\ ~InPool(s) /\ \A w \in Workers : ~Owns(w, s)
         /\ Live(s) => sock[s] # 0
<1>1. Live(s) <=> s \in made /\ ~InPool(s) /\ \A w \in Workers : ~Owns(w, s)
  BY DEF Live, Owners, Owns
<1> QED
  BY <1>1 DEF FullInv, SockInv

\* An object comes into use with OnAccepted only, and keeps its socket while it is.
LEMMA LiveStep ==
  ASSUME FullInv, [Next]_vars, NEW s \in Sessions, Live(s)'
  PROVE  \/ Live(s) /\ sock'[s] = sock[s]
         \/ \E w \in Workers : OnAccepted(w) /\ local[w].s = s
<1>1. FullInv' /\ TypeOK
  BY SockStep DEF FullInv, PlaceInv
<1>2. s \in made' /\ ~InPool(s)' /\ (\A w \in Workers : ~Owns(w, s)') /\ sock'[s] # 0
  <2>1. s \in made' /\ ~InPool(s)' /\ \A w \in Workers : ~Owns(w, s)'
    BY DEF Live, Owners, Owns
  <2> QED
    BY <1>1, <2>1 DEF FullInv, SockInv
<1>3. ASSUME NEW w \in Workers, local[w].s = s, SetAcceptedSocket(w) \/ Close(w)
      PROVE  Owns(w, s)'
  <2>1. \E label \in {"accepted", "unregister"} : Goto(w, label) /\ label \in PCs
    BY <1>3 DEF SetAcceptedSocket, Close, PCs, AcceptPCs, ClosePCs
  <2>2. local[w].s # NoSession
    BY NoSessionAssumption, <1>3
  <2>3. local'[w].pc \in {"accepted", "unregister"} /\ local'[w].s = s
    BY <1>1, <1>3, <2>1, <2>2, GotoStep
  <2> QED
    BY <2>3 DEF Owns, Owning, ClosePCs
<1>4. sock'[s] = sock[s]
  <2> SUFFICES ASSUME sock'[s] # sock[s] PROVE FALSE
    OBVIOUS
  <2>1. PICK w \in Workers :
          /\ local[w].s = s
          /\ SetAcceptedSocket(w) \/ Close(w) \/ GiveBack(w) \/ Release(w)
    BY <1>1, SocketOwned
  <2>2. CASE GiveBack(w) \/ Release(w)
    <3>1. ReleaseSession(s)
      BY <2>1, <2>2 DEF GiveBack, Release
    <3> QED
      BY <1>1, <1>2, <3>1, ReleaseStep
  <2> QED
    BY <1>2, <1>3, <2>1, <2>2
<1>5. CASE Live(s)
  BY <1>4, <1>5
<1>6. CASE ~Live(s)
  <2>1. sock[s] # 0
    BY <1>2, <1>4
  <2>2. s \in made /\ ~InPool(s)
    BY <2>1 DEF FullInv, SockInv
  <2>3. PICK w \in Workers : Owns(w, s)
    BY <1>6, <2>2, LiveFacts
  <2>4. local[w].pc \in {"close", "accepted"} /\ local[w].s = s
    BY <2>1, <2>3 DEF FullInv, SockInv, Owns, Owning, ClosePCs
  <2>5. local'[w] # local[w]
    BY <1>2, <2>3 DEF Owns
  <2>6. AcceptStep(w) \/ CloseStep(w) \/ Rearm(w)
    BY <1>1, <2>4, <2>5, WorkerStep
  <2>7. OnAccepted(w) \/ Close(w)
    BY <2>4, <2>6 DEF AcceptStep, CloseStep, Rearm, GiveBack, SetAcceptedSocket,
       RegisterActive, AssignId, FirstRecv, PostAccept, UnregisterActive, Release
  <2> QED
    BY <1>2, <1>3, <2>4, <2>7
<1> QED
  BY <1>5, <1>6

\* Tokens not given yet name nobody; those given lead to their object or to nobody.
TokensGiven ==
  /\ \A t \in Tokens : t >= nextToken => active[t] = NoSession
  /\ \A s \in Sessions : id[s] < nextToken
  /\ \A w \in Workers : local[w].pc = "assign" =>
       /\ local[w].tok \in Tokens /\ local[w].tok < nextToken
       /\ active[local[w].tok] \in {local[w].s, NoSession}

\* Steps that give no token: entries and tokens can only go.
LEMMA TokenQuiet ==
  ASSUME TokensGiven, TokenLeadsHome, UNCHANGED nextToken,
         id \in [Sessions -> OptConns], nextToken \in Nat \ {0},
         \A t \in Tokens : active'[t] \in {active[t], NoSession},
         \A s \in Sessions : id'[s] \in {id[s], 0},
         \A v \in Workers : local'[v].pc = "assign" => local'[v] = local[v]
  PROVE  TokensGiven' /\ TokenLeadsHome'
<1>1. TokensGiven'
  BY DEF TokensGiven
<1>2. ASSUME NEW s \in Sessions, id'[s] # 0
      PROVE  active'[id'[s]] \in {s, NoSession}
  <2>1. id'[s] = id[s] /\ id[s] \in Tokens
    BY <1>2 DEF OptConns, Tokens
  <2> QED
    BY <1>2, <2>1 DEF TokenLeadsHome
<1> QED
  BY <1>1, <1>2 DEF TokenLeadsHome

\* The active map changes where RegisterActive writes and where an owner of the
\* object erases its entry.
LEMMA ActiveStep ==
  ASSUME TypeOK, [Next]_vars, NEW t \in Tokens, active'[t] # active[t]
  PROVE  \/ \E w \in Workers : RegisterActive(w) /\ t = nextToken
         \/ active'[t] = NoSession
            /\ \E w \in Workers : UnregisterActive(w) /\ local[w].s = active[t]
<1>1. active \in [Tokens -> Sessions \cup {NoSession}]
  BY DEF TypeOK
<1>2. ASSUME NEW w \in Workers, AcceptStep(w) \/ CloseStep(w) \/ Rearm(w)
      PROVE  RegisterActive(w) \/ UnregisterActive(w)
  BY <1>2 DEF AcceptStep, GiveBack, SetAcceptedSocket, OnAccepted, AssignId, FirstRecv,
     PostAccept, CloseStep, Close, Release, Rearm, activeVars
<1>3. ASSUME NEW w \in Workers, RegisterActive(w)
      PROVE  t = nextToken
  BY <1>1, <1>3 DEF RegisterActive
<1>4. ASSUME NEW w \in Workers, UnregisterActive(w)
      PROVE  active'[t] = NoSession /\ local[w].s = active[t]
  <2>1. PICK e \in Tokens : active[e] = local[w].s /\ active' = [active EXCEPT ![e] = NoSession]
    BY <1>4 DEF UnregisterActive
  <2> QED
    BY <1>1, <2>1
<1>5. ASSUME NEW w \in Workers, AcceptCompleted(w) \/ AcceptRefused(w)
      PROVE  FALSE
  BY <1>5 DEF AcceptCompleted, AcceptRefused, activeVars
<1>6. ASSUME NEW w \in Workers, NEW s \in Sessions, NEW c \in Conns,
             RecvEnded(w, s, c) \/ RecvCompleted(w, s, c)
      PROVE  FALSE
  BY <1>6 DEF RecvEnded, RecvCompleted, activeVars
<1>7. ASSUME NEW w \in Workers, NEW s \in Sessions, SendFailed(w, s)
      PROVE  FALSE
  BY <1>7 DEF SendFailed, activeVars
<1>8. ASSUME NEW c \in Conns, PeerLeaves(c)
      PROVE  FALSE
  BY <1>8 DEF PeerLeaves, activeVars
<1>9. ~UNCHANGED vars
  BY DEF vars, activeVars
<1> QED
  BY <1>2, <1>3, <1>4, <1>5, <1>6, <1>7, <1>8, <1>9 DEF Next

\* Tokens are given by RegisterActive and AssignId only.
LEMMA IdStep ==
  ASSUME TypeOK, [Next]_vars, \A w \in Workers : ~RegisterActive(w) /\ ~AssignId(w)
  PROVE  (\A s \in Sessions : id'[s] \in {id[s], 0}) /\ nextToken' = nextToken
<1>1. id \in [Sessions -> OptConns]
  BY DEF TypeOK
<1>2. CASE id' = id /\ nextToken' = nextToken
  BY <1>2
<1>3. ASSUME NEW w \in Workers, GiveBack(w) \/ Release(w)
      PROVE  (\A s \in Sessions : id'[s] \in {id[s], 0}) /\ nextToken' = nextToken
  BY <1>1, <1>3 DEF GiveBack, Release, ReleaseSession, activeVars
<1>4. ASSUME NEW w \in Workers,
             AcceptCompleted(w) \/ AcceptRefused(w) \/ Rearm(w) \/ SetAcceptedSocket(w)
               \/ OnAccepted(w) \/ FirstRecv(w) \/ PostAccept(w) \/ Close(w) \/ UnregisterActive(w)
      PROVE  id' = id /\ nextToken' = nextToken
  BY <1>4 DEF AcceptCompleted, AcceptRefused, Rearm, SetAcceptedSocket, OnAccepted, FirstRecv,
     PostAccept, Close, UnregisterActive, sessionVars, activeVars
<1>5. ASSUME NEW w \in Workers, NEW s \in Sessions, NEW c \in Conns,
             RecvEnded(w, s, c) \/ RecvCompleted(w, s, c)
      PROVE  id' = id /\ nextToken' = nextToken
  BY <1>5 DEF RecvEnded, RecvCompleted, activeVars
<1>6. ASSUME NEW w \in Workers, NEW s \in Sessions, SendFailed(w, s)
      PROVE  id' = id /\ nextToken' = nextToken
  BY <1>6 DEF SendFailed, activeVars
<1>7. ASSUME NEW c \in Conns, PeerLeaves(c)
      PROVE  id' = id /\ nextToken' = nextToken
  BY <1>7 DEF PeerLeaves, sessionVars, activeVars
<1>8. CASE UNCHANGED vars
  BY <1>8 DEF vars, sessionVars, activeVars
<1> QED
  BY <1>2, <1>3, <1>4, <1>5, <1>6, <1>7, <1>8 DEF Next, AcceptStep, CloseStep

\* Every step keeps the tokens.
LEMMA TokenStep ==
  ASSUME FullInv, TokensGiven, TokenLeadsHome, [Next]_vars
  PROVE  TokensGiven' /\ TokenLeadsHome'
<1>1. /\ TypeOK /\ local \in [Workers -> Locals] /\ active \in [Tokens -> Sessions \cup {NoSession}]
      /\ id \in [Sessions -> OptConns] /\ nextToken \in Nat \ {0}
      /\ nextToken <= MaxConns + 1
  BY BoundAssumption DEF FullInv, PlaceInv, TypeOK
<1>2. ASSUME NEW w \in Workers, RegisterActive(w)
      PROVE  TokensGiven' /\ TokenLeadsHome'
  <2>1. PICK s, n : s = local[w].s /\ n = nextToken
    OBVIOUS
  <2>2. /\ local[w].pc = "enlist" /\ n <= MaxConns /\ active' = [active EXCEPT ![n] = s]
        /\ nextToken' = n + 1 /\ id' = id
        /\ local' = [local EXCEPT ![w] = [local[w] EXCEPT !.pc = "assign", !.tok = n]]
    BY <1>2, <2>1 DEF RegisterActive, sessionVars
  <2>3. n \in Tokens /\ n \in Nat
    BY <1>1, <2>1, <2>2 DEF Tokens
  <2>4. active'[n] = s /\ \A t \in Tokens : t # n => active'[t] = active[t]
    BY <1>1, <2>2, <2>3
  <2>5. /\ local'[w].tok = n /\ local'[w].s = s
        /\ \A v \in Workers : v # w => local'[v] = local[v]
    BY <1>1, <2>1, <2>2 DEF Locals
  <2>6. TokensGiven'
    <3>1. \A t \in Tokens : t >= n + 1 => active'[t] = NoSession
      BY <2>1, <2>3, <2>4 DEF TokensGiven, Tokens
    <3>2. \A t \in Sessions : id'[t] < n + 1
      BY <1>1, <2>1, <2>2, <2>3 DEF TokensGiven, OptConns
    <3>3. ASSUME NEW v \in Workers, local'[v].pc = "assign"
          PROVE  /\ local'[v].tok \in Tokens /\ local'[v].tok < n + 1
                 /\ active'[local'[v].tok] \in {local'[v].s, NoSession}
      <4>1. CASE v = w
        BY <2>3, <2>4, <2>5, <4>1
      <4>2. CASE v # w
        <5>1. /\ local[v].tok \in Tokens /\ local[v].tok < n
              /\ active[local[v].tok] \in {local[v].s, NoSession} /\ local'[v] = local[v]
          BY <2>1, <2>5, <3>3, <4>2 DEF TokensGiven
        <5> QED
          BY <2>3, <2>4, <5>1 DEF Tokens
      <4> QED
        BY <4>1, <4>2
    <3> QED
      BY <2>2, <3>1, <3>2, <3>3 DEF TokensGiven
  <2>7. ASSUME NEW t \in Sessions, id'[t] # 0
        PROVE  active'[id'[t]] \in {t, NoSession}
    <3>1. id'[t] = id[t] /\ id[t] \in Tokens /\ id[t] # n
      BY <1>1, <2>1, <2>2, <2>3, <2>7 DEF TokensGiven, OptConns, Tokens
    <3> QED
      BY <2>4, <2>7, <3>1 DEF TokenLeadsHome
  <2> QED
    BY <2>6, <2>7 DEF TokenLeadsHome
<1>3. ASSUME NEW w \in Workers, AssignId(w)
      PROVE  TokensGiven' /\ TokenLeadsHome'
  <2>1. PICK s, n : s = local[w].s /\ n = local[w].tok
    OBVIOUS
  <2>2. /\ local[w].pc = "assign" /\ id' = [id EXCEPT ![s] = n] /\ active' = active
        /\ nextToken' = nextToken /\ Goto(w, "recv") /\ "recv" \in PCs
    BY <1>3, <2>1 DEF AssignId, activeVars, PCs, AcceptPCs
  <2>3. s \in Sessions /\ s # NoSession
    BY <1>1, <2>1, <2>2 DEF TypeOK, Locals
  <2>4. local'[w].pc = "recv" /\ \A v \in Workers : v # w => local'[v] = local[v]
    BY <1>1, <2>1, <2>2, <2>3, GotoStep
  <2>5. n \in Tokens /\ n < nextToken /\ active[n] \in {s, NoSession}
    BY <2>1, <2>2 DEF TokensGiven
  <2>6. \A t \in Sessions : id'[t] = IF t = s THEN n ELSE id[t]
    BY <1>1, <2>2, <2>3
  <2>7. TokensGiven'
    BY <2>2, <2>4, <2>5, <2>6 DEF TokensGiven
  <2>8. TokenLeadsHome'
    BY <2>2, <2>5, <2>6 DEF TokenLeadsHome
  <2> QED
    BY <2>7, <2>8
<1>4. CASE \A w \in Workers : ~RegisterActive(w) /\ ~AssignId(w)
  <2>1. ASSUME NEW v \in Workers, local'[v].pc = "assign"
        PROVE  local'[v] = local[v]
    BY <1>1, <1>4, <2>1, WorkerStarts, WorkerGoes
  <2>2. \A t \in Tokens : active'[t] \in {active[t], NoSession}
    BY <1>1, <1>4, ActiveStep
  <2>3. (\A s \in Sessions : id'[s] \in {id[s], 0}) /\ nextToken' = nextToken
    BY <1>1, <1>4, IdStep
  <2> QED
    BY <1>1, <2>1, <2>2, <2>3, TokenQuiet
<1> QED
  BY <1>2, <1>3, <1>4

\* What a session in use is said to have, whatever calls fail.
Reachable == TokensGiven /\ TokenLeadsHome /\ LiveIsRegistered

\* An entry of a session in use is not erased, and RegisterActive makes one.
LEMMA RegisteredStep ==
  ASSUME FullInv, Reachable, [Next]_vars
  PROVE  LiveIsRegistered'
<1> SUFFICES ASSUME NEW s \in Sessions, Live(s)', ~Starting(s, {"enlist"})'
             PROVE  \E t \in Tokens : active'[t] = s
  BY DEF LiveIsRegistered
<1>1. FullInv' /\ TypeOK /\ TypeOK' /\ s # NoSession
  BY SockStep, NoSessionAssumption DEF FullInv, PlaceInv
<1>2. \A w \in Workers : ~Owns(w, s)'
  BY DEF Live, Owners, Owns
<1>3. Live(s) /\ sock'[s] = sock[s]
  <2> SUFFICES ASSUME NEW w \in Workers, OnAccepted(w), local[w].s = s
               PROVE  FALSE
    BY LiveStep
  <2>1. /\ local[w].pc = "accepted" /\ Goto(w, "enlist") /\ "enlist" \in PCs /\ sock' = sock
    BY DEF OnAccepted, PCs, AcceptPCs
  <2>2. local'[w].pc = "enlist" /\ local'[w].s = s /\ local'[w].c = local[w].c
    BY <1>1, <2>1, GotoStep
  <2>3. local[w].c = sock[s]
    BY <2>1 DEF FullInv, SockInv
  <2> QED
    BY <2>1, <2>2, <2>3 DEF Starting
<1>4. CASE Starting(s, {"enlist"})
  <2>1. PICK w \in Workers : local[w].s = s /\ local[w].c = sock[s] /\ local[w].pc = "enlist"
    BY <1>4 DEF Starting
  <2>2. local'[w] # local[w]
    BY <1>3, <2>1 DEF Starting
  <2>3. RegisterActive(w)
    BY <1>1, <2>1, <2>2, WorkerGoes DEF GiveBack, SetAcceptedSocket, OnAccepted, AssignId,
       FirstRecv, PostAccept, Close, UnregisterActive, Release, Rearm
  <2>4. nextToken \in Tokens
    BY <1>1, <2>3 DEF RegisterActive, TypeOK, Tokens
  <2>5. active'[nextToken] = s
    BY <1>1, <2>1, <2>3, <2>4 DEF RegisterActive, TypeOK
  <2> QED
    BY <2>4, <2>5
<1>5. CASE ~Starting(s, {"enlist"})
  <2>1. PICK t \in Tokens : active[t] = s
    BY <1>3, <1>5 DEF Reachable, LiveIsRegistered
  <2>2. active'[t] = s
    <3> SUFFICES ASSUME active'[t] # active[t] PROVE FALSE
      BY <2>1
    <3>1. ASSUME NEW w \in Workers, RegisterActive(w), t = nextToken
          PROVE  FALSE
      <4>1. t >= nextToken
        BY <3>1 DEF Tokens
      <4> QED
        BY <1>1, <2>1, <4>1 DEF Reachable, TokensGiven
    <3>2. ASSUME NEW w \in Workers, UnregisterActive(w), local[w].s = s
          PROVE  FALSE
      <4>1. Goto(w, "return") /\ "return" \in PCs
        BY <3>2 DEF UnregisterActive, PCs, ClosePCs
      <4>2. local'[w].pc = "return" /\ local'[w].s = s
        BY <1>1, <3>2, <4>1, GotoStep
      <4> QED
        BY <1>2, <4>2 DEF Owns, Owning, ClosePCs
    <3> QED
      BY <1>1, <2>1, <3>1, <3>2, ActiveStep
  <2> QED
    BY <2>2
<1> QED
  BY <1>4, <1>5

\* A receive outstanding stays so until its completion is taken.
LEMMA RecvsStep ==
  ASSUME TypeOK, [Next]_vars, NEW s \in Sessions, NEW c \in Conns, recvs[s][c] > 0
  PROVE  \/ recvs'[s][c] > 0
         \/ \E w \in Workers : RecvEnded(w, s, c) \/ RecvCompleted(w, s, c)
<1>1. recvs \in [Sessions -> [Conns -> Nat]] /\ local \in [Workers -> Locals]
  BY DEF TypeOK
<1>2. ASSUME NEW w \in Workers, FirstRecv(w) \/ Rearm(w)
      PROVE  recvs'[s][c] > 0
  <2>1. local[w].s \in Sessions /\ Recv(local[w].s)
    BY <1>1, <1>2 DEF FirstRecv, Rearm, TypeOK, Locals
  <2>2. recvs'[s][c] = recvs[s][c] \/ recvs'[s][c] = recvs[s][c] + 1
    BY <2>1, RecvStep
  <2> QED
    BY <1>1, <2>2
<1>3. ASSUME NEW w \in Workers,
             AcceptCompleted(w) \/ AcceptRefused(w) \/ GiveBack(w) \/ SetAcceptedSocket(w)
               \/ OnAccepted(w) \/ RegisterActive(w) \/ AssignId(w) \/ PostAccept(w) \/ CloseStep(w)
      PROVE  recvs' = recvs
  BY <1>3 DEF AcceptCompleted, AcceptRefused, GiveBack, SetAcceptedSocket, OnAccepted,
     RegisterActive, AssignId, PostAccept, CloseStep, Close, UnregisterActive, Release, netVars
<1>4. ASSUME NEW w \in Workers, NEW t \in Sessions, SendFailed(w, t)
      PROVE  recvs' = recvs
  BY <1>4 DEF SendFailed, netVars
<1>5. ASSUME NEW w \in Workers, NEW t \in Sessions, NEW d \in Conns, ~(t = s /\ d = c),
             RecvEnded(w, t, d) \/ RecvCompleted(w, t, d)
      PROVE  recvs'[s][c] > 0
  <2>1. recvs[t][d] > 0 /\ recvs' = [recvs EXCEPT ![t][d] = @ - 1]
    BY <1>5 DEF RecvEnded, RecvCompleted
  <2> QED
    BY <1>5, <2>1, TakeRecv
<1>6. ASSUME NEW d \in Conns, PeerLeaves(d)
      PROVE  recvs' = recvs
  BY <1>6 DEF PeerLeaves
<1>7. CASE UNCHANGED vars
  BY <1>7 DEF vars, netVars
<1> QED
  BY <1>2, <1>3, <1>4, <1>5, <1>6, <1>7 DEF Next, AcceptStep

\* Who takes the completion of a session in use will post the next receive, or
\* closes the session.
LEMMA TakenOver ==
  ASSUME FullInv, FullInv', NEW s \in Sessions, NEW c \in Conns, NEW w \in Workers,
         RecvEnded(w, s, c) \/ RecvCompleted(w, s, c), Live(s)'
  PROVE  \E v \in Workers : local'[v].s = s /\ local'[v].pc = "rearm"
<1>1. TypeOK /\ c \in OptConns
  BY DEF FullInv, PlaceInv, Conns, OptConns
<1>2. s \in made' /\ ~InPool(s)' /\ \A v \in Workers : ~Owns(v, s)'
  BY DEF Live, Owners, Owns
<1>3. ~disconnected'[s]
  BY <1>2 DEF FullInv, PlaceInv, Flags
<1>4. ASSUME NEW back \in {"idle", "rearm"}, TryDisconnect(w, s, c, back)
      PROVE  FALSE
  <2>1. \/ disconnected[s] /\ disconnected' = disconnected
        \/ local' = [local EXCEPT ![w] = At("close", s, c, back)]
    BY <1>4 DEF TryDisconnect
  <2>2. CASE disconnected[s] /\ disconnected' = disconnected
    BY <1>3, <2>2, Zenon
  <2>3. CASE local' = [local EXCEPT ![w] = At("close", s, c, back)]
    <3>1. local'[w].pc = "close" /\ local'[w].s = s
      BY <1>1, <2>3 DEF At, TypeOK
    <3> QED
      BY <1>2, <3>1 DEF Owns, Owning, ClosePCs
  <2> QED
    BY <2>1, <2>2, <2>3, Zenon
<1>5. local' = [local EXCEPT ![w] = At("rearm", s, c, "idle")]
  BY <1>4 DEF RecvEnded, RecvCompleted
<1> QED
  BY <1>1, <1>5 DEF At, TypeOK

\* A worker that leaves a session in use has posted a receive on its socket.
LEMMA OrphanStep ==
  ASSUME FullInv, NoOrphan, [Next]_vars, "recv" \notin Faults
  PROVE  NoOrphan'
<1> DEFINE Starts == {"enlist", "assign", "recv"}
<1> SUFFICES ASSUME NEW s \in Sessions, Live(s)', ~Starting(s, Starts)'
             PROVE  \/ recvs'[s][sock'[s]] > 0
                    \/ \E w \in Workers : local'[w].s = s /\ local'[w].pc = "rearm"
  BY DEF NoOrphan
<1>1. FullInv' /\ TypeOK /\ s # NoSession
  BY SockStep, NoSessionAssumption DEF FullInv, PlaceInv
<1>2. Live(s) /\ sock'[s] = sock[s]
  <2> SUFFICES ASSUME NEW w \in Workers, OnAccepted(w), local[w].s = s
               PROVE  FALSE
    BY LiveStep
  <2>1. /\ local[w].pc = "accepted" /\ Goto(w, "enlist") /\ "enlist" \in PCs /\ sock' = sock
    BY DEF OnAccepted, PCs, AcceptPCs
  <2>2. local'[w].pc = "enlist" /\ local'[w].s = s /\ local'[w].c = local[w].c
    BY <1>1, <2>1, GotoStep
  <2>3. local[w].c = sock[s]
    BY <2>1 DEF FullInv, SockInv
  <2> QED
    BY <2>1, <2>2, <2>3 DEF Starting
<1>3. sock[s] # 0 /\ sock[s] \in Conns
  <2>1. sock[s] # 0
    BY <1>2, LiveFacts
  <2> QED
    BY <1>1, <2>1, BoundAssumption DEF TypeOK, Conns, OptConns
<1>4. ASSUME NEW w \in Workers, local[w].s = s, FirstRecv(w) \/ Rearm(w)
      PROVE  recvs'[s][sock'[s]] > 0
  BY <1>1, <1>2, <1>3, <1>4, RecvStep DEF FirstRecv, Rearm
<1>5. CASE Starting(s, Starts)
  <2>1. PICK w \in Workers : local[w].s = s /\ local[w].c = sock[s] /\ local[w].pc \in Starts
    BY <1>5 DEF Starting
  <2>2. local'[w] # local[w]
    BY <1>2, <2>1 DEF Starting
  <2>3. FirstRecv(w)
    <3>1. \/ RegisterActive(w) /\ local'[w].pc = "assign"
          \/ AssignId(w) /\ local'[w].pc = "recv"
          \/ FirstRecv(w)
      BY <1>1, <2>1, <2>2, WorkerGoes DEF GiveBack, SetAcceptedSocket, OnAccepted,
         PostAccept, Close, UnregisterActive, Release, Rearm
    <3>2. local'[w].pc # "idle" => local'[w].s = s /\ local'[w].c = sock'[s]
      BY <1>1, <1>2, <2>1, <2>2, WorkerGoes
    <3> QED
      BY <3>1, <3>2 DEF Starting
  <2> QED
    BY <1>4, <2>1, <2>3
<1>6. ASSUME NEW w \in Workers, local[w].s = s, local[w].pc = "rearm"
      PROVE  recvs'[s][sock'[s]] > 0 \/ local'[w] = local[w]
  <2>1. local'[w] # local[w] => Rearm(w)
    BY <1>1, <1>6, WorkerGoes DEF GiveBack, SetAcceptedSocket, OnAccepted, RegisterActive,
       AssignId, FirstRecv, PostAccept, Close, UnregisterActive, Release
  <2> QED
    BY <1>4, <1>6, <2>1
<1>7. CASE recvs[s][sock[s]] > 0
  BY <1>1, <1>2, <1>3, <1>7, RecvsStep, TakenOver
<1> QED
  BY <1>2, <1>5, <1>6, <1>7 DEF NoOrphan

-----------------------------------------------------------------------------
\* The invariant of the sessions in use.
AttendedInv == FullInv /\ Reachable /\ ("recv" \notin Faults => NoOrphan)

\* It holds at the start: no object is in use, no token is given.
LEMMA AttendedInit == Init => AttendedInv
<1> SUFFICES ASSUME Init PROVE Reachable /\ NoOrphan
  BY InitSock DEF AttendedInv
<1>1. \A s \in Sessions : ~Live(s)
  BY DEF Init, Live, InPool
<1>2. TokensGiven
  BY DEF Init, TokensGiven, Idle, At
<1>3. TokenLeadsHome
  BY DEF Init, TokenLeadsHome
<1> QED
  BY <1>1, <1>2, <1>3 DEF Reachable, LiveIsRegistered, NoOrphan

\* Every step keeps it.
LEMMA AttendedStep == AttendedInv /\ [Next]_vars => AttendedInv'
BY SockStep, TokenStep, RegisteredStep, OrphanStep DEF AttendedInv, Reachable

\* A session in use is in the active map and its token leads to it or nowhere,
\* whatever calls fail: neither a late completion nor the accept path that is still
\* at work lets Disconnect erase the entry of the next connection
\* (ServerCoreLibrary/SessionManager.cpp:65-91).
THEOREM SessionsReachable == Spec => [](LiveIsRegistered /\ TokenLeadsHome)
<1>1. AttendedInv => LiveIsRegistered /\ TokenLeadsHome
  BY DEF AttendedInv, Reachable
<1> QED
  BY <1>1, AttendedInit, AttendedStep, PTL DEF Spec

\* While WSARecv does not fail, a session in use also hears of its peer's end: a
\* receive is outstanding on its socket or a worker is about to post one
\* (ServerCoreLibrary/Session.cpp:16-40).
THEOREM SessionsAttended ==
  ASSUME "recv" \notin Faults
  PROVE  Spec => []LiveIsAttended
<1>1. AttendedInv => LiveIsAttended
  BY DEF AttendedInv, Reachable, LiveIsAttended
<1> QED
  BY <1>1, AttendedInit, AttendedStep, PTL DEF Spec

-----------------------------------------------------------------------------
\* Workers that hold an AcceptEx request taken from the port.
BusyPCs == AcceptPCs \cup {"giveback", "refill"}
Busy    == {w \in Workers : local[w].pc \in BusyPCs}

\* A step that changes one worker only changes Busy by that worker.
LEMMA BusyOne ==
  ASSUME TypeOK, NEW w \in Workers, NEW r, local' = [local EXCEPT ![w] = r]
  PROVE  /\ local[w].pc \in BusyPCs /\ r.pc \in BusyPCs => Busy' = Busy
         /\ local[w].pc \notin BusyPCs /\ r.pc \notin BusyPCs => Busy' = Busy
         /\ local[w].pc \notin BusyPCs /\ r.pc \in BusyPCs =>
              w \notin Busy /\ Busy' = Busy \cup {w}
         /\ local[w].pc \in BusyPCs /\ r.pc \notin BusyPCs =>
              w \in Busy /\ Busy' = Busy \ {w}
<1>1. /\ local \in [Workers -> Locals] /\ local'[w] = r
      /\ \A v \in Workers : v # w => local'[v] = local[v]
  BY DEF TypeOK
<1>2. Busy = {v \in Workers : local[v].pc \in BusyPCs}
  BY DEF Busy
<1>3. Busy' = {v \in Workers : local'[v].pc \in BusyPCs}
  BY DEF Busy, BusyPCs
<1> QED
  BY <1>1, <1>2, <1>3

\* The record Goto puts in place of a worker's old one.
LEMMA GotoRecord ==
  ASSUME TypeOK, NEW w \in Workers, NEW label \in PCs, Goto(w, label)
  PROVE  \E r : local' = [local EXCEPT ![w] = r] /\ r.pc = label
<1> DEFINE r == IF label = "idle" THEN Idle ELSE [local[w] EXCEPT !.pc = label]
<1>1. local[w] \in Locals
  BY DEF TypeOK
<1>2. r.pc = label
  BY <1>1 DEF Locals, Idle, At
<1>3. local' = [local EXCEPT ![w] = r]
  BY DEF Goto
<1> QED
  BY <1>2, <1>3

\* A step takes a request from the port together with a worker, or posts one
\* together with the worker that held it, or touches neither.
LEMMA BusyStep ==
  ASSUME TypeOK, [Next]_vars
  PROVE  \/ slots' = slots /\ Busy' = Busy
         \/ \E w \in Workers : /\ w \notin Busy /\ Busy' = Busy \cup {w}
                               /\ slots > 0 /\ slots' = slots - 1
         \/ \E w \in Workers : /\ w \in Busy /\ Busy' = Busy \ {w}
                               /\ \/ slots' = slots + 1
                                  \/ "accept" \in Faults /\ slots' = slots
<1> DEFINE Calm  == slots' = slots /\ Busy' = Busy
           Taken == \E w \in Workers : /\ w \notin Busy /\ Busy' = Busy \cup {w}
                                       /\ slots > 0 /\ slots' = slots - 1
<1>1. /\ {"attach", "accepted", "enlist", "assign", "recv", "giveback", "refill"} \subseteq BusyPCs
      /\ BusyPCs \subseteq {"attach", "accepted", "enlist", "assign", "recv", "giveback", "refill"}
      /\ BusyPCs \subseteq PCs /\ {"idle", "rearm", "close", "unregister", "return"} \subseteq PCs
  BY DEF BusyPCs, AcceptPCs, ClosePCs, PCs
<1>2. ASSUME NEW w \in Workers, AcceptCompleted(w) \/ AcceptRefused(w)
      PROVE  Taken
  <2>1. local[w].pc = "idle" /\ slots > 0 /\ slots' = slots - 1
    BY <1>2 DEF AcceptCompleted, AcceptRefused
  <2>2. CASE AcceptRefused(w)
    BY <1>1, <2>1, <2>2, GotoRecord, BusyOne DEF AcceptRefused
  <2>3. CASE AcceptCompleted(w)
    <3>1. \E s \in Sessions, label \in {"attach", "giveback"} :
            local' = [local EXCEPT ![w] = At(label, s, conns + 1, "idle")]
      BY <2>3 DEF AcceptCompleted
    <3>2. PICK s \in Sessions, label \in {"attach", "giveback"} :
            local' = [local EXCEPT ![w] = At(label, s, conns + 1, "idle")]
      BY <3>1
    <3>3. At(label, s, conns + 1, "idle").pc = label
      BY DEF At
    <3> QED
      BY <1>1, <2>1, <3>2, <3>3, BusyOne
  <2> QED
    BY <1>2, <2>2, <2>3
<1>3. ASSUME NEW w \in Workers, NEW label \in PCs, Goto(w, label), slots' = slots,
             local[w].pc \in BusyPCs <=> label \in BusyPCs
      PROVE  Calm
  BY <1>3, GotoRecord, BusyOne
<1>4. ASSUME NEW w \in Workers, GiveBack(w) \/ SetAcceptedSocket(w) \/ OnAccepted(w)
                               \/ AssignId(w) \/ FirstRecv(w)
      PROVE  Calm
  <2>1. local[w].pc \in BusyPCs /\ slots' = slots
    BY <1>1, <1>4 DEF GiveBack, SetAcceptedSocket, OnAccepted, AssignId, FirstRecv, netVars
  <2>2. \E label \in BusyPCs : Goto(w, label)
    BY <1>1, <1>4 DEF GiveBack, SetAcceptedSocket, OnAccepted, AssignId, FirstRecv
  <2> QED
    BY <1>1, <1>3, <2>1, <2>2
<1>5. ASSUME NEW w \in Workers, RegisterActive(w)
      PROVE  Calm
  <2>1. /\ local[w].pc = "enlist" /\ slots' = slots
        /\ local' = [local EXCEPT ![w] = [local[w] EXCEPT !.pc = "assign", !.tok = nextToken]]
    BY <1>5 DEF RegisterActive, netVars
  <2>2. local[w] \in Locals
    BY DEF TypeOK
  <2>3. [local[w] EXCEPT !.pc = "assign", !.tok = nextToken].pc = "assign"
    BY <2>2 DEF Locals
  <2> QED
    BY <1>1, <2>1, <2>3, BusyOne
<1>6. ASSUME NEW w \in Workers, PostAccept(w)
      PROVE  \E v \in Workers : /\ v \in Busy /\ Busy' = Busy \ {v}
                                /\ \/ slots' = slots + 1
                                   \/ "accept" \in Faults /\ slots' = slots
  <2>1. /\ local[w].pc = "refill" /\ Goto(w, "idle")
        /\ \/ slots' = slots + 1
           \/ "accept" \in Faults /\ slots' = slots
    BY <1>6 DEF PostAccept
  <2>2. w \in Busy /\ Busy' = Busy \ {w}
    BY <1>1, <2>1, GotoRecord, BusyOne
  <2> QED
    BY <2>1, <2>2
<1>7. ASSUME NEW w \in Workers, CloseStep(w) \/ Rearm(w)
      PROVE  Calm
  <2>1. local[w].pc \notin BusyPCs /\ slots' = slots
    BY <1>1, <1>7 DEF CloseStep, Close, UnregisterActive, Release, Rearm, netVars
  <2>2. local[w].back \in {"idle", "rearm"}
    BY DEF TypeOK, Locals
  <2>3. \E label \in {"idle", "rearm", "unregister", "return"} : Goto(w, label)
    BY <1>7, <2>2 DEF CloseStep, Close, UnregisterActive, Release, Rearm
  <2> QED
    BY <1>1, <1>3, <2>1, <2>3
<1>8. ASSUME NEW w \in Workers, NEW s, NEW c, NEW back \in {"idle", "rearm"},
             local[w].pc = "idle", slots' = slots,
             TryDisconnect(w, s, c, back) \/ local' = [local EXCEPT ![w] = At("rearm", s, c, "idle")]
      PROVE  Calm
  <2>1. \E r : local' = [local EXCEPT ![w] = r] /\ r.pc \in {"idle", "rearm", "close"}
    BY <1>8 DEF TryDisconnect, At, Idle
  <2> QED
    BY <1>1, <1>8, <2>1, BusyOne
<1>9. ASSUME NEW w \in Workers, NEW s \in Sessions, NEW c \in Conns,
             RecvEnded(w, s, c) \/ RecvCompleted(w, s, c)
      PROVE  Calm
  BY <1>8, <1>9 DEF RecvEnded, RecvCompleted
<1>10. ASSUME NEW w \in Workers, NEW s \in Sessions, SendFailed(w, s)
       PROVE  Calm
  BY <1>8, <1>10 DEF SendFailed, netVars
<1>11. ASSUME NEW c \in Conns, PeerLeaves(c)
       PROVE  Calm
  <2>1. slots' = slots /\ local' = local
    BY <1>11 DEF PeerLeaves
  <2> QED
    BY <2>1 DEF Busy
<1>12. CASE UNCHANGED vars
  <2>1. slots' = slots /\ local' = local
    BY <1>12 DEF vars, netVars
  <2> QED
    BY <2>1 DEF Busy
<1> QED
  BY <1>2, <1>4, <1>5, <1>6, <1>7, <1>9, <1>10, <1>11, <1>12 DEF Next, AcceptStep

\* The requests outstanding and those in the hands of a worker are at most
\* those posted at start, and just those while no PostAccept fails.
SlotInv ==
  /\ slots + Cardinality(Busy) <= Slots
  /\ "accept" \notin Faults => slots + Cardinality(Busy) = Slots

\* Every step keeps the balance, for a finite number of workers.
LEMMA SlotStep ==
  ASSUME IsFiniteSet(Workers), TypeOK, SlotInv, [Next]_vars
  PROVE  SlotInv'
<1>1. /\ IsFiniteSet(Busy) /\ Cardinality(Busy) \in Nat
      /\ slots \in Nat /\ Slots \in Nat
  BY FS_Subset, FS_CardinalityType, BoundAssumption DEF Busy, TypeOK
<1>2. SlotInv' <=> /\ slots' + Cardinality(Busy') <= Slots
                   /\ "accept" \notin Faults => slots' + Cardinality(Busy') = Slots
  BY DEF SlotInv
<1>3. CASE slots' = slots /\ Busy' = Busy
  BY <1>2, <1>3 DEF SlotInv
<1>4. ASSUME NEW w \in Workers, w \notin Busy, Busy' = Busy \cup {w},
             slots > 0, slots' = slots - 1
      PROVE  SlotInv'
  <2>1. Cardinality(Busy') = Cardinality(Busy) + 1
    BY <1>1, <1>4, FS_AddElement
  <2> QED
    BY <1>1, <1>2, <1>4, <2>1 DEF SlotInv
<1>5. ASSUME NEW w \in Workers, w \in Busy, Busy' = Busy \ {w},
             slots' = slots + 1 \/ ("accept" \in Faults /\ slots' = slots)
      PROVE  SlotInv'
  <2>1. Cardinality(Busy') = Cardinality(Busy) - 1
    BY <1>1, <1>5, FS_RemoveElement
  <2> QED
    BY <1>1, <1>2, <1>5, <2>1 DEF SlotInv
<1> QED
  BY <1>3, <1>4, <1>5, BusyStep

\* The server never listens with fewer AcceptEx requests than it posted at
\* start while PostAccept does not fail, and whatever fails never with more:
\* every way out of OnAcceptCompleted and of WorkerLoop posts just one
\* (ServerCoreLibrary/Listener.cpp:64-167).
THEOREM SlotsStay ==
  ASSUME IsFiniteSet(Workers)
  PROVE  /\ "accept" \notin Faults => (Spec => []SlotsKept)
         /\ Spec => [](slots + Cardinality(Busy) <= Slots)
<1>1. Init => SlotInv
  <2> SUFFICES ASSUME Init PROVE SlotInv
    OBVIOUS
  <2>1. Busy = {} /\ slots = Slots
    BY DEF Init, Busy, Idle, At, BusyPCs, AcceptPCs
  <2> QED
    BY <2>1, FS_EmptySet, BoundAssumption DEF SlotInv
<1>2. TypeOK /\ SlotInv /\ [Next]_vars => SlotInv'
  BY SlotStep
<1>3. SlotInv => /\ "accept" \notin Faults => SlotsKept
                 /\ slots + Cardinality(Busy) <= Slots
  BY DEF SlotInv, SlotsKept, Busy, BusyPCs
<1>4. Spec => []SlotInv
  BY <1>1, <1>2, TypeCorrect, PTL DEF Spec
<1>5. ASSUME "accept" \notin Faults PROVE SlotInv => SlotsKept
  BY <1>3, <1>5
<1>6. ASSUME "accept" \notin Faults PROVE Spec => []SlotsKept
  BY <1>4, <1>5, <1>6, PTL
<1>7. Spec => [](slots + Cardinality(Busy) <= Slots)
  BY <1>3, <1>4, PTL
<1> QED
  BY <1>6, <1>7

=============================================================================
