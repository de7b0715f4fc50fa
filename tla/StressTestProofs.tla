--------------------------- MODULE StressTestProofs ---------------------------
(***************************************************************************)
(* Proofs about the load generator for any number of sockets, threads and  *)
(* requests and any length of the payload: where each stream stands, and   *)
(* that the report counts every request once.                              *)
(***************************************************************************)
EXTENDS StressTest, FiniteSetTheorems, WellFoundedInduction, TLAPS

PCs     == {"none", "while", "for", "head", "body", "push", "count", "err", "think", "done"}
Pending == {"head", "body", "push", "count", "err"}
Working == Pending \cup {"for", "think"}

\* The types.
StressTypes ==
  /\ proto \in Protos /\ threads \in 0 .. MaxThreads
  /\ connected \in 0 .. tried /\ tried \in 0 .. Concurrency
  /\ wpc \in [Workers -> PCs] /\ cur \in [Workers -> Nat]
  /\ head \in [Workers -> Nat] /\ need \in [Workers -> Int]
  /\ conn \in [Sockets -> {"none", "good", "torn", "ended", "closed"}]
  /\ made \in [Sockets -> Nat] /\ read \in [Sockets -> Nat]
  /\ gaveUp \in [Sockets -> BOOLEAN]
  /\ rtts \in Nat /\ ok \in Nat /\ err \in Nat

\* Before the workers start nothing was requested.
Fresh ==
  mpc \in {"parse", "connect"} =>
    /\ \A w \in Workers : wpc[w] = "none"
    /\ \A s \in Sockets : made[s] = 0 /\ read[s] = 0 /\ ~gaveUp[s]

\* A worker that was started has sockets, and is at one of its own.
Dealt ==
  \A w \in Workers : wpc[w] # "none" =>
    /\ w < threads /\ threads <= connected
    /\ wpc[w] \in Working => cur[w] \in Bucket(w)

\* The workers main has joined have returned.
Joined == mpc \in {"close", "exited"} => \A w \in Workers : wpc[w] \in {"none", "done"}

Reading(s) == \E w \in Workers : wpc[w] \in {"head", "body"} /\ cur[w] = s
InStep(s)  == conn[s] = "good" /\ ~gaveUp[s]
Behind(s)  == conn[s] = "good" /\ gaveUp[s] /\ proto = "raw"

\* Where the stream of a socket stands on which nothing was given up: at the
\* end of the last answer, or as far into it as its reader knows.
Exact ==
  \A s \in Sockets : InStep(s) =>
    /\ ~Reading(s) => read[s] = made[s] * L
    /\ \A w \in Workers : cur[w] = s =>
         /\ wpc[w] = "head" => /\ read[s] = (made[s] - 1) * L + head[w]
                               /\ head[w] # 0 => need[w] = BodyLen + 1
         /\ wpc[w] = "body" => read[s] + need[w] = made[s] * L

\* Where it stands when a receive was given up, in the raw protocol.
Late ==
  \A s \in Sockets : Behind(s) =>
    /\ ~Reading(s) => read[s] < made[s] * L
    /\ \A w \in Workers : cur[w] = s /\ wpc[w] = "body" => read[s] + need[w] < made[s] * L

\* The locals of a request.
Locals ==
  \A w \in Workers :
    /\ wpc[w] = "head" => head[w] < HeadUnits
    /\ wpc[w] # "head" => head[w] = 0
    /\ wpc[w] = "body" => need[w] > 0

\* The counts.
Balance ==
  /\ IsFiniteSet(Requests)
  /\ rtts = ok + Cardinality({w \in Workers : wpc[w] = "count"})
  /\ ok + err + Cardinality({w \in Workers : wpc[w] \in Pending}) = Cardinality(Requests)

StressInv == StressTypes /\ Fresh /\ Dealt /\ Joined /\ Exact /\ Late /\ Locals /\ Balance

-----------------------------------------------------------------------------
(* Arithmetic. *)

\* The units of an answer.
LEMMA AnswerUnits ==
  ASSUME proto \in Protos
  PROVE  /\ HeadUnits \in 0 .. 2 /\ L = HeadUnits + BodyLen /\ L \in Nat \ {0}
         /\ BodyLen \in Nat \ {0}
         /\ proto = "raw" <=> HeadUnits = 0
BY StressAssumption DEF Protos, HeadUnits, L

\* One answer more.
LEMMA OneMore ==
  ASSUME NEW m \in Int, NEW l \in Int
  PROVE  (m + 1) * l = m * l + l
OBVIOUS

\* What ends with an answer starts with the next one.
LEMMA AnswerBorder ==
  ASSUME NEW m \in Int, NEW l \in Nat \ {0}
  PROVE  (m * l) % l = 0
<1> DEFINE x == m * l
<1>1. x \in Int
  OBVIOUS
<1>2. x = l * (x \div l) + (x % l) /\ x % l \in 0 .. l - 1 /\ x \div l \in Int
  <2> HIDE DEF x
  <2> QED
    BY <1>1
<1> DEFINE d == m - (x \div l)
<1>3. d \in Int /\ d * l = x % l
  BY <1>2
<1>4. d > 0 => d * l >= l
  BY <1>3
<1>5. d < 0 => d * l < 0
  BY <1>3
<1>6. d = 0
  <2> HIDE DEF d, x
  <2> QED
    BY <1>2, <1>3, <1>4, <1>5
<1> QED
  BY <1>3, <1>6

\* A set of naturals that is not empty has its minimum.
LEMMA MinIn ==
  ASSUME NEW S, S \subseteq Nat, S # {}
  PROVE  Min(S) \in S
<1>1. PICK x \in S : \A y \in S : ~ (<<y, x>> \in OpToRel(<, Nat))
  BY NatLessThanWellFounded, WFMin
<1>2. ASSUME NEW y \in S PROVE x <= y
  <2>1. x \in Nat /\ y \in Nat /\ (y < x => <<y, x>> \in Nat \X Nat)
    OBVIOUS
  <2>2. y < x => <<y, x>> \in OpToRel(<, Nat)
    BY <2>1, Zenon DEF OpToRel
  <2>3. ~ (y < x)
    BY <1>1, <2>2, Zenon
  <2> QED
    BY <2>1, <2>3
<1> QED
  BY <1>2 DEF Min

-----------------------------------------------------------------------------
(* Workers and their sockets. *)

\* The socket a worker is at is its own alone.
LEMMA OwnSocket ==
  ASSUME StressTypes, Dealt, NEW w \in Workers, wpc[w] \in Working
  PROVE  /\ cur[w] \in Sockets /\ w < threads /\ threads <= connected
         /\ \A v \in Workers : v # w /\ wpc[v] \in Working
                                 => cur[v] # cur[w]
<1>1. /\ cur[w] \in 0 .. connected - 1 /\ cur[w] % threads = w
      /\ w < threads /\ threads <= connected
  BY DEF Dealt, Bucket, Working, Pending
<1>2. cur[w] \in Sockets
  BY <1>1, StressAssumption DEF StressTypes, Sockets
<1>3. ASSUME NEW v \in Workers, wpc[v] \in Working
      PROVE  cur[v] % threads = v
  BY <1>3 DEF Dealt, Bucket, Working, Pending
<1> QED
  BY <1>1, <1>2, <1>3

\* What a worker's step leaves alone.
Frame(w) ==
  /\ UNCHANGED args
  /\ wpc' \in [Workers -> PCs] /\ cur' \in [Workers -> Nat]
  /\ head' \in [Workers -> Nat] /\ need' \in [Workers -> Int]
  /\ \A v \in Workers : v # w => /\ wpc'[v] = wpc[v] /\ cur'[v] = cur[v]
                                 /\ head'[v] = head[v] /\ need'[v] = need[v]

\* Every step of a worker stays within its frame.
LEMMA WorkerFrame ==
  ASSUME StressTypes, Dealt, NEW w \in Workers, WorkerLoop(w)
  PROVE  Frame(w)
<1>0. /\ wpc \in [Workers -> PCs] /\ cur \in [Workers -> Nat]
      /\ head \in [Workers -> Nat] /\ need \in [Workers -> Int] /\ proto \in Protos
  BY DEF StressTypes
<1>1. HeadUnits \in 0 .. 2 /\ BodyLen \in Nat
  BY <1>0, AnswerUnits
<1>2. ASSUME NEW label \in PCs, Go(w, label), UNCHANGED args,
             NEW c \in Nat, cur' = [cur EXCEPT ![w] = c],
             NEW h \in Nat, head' = [head EXCEPT ![w] = h],
             NEW n \in Int, need' = [need EXCEPT ![w] = n]
      PROVE  Frame(w)
  BY <1>0, <1>2 DEF Frame, Go
<1>3. /\ cur = [cur EXCEPT ![w] = cur[w]] /\ cur[w] \in Nat
      /\ head = [head EXCEPT ![w] = head[w]] /\ head[w] \in Nat
      /\ need = [need EXCEPT ![w] = need[w]] /\ need[w] \in Int
      /\ wpc = [wpc EXCEPT ![w] = wpc[w]] /\ wpc[w] \in PCs
  BY <1>0
<1>4. {"while", "for", "head", "body", "push", "count", "err", "think", "done"} \subseteq PCs
  BY DEF PCs
<1>5. CASE OuterLoop(w)
  <2>1. wpc[w] = "while" /\ UNCHANGED args /\ UNCHANGED <<head, need>>
    BY <1>5 DEF OuterLoop, WorkerAt
  <2>2. CASE Go(w, "done") /\ cur' = cur
    BY <1>2, <1>3, <1>4, <2>1, <2>2
  <2>3. CASE Go(w, "for") /\ cur' = [cur EXCEPT ![w] = Min(Bucket(w))]
    <3>1. Bucket(w) \subseteq Nat
      BY DEF Bucket, StressTypes
    <3>2. w \in Bucket(w)
      <4>1. w \in Nat /\ w < threads /\ threads <= connected /\ threads \in Nat /\ connected \in Int
        BY <2>1, StressAssumption DEF Dealt, StressTypes, Workers
      <4>2. w % threads = w
        BY <4>1
      <4> QED
        BY <4>1, <4>2 DEF Bucket
    <3>3. Min(Bucket(w)) \in Nat
      BY <3>1, <3>2, MinIn
    <3> QED
      BY <1>2, <1>3, <1>4, <2>1, <2>3, <3>3
  <2> QED
    BY <1>5, <2>2, <2>3 DEF OuterLoop
<1>6. CASE InnerStop(w)
  BY <1>2, <1>3, <1>4, <1>6 DEF InnerStop
<1>7. CASE Send(w)
  <2> DEFINE n == IF HeadUnits = 0 THEN BodyLen ELSE 0
             label == IF HeadUnits = 0 THEN "body" ELSE "head"
  <2>1. n \in Int /\ label \in PCs
    BY <1>1, <1>4
  <2>2. need' = [need EXCEPT ![w] = n] /\ Go(w, label)
    BY <1>7 DEF Send
  <2>3. UNCHANGED args /\ cur' = cur /\ head' = head
    BY <1>7 DEF Send
  <2> HIDE DEF n, label
  <2> QED
    BY <1>2, <1>3, <2>1, <2>2, <2>3
<1>8. CASE SendFails(w)
  BY <1>2, <1>3, <1>4, <1>8 DEF SendFails
<1>9. CASE PushRtt(w) \/ CountOk(w) \/ CountErr(w)
  BY <1>2, <1>3, <1>4, <1>9 DEF PushRtt, CountOk, CountErr
<1>10. CASE NextSocket(w)
  <2> DEFINE rest == {s \in Bucket(w) : s > cur[w]}
  <2>1. rest # {} => Min(rest) \in Nat
    <3>1. rest \subseteq Nat
      BY DEF Bucket, StressTypes
    <3> QED
      BY <3>1, MinIn
  <2>2. /\ UNCHANGED args /\ UNCHANGED <<head, need>>
        /\ \/ Go(w, "while") /\ cur' = cur
           \/ rest # {} /\ Go(w, "for") /\ cur' = [cur EXCEPT ![w] = Min(rest)]
    BY <1>10 DEF NextSocket
  <2> HIDE DEF rest
  <2> QED
    BY <1>2, <1>3, <1>4, <2>1, <2>2
<1>11. CASE ReadHead(w)
  <2>1. UNCHANGED args /\ cur' = cur
    BY <1>11 DEF ReadHead
  <2>2. PICK body \in IF head[w] = 0 THEN Announced(cur[w]) ELSE {need[w] - 1} :
          \/ /\ head' = [head EXCEPT ![w] = head[w] + 1]
             /\ need' = [need EXCEPT ![w] = body + 1] /\ UNCHANGED wpc
          \/ /\ head' = [head EXCEPT ![w] = 0]
             /\ need' = [need EXCEPT ![w] = body]
             /\ Go(w, IF body = 0 THEN "push" ELSE "body")
          \/ Forget(w) /\ Go(w, "err")
    BY <1>11 DEF ReadHead
  <2>3. body \in Int
    <3>1. Announced(cur[w]) \subseteq Int
      BY <1>1 DEF Announced
    <3> QED
      BY <1>3, <2>2, <3>1
  <2>4. CASE /\ head' = [head EXCEPT ![w] = head[w] + 1]
             /\ need' = [need EXCEPT ![w] = body + 1] /\ wpc' = wpc
    <3>1. body + 1 \in Int /\ head[w] + 1 \in Nat /\ Go(w, wpc[w])
      BY <1>3, <2>3, <2>4 DEF Go
    <3> QED
      BY <1>2, <1>3, <2>1, <2>4, <3>1
  <2>5. CASE /\ head' = [head EXCEPT ![w] = 0]
             /\ need' = [need EXCEPT ![w] = body]
             /\ Go(w, IF body = 0 THEN "push" ELSE "body")
    <3> DEFINE label == IF body = 0 THEN "push" ELSE "body"
    <3>1. label \in PCs /\ Go(w, label)
      BY <1>4, <2>5
    <3>2. /\ head' = [head EXCEPT ![w] = 0] /\ need' = [need EXCEPT ![w] = body]
          /\ cur' = [cur EXCEPT ![w] = cur[w]] /\ cur[w] \in Nat /\ 0 \in Nat
      BY <1>3, <2>1, <2>5
    <3> HIDE DEF label
    <3> QED
      BY <1>2, <2>1, <2>3, <3>1, <3>2
  <2>6. CASE Forget(w) /\ Go(w, "err")
    <3>1. /\ head' = [head EXCEPT ![w] = 0] /\ need' = [need EXCEPT ![w] = 0]
          /\ cur' = [cur EXCEPT ![w] = cur[w]] /\ cur[w] \in Nat /\ 0 \in Nat /\ 0 \in Int
      BY <1>3, <2>1, <2>6 DEF Forget
    <3> QED
      BY <1>2, <1>4, <2>1, <2>6, <3>1
  <2> QED
    BY <2>2, <2>4, <2>5, <2>6
<1>12. CASE ReadBody(w)
  <2>1. UNCHANGED args /\ cur' = cur /\ head' = head
    BY <1>12 DEF ReadBody
  <2>2. need' = [need EXCEPT ![w] = need[w] - 1] /\ need[w] - 1 \in Int
    BY <1>3, <1>12 DEF ReadBody
  <2>3. \E label \in {"push", "body"} : Go(w, label)
    BY <1>12 DEF ReadBody
  <2> QED
    BY <1>2, <1>3, <1>4, <2>1, <2>2, <2>3
<1>13. CASE RecvFails(w) \/ RecvTimesOut(w)
  BY <1>2, <1>3, <1>4, <1>13 DEF RecvFails, RecvTimesOut, Forget
<1>14. CASE NoMemory(w)
  <2>1. wpc' = wpc /\ cur' = cur /\ head' = head /\ need' = need /\ UNCHANGED args
    BY <1>14 DEF NoMemory, work
  <2> QED
    BY <1>0, <2>1 DEF Frame
<1> QED
  BY <1>5, <1>6, <1>7, <1>8, <1>9, <1>10, <1>11, <1>12, <1>13, <1>14
     DEF WorkerLoop, OwnStep, Receive

\* A step of a worker takes it to a socket of its own bucket, or leaves it at
\* the one it is busy with.
LEMMA WorkerPlace ==
  ASSUME StressTypes, Dealt, NEW w \in Workers, WorkerLoop(w)
  PROVE  /\ wpc[w] \notin {"none", "done"} /\ wpc'[w] # "none"
         /\ mpc' = mpc \/ mpc' = "terminated"
         /\ wpc'[w] \in Working => cur'[w] \in Bucket(w)
<1>0. /\ wpc \in [Workers -> PCs] /\ cur \in [Workers -> Nat]
      /\ wpc[w] \in Working => cur[w] \in Bucket(w)
  BY DEF StressTypes, Dealt, Working, Pending
<1>1. {"for", "head", "body", "push", "count", "err", "think"} \subseteq Working
      /\ Working \subseteq {"for", "head", "body", "push", "count", "err", "think"}
  BY DEF Working, Pending
<1>2. ASSUME wpc[w] \in Working, cur' = cur, mpc' = mpc,
             NEW label \in PCs, Go(w, label), label # "none"
      PROVE  /\ wpc[w] \notin {"none", "done"} /\ wpc'[w] # "none"
             /\ mpc' = mpc \/ mpc' = "terminated"
             /\ wpc'[w] \in Working => cur'[w] \in Bucket(w)
  <2>1. wpc' = [wpc EXCEPT ![w] = label]
    BY <1>2 DEF Go
  <2>2. wpc'[w] = label /\ cur'[w] = cur[w] /\ cur[w] \in Bucket(w)
    BY <1>0, <1>2, <2>1
  <2>3. wpc[w] \notin {"none", "done"}
    BY <1>1, <1>2
  <2> QED
    BY <1>2, <2>2, <2>3
<1>3. {"while", "for", "head", "body", "push", "count", "err", "think", "done"} \subseteq PCs
  BY DEF PCs
<1>4. CASE OuterLoop(w)
  <2>1. wpc[w] = "while" /\ mpc' = mpc
    BY <1>4 DEF OuterLoop, WorkerAt, main
  <2>2. CASE Go(w, "done")
    BY <1>0, <1>1, <2>1, <2>2 DEF Go
  <2>3. CASE Go(w, "for") /\ cur' = [cur EXCEPT ![w] = Min(Bucket(w))]
    <3>1. w \in Bucket(w) /\ Bucket(w) \subseteq Nat
      <4>1. w \in Nat /\ w < threads /\ threads <= connected /\ threads \in Nat /\ connected \in Int
        BY <2>1, StressAssumption DEF Dealt, StressTypes, Workers
      <4>2. w % threads = w
        BY <4>1
      <4> QED
        BY <4>1, <4>2 DEF Bucket
    <3>2. Min(Bucket(w)) \in Bucket(w)
      BY <3>1, MinIn
    <3>3. cur'[w] = Min(Bucket(w)) /\ wpc'[w] = "for"
      BY <1>0, <2>3 DEF Go
    <3> QED
      BY <1>1, <2>1, <3>2, <3>3
  <2> QED
    BY <1>4, <2>2, <2>3 DEF OuterLoop
<1>5. CASE NextSocket(w)
  <2> DEFINE rest == {s \in Bucket(w) : s > cur[w]}
  <2>1. wpc[w] = "think" /\ mpc' = mpc
    BY <1>5 DEF NextSocket, WorkerAt, main
  <2>2. \/ Go(w, "while") /\ cur' = cur
        \/ rest # {} /\ Go(w, "for") /\ cur' = [cur EXCEPT ![w] = Min(rest)]
    BY <1>5 DEF NextSocket
  <2>3. rest # {} => Min(rest) \in Bucket(w)
    <3>1. rest \subseteq Nat
      BY DEF Bucket, StressTypes
    <3> QED
      BY <3>1, MinIn
  <2>4. \/ wpc'[w] = "while"
        \/ wpc'[w] = "for" /\ cur'[w] \in Bucket(w)
    <3> HIDE DEF rest
    <3> QED
      BY <1>0, <2>2, <2>3 DEF Go
  <2> QED
    BY <1>1, <2>1, <2>4
<1>6. CASE InnerStop(w) \/ PushRtt(w) \/ CountOk(w) \/ CountErr(w)
  <2>1. wpc[w] \in Working /\ cur' = cur /\ mpc' = mpc
    BY <1>1, <1>6 DEF InnerStop, PushRtt, CountOk, CountErr, WorkerAt, main, work
  <2>2. \E label \in {"while", "count", "think"} : Go(w, label)
    BY <1>6 DEF InnerStop, PushRtt, CountOk, CountErr
  <2> QED
    BY <1>2, <1>3, <2>1, <2>2
<1>7. CASE Send(w) \/ SendFails(w)
  <2>1. wpc[w] \in Working /\ cur' = cur /\ mpc' = mpc
    BY <1>1, <1>7 DEF Send, SendFails, WorkerAt, main
  <2>2. \E label \in {"body", "head", "err"} : Go(w, label)
    BY <1>7 DEF Send, SendFails
  <2> QED
    BY <1>2, <1>3, <2>1, <2>2
<1>8. CASE ReadHead(w)
  <2>1. wpc[w] = "head" /\ cur' = cur /\ mpc' = mpc
    BY <1>8 DEF ReadHead, WorkerAt, main
  <2>2. \/ wpc' = wpc
        \/ \E label \in {"push", "body", "err"} : Go(w, label)
    BY <1>8 DEF ReadHead
  <2>3. wpc' = wpc => Go(w, "head")
    BY <1>0, <2>1 DEF Go
  <2> QED
    BY <1>1, <1>2, <1>3, <2>1, <2>2, <2>3
<1>9. CASE ReadBody(w) \/ RecvFails(w) \/ RecvTimesOut(w)
  <2>1. wpc[w] \in Working /\ cur' = cur /\ mpc' = mpc
    BY <1>1, <1>9 DEF ReadBody, RecvFails, RecvTimesOut, WorkerAt, main
  <2>2. \E label \in {"body", "push", "err"} : Go(w, label)
    BY <1>9 DEF ReadBody, RecvFails, RecvTimesOut
  <2> QED
    BY <1>2, <1>3, <2>1, <2>2
<1>10. CASE NoMemory(w)
  <2>1. wpc[w] = "head" /\ wpc' = wpc /\ cur' = cur /\ mpc' = "terminated"
    BY <1>10 DEF NoMemory, WorkerAt, work
  <2> QED
    BY <1>0, <1>1, <2>1
<1> QED
  BY <1>4, <1>5, <1>6, <1>7, <1>8, <1>9, <1>10 DEF WorkerLoop, OwnStep, Receive

\* The thread count is at least one, and at most the sockets.
LEMMA ThreadsFit ==
  ASSUME NEW n \in 1 .. MaxThreads, connected \in Nat, connected > 0
  PROVE  /\ ThreadsUsed(n) \in 1 .. MaxThreads /\ ThreadsUsed(n) <= connected
<1> DEFINE m == IF n <= connected THEN n ELSE connected
<1>1. m \in Nat /\ m \in {n, connected} /\ m >= 1 /\ m <= n /\ m <= connected
      /\ MaxThreads \in Nat
  BY StressAssumption
<1>2. Min({n, connected}) = m
  <2>1. \A x \in {n, connected} : (\A y \in {n, connected} : x <= y) <=> x = m
    OBVIOUS
  <2> QED
    BY <1>1, <2>1 DEF Min
<1>3. Max({1, m}) = m
  <2>1. \A x \in {1, m} : (\A y \in {1, m} : x >= y) <=> x = m
    <3> HIDE DEF m
    <3> QED
      BY <1>1
  <2> HIDE DEF m
  <2> QED
    BY <2>1 DEF Max
<1> QED
  BY <1>1, <1>2, <1>3 DEF ThreadsUsed

\* Types are kept.
LEMMA TypesStep ==
  ASSUME StressTypes, Dealt, [Next]_vars
  PROVE  StressTypes'
<1>0. /\ proto \in Protos /\ threads \in 0 .. MaxThreads
      /\ connected \in 0 .. tried /\ tried \in 0 .. Concurrency
      /\ wpc \in [Workers -> PCs] /\ cur \in [Workers -> Nat]
      /\ head \in [Workers -> Nat] /\ need \in [Workers -> Int]
      /\ conn \in [Sockets -> {"none", "good", "torn", "ended", "closed"}]
      /\ made \in [Sockets -> Nat] /\ read \in [Sockets -> Nat]
      /\ gaveUp \in [Sockets -> BOOLEAN]
      /\ rtts \in Nat /\ ok \in Nat /\ err \in Nat
  BY DEF StressTypes
<1>1. ASSUME NEW w \in Workers, WorkerLoop(w) PROVE StressTypes'
  <2>1. /\ UNCHANGED args
        /\ wpc' \in [Workers -> PCs] /\ cur' \in [Workers -> Nat]
        /\ head' \in [Workers -> Nat] /\ need' \in [Workers -> Int]
    BY <1>1, WorkerFrame DEF Frame
  <2>2. rtts' \in Nat /\ ok' \in Nat /\ err' \in Nat
    <3>1. rtts' = rtts \/ rtts' = rtts + 1
      BY <1>1 DEF WorkerLoop, OwnStep, Receive, OuterLoop, InnerStop, Send, SendFails, PushRtt,
         CountOk, CountErr, NextSocket, ReadHead, ReadBody, RecvFails, NoMemory, RecvTimesOut, stats
    <3>2. ok' = ok \/ ok' = ok + 1
      BY <1>1 DEF WorkerLoop, OwnStep, Receive, OuterLoop, InnerStop, Send, SendFails, PushRtt,
         CountOk, CountErr, NextSocket, ReadHead, ReadBody, RecvFails, NoMemory, RecvTimesOut, stats
    <3>3. err' = err \/ err' = err + 1
      BY <1>1 DEF WorkerLoop, OwnStep, Receive, OuterLoop, InnerStop, Send, SendFails, PushRtt,
         CountOk, CountErr, NextSocket, ReadHead, ReadBody, RecvFails, NoMemory, RecvTimesOut, stats
    <3> QED
      BY <1>0, <3>1, <3>2, <3>3
  <2>3. made' = made \/ made' = [made EXCEPT ![cur[w]] = @ + 1]
    BY <1>1 DEF WorkerLoop, OwnStep, Receive, OuterLoop, InnerStop, Send, SendFails, PushRtt,
       CountOk, CountErr, NextSocket, ReadHead, ReadBody, RecvFails, NoMemory, RecvTimesOut, net
  <2>4. read' = read \/ read' = [read EXCEPT ![cur[w]] = @ + 1]
    BY <1>1 DEF WorkerLoop, OwnStep, Receive, OuterLoop, InnerStop, Send, SendFails, PushRtt,
       CountOk, CountErr, NextSocket, ReadHead, ReadBody, RecvFails, NoMemory, RecvTimesOut, net,
       TakeUnit
  <2>5. gaveUp' = gaveUp \/ gaveUp' = [gaveUp EXCEPT ![cur[w]] = TRUE]
    BY <1>1 DEF WorkerLoop, OwnStep, Receive, OuterLoop, InnerStop, Send, SendFails, PushRtt,
       CountOk, CountErr, NextSocket, ReadHead, ReadBody, RecvFails, NoMemory, RecvTimesOut, net
  <2>6. \/ conn' = conn
        \/ conn' = [conn EXCEPT ![cur[w]] = "torn"]
        \/ conn' = [conn EXCEPT ![cur[w]] = "ended"]
    <3>1. CASE SendFails(w)
      <4>1. PICK c \in {"torn", "ended"} : conn' = [conn EXCEPT ![cur[w]] = c]
        BY <3>1 DEF SendFails
      <4> QED
        BY <4>1
    <3>2. CASE RecvFails(w)
      BY <3>2 DEF RecvFails
    <3>3. CASE ~SendFails(w) /\ ~RecvFails(w)
      BY <1>1, <3>3 DEF WorkerLoop, OwnStep, Receive, OuterLoop, InnerStop, Send, PushRtt,
         CountOk, CountErr, NextSocket, ReadHead, ReadBody, NoMemory, RecvTimesOut, net
    <3> QED
      BY <3>1, <3>2, <3>3, Zenon
  <2>7. /\ made' \in [Sockets -> Nat] /\ read' \in [Sockets -> Nat]
        /\ gaveUp' \in [Sockets -> BOOLEAN]
    <3>1. \A s \in Sockets : made[s] + 1 \in Nat /\ read[s] + 1 \in Nat
      BY <1>0
    <3>2. made' \in [Sockets -> Nat]
      BY <1>0, <2>3, <3>1
    <3>3. read' \in [Sockets -> Nat]
      BY <1>0, <2>4, <3>1
    <3>4. gaveUp' \in [Sockets -> BOOLEAN]
      BY <1>0, <2>5
    <3> QED
      BY <3>2, <3>3, <3>4
  <2>8. conn' \in [Sockets -> {"none", "good", "torn", "ended", "closed"}]
    BY <1>0, <2>6
  <2> QED
    BY <1>0, <2>1, <2>2, <2>7, <2>8 DEF StressTypes, args
<1>2. CASE ParseArgs
  BY <1>0, <1>2 DEF ParseArgs, StressTypes, work, net, stats
<1>3. CASE CreateAndConnectSocket
  <2>1. /\ tried' = tried + 1 /\ tried < Concurrency
        /\ connected' = connected + 1 \/ connected' = connected
        /\ conn' = [conn EXCEPT ![connected] = "good"] \/ conn' = conn
        /\ UNCHANGED <<proto, threads, work, made, read, gaveUp, stats>>
    BY <1>3 DEF CreateAndConnectSocket
  <2>2. /\ connected' \in 0 .. tried' /\ tried' \in 0 .. Concurrency
        /\ conn' \in [Sockets -> {"none", "good", "torn", "ended", "closed"}]
    BY <1>0, <2>1, StressAssumption
  <2> QED
    BY <1>0, <2>1, <2>2 DEF StressTypes, work, stats
<1>4. CASE StartWorkers
  <2>1. threads' \in 0 .. MaxThreads
    <3>1. CASE threads' = threads
      BY <1>0, <3>1
    <3>2. CASE /\ connected > 0
               /\ threads' \in {ThreadsUsed(n) : n \in IF threads = 0 THEN 1 .. MaxThreads
                                                      ELSE {threads}}
      <4>1. PICK n \in 1 .. MaxThreads : threads' = ThreadsUsed(n)
        BY <1>0, <3>2, StressAssumption
      <4>2. connected \in Nat
        BY <1>0
      <4> QED
        BY <3>2, <4>1, <4>2, ThreadsFit
    <3> QED
      BY <1>4, <3>1, <3>2 DEF StartWorkers
  <2>2. wpc' \in [Workers -> PCs]
    <3>1. \/ wpc' = wpc
          \/ wpc' = [w \in Workers |-> IF w < threads' THEN "while" ELSE "none"]
      BY <1>4 DEF StartWorkers
    <3>2. "while" \in PCs /\ "none" \in PCs
      BY DEF PCs
    <3> QED
      BY <1>0, <3>1, <3>2
  <2>3. UNCHANGED <<proto, tried, connected, cur, head, need, net, stats>>
    BY <1>4 DEF StartWorkers
  <2> QED
    BY <1>0, <2>1, <2>2, <2>3 DEF StressTypes, net, stats
<1>5. CASE TimeUp \/ WaitEnds \/ RequestStop \/ Join
  BY <1>0, <1>5 DEF TimeUp, WaitEnds, RequestStop, Join, StressTypes, args, work, net, stats
<1>6. CASE CloseAndReport
  <2>1. conn' = [s \in Sockets |-> IF s < connected THEN "closed" ELSE conn[s]]
        /\ UNCHANGED <<args, work, made, read, gaveUp, stats>>
    BY <1>6 DEF CloseAndReport
  <2>2. conn' \in [Sockets -> {"none", "good", "torn", "ended", "closed"}]
    BY <1>0, <2>1
  <2> QED
    BY <1>0, <2>1, <2>2 DEF StressTypes, args, work, stats
<1>7. CASE UNCHANGED vars
  BY <1>0, <1>7 DEF vars, StressTypes, args, work, net, stats
<1> QED
  BY <1>1, <1>2, <1>3, <1>4, <1>5, <1>6, <1>7 DEF Next, MainStep

\* Nothing is requested before the start, the workers stay with their buckets,
\* and none runs when main has joined them.
LEMMA PlacesStep ==
  ASSUME StressTypes, Fresh, Dealt, Joined, [Next]_vars
  PROVE  Fresh' /\ Dealt' /\ Joined'
<1>0. wpc \in [Workers -> PCs] /\ connected \in Nat /\ threads \in 0 .. MaxThreads
  BY StressAssumption DEF StressTypes
<1>1. ASSUME NEW w \in Workers, WorkerLoop(w) PROVE Fresh' /\ Dealt' /\ Joined'
  <2>1. /\ wpc[w] \notin {"none", "done"} /\ wpc'[w] # "none"
        /\ mpc' = mpc \/ mpc' = "terminated"
        /\ wpc'[w] \in Working => cur'[w] \in Bucket(w)
    BY <1>1, WorkerPlace
  <2>2. mpc \notin {"parse", "connect", "close", "exited"}
    BY <2>1 DEF Fresh, Joined
  <2>3. Fresh' /\ Joined'
    BY <2>1, <2>2 DEF Fresh, Joined
  <2>4. /\ threads' = threads /\ connected' = connected
        /\ \A v \in Workers : v # w => wpc'[v] = wpc[v] /\ cur'[v] = cur[v]
    BY <1>1, WorkerFrame DEF Frame, args
  <2>5. \A v \in Workers : Bucket(v)' = Bucket(v)
    BY <2>4 DEF Bucket
  <2>6. Dealt'
    BY <2>1, <2>4, <2>5 DEF Dealt
  <2> QED
    BY <2>3, <2>6
<1>2. CASE ParseArgs \/ CreateAndConnectSocket
  <2>1. /\ wpc' = wpc /\ made' = made /\ read' = read /\ gaveUp' = gaveUp
        /\ mpc \in {"parse", "connect"} /\ mpc' \notin {"close", "exited"}
    BY <1>2 DEF ParseArgs, CreateAndConnectSocket, MainAt, work, net, main
  <2>2. \A w \in Workers : wpc'[w] = "none"
    BY <2>1 DEF Fresh
  <2> QED
    BY <2>1, <2>2 DEF Fresh, Dealt, Joined
<1>3. CASE StartWorkers
  <2>1. mpc = "connect" /\ mpc' \in {"failed", "run"}
    BY <1>3 DEF StartWorkers, MainAt
  <2>2. \A w \in Workers : wpc[w] = "none"
    BY <2>1 DEF Fresh
  <2>3. CASE wpc' = wpc
    BY <2>1, <2>2, <2>3 DEF Fresh, Dealt, Joined
  <2>4. CASE /\ connected > 0
             /\ threads' \in {ThreadsUsed(n) : n \in IF threads = 0 THEN 1 .. MaxThreads
                                                    ELSE {threads}}
             /\ wpc' = [w \in Workers |-> IF w < threads' THEN "while" ELSE "none"]
    <3>1. PICK n \in 1 .. MaxThreads : threads' = ThreadsUsed(n)
      BY <1>0, <2>4, StressAssumption
    <3>2. threads' <= connected /\ connected' = connected
      BY <1>0, <1>3, <2>4, <3>1, ThreadsFit DEF StartWorkers
    <3>3. \A w \in Workers : /\ wpc'[w] # "none" => w < threads'
                             /\ wpc'[w] \notin Working
      BY <2>4 DEF Working, Pending
    <3> QED
      BY <2>1, <3>2, <3>3 DEF Fresh, Dealt, Joined
  <2> QED
    BY <1>3, <2>3, <2>4 DEF StartWorkers
<1>4. ASSUME UNCHANGED <<args, work>>, mpc \notin {"parse", "connect"},
             mpc' \notin {"parse", "connect"},
             mpc' \in {"close", "exited"} => \A w \in Workers : wpc[w] \in {"none", "done"}
      PROVE  Fresh' /\ Dealt' /\ Joined'
  <2>1. wpc' = wpc /\ cur' = cur /\ threads' = threads /\ connected' = connected
    BY <1>4 DEF args, work
  <2>2. \A v \in Workers : Bucket(v)' = Bucket(v)
    BY <2>1 DEF Bucket
  <2> QED
    BY <1>4, <2>1, <2>2 DEF Fresh, Dealt, Joined
<1>5. CASE TimeUp \/ WaitEnds \/ RequestStop
  BY <1>4, <1>5 DEF TimeUp, WaitEnds, RequestStop, MainAt
<1>6. CASE Join
  BY <1>4, <1>6 DEF Join, MainAt
<1>7. CASE CloseAndReport
  BY <1>4, <1>7 DEF CloseAndReport, MainAt, Joined
<1>8. CASE UNCHANGED vars
  <2>1. /\ wpc' = wpc /\ cur' = cur /\ threads' = threads /\ connected' = connected
        /\ mpc' = mpc /\ made' = made /\ read' = read /\ gaveUp' = gaveUp
    BY <1>8 DEF vars, main, args, work, net
  <2>2. \A v \in Workers : Bucket(v)' = Bucket(v)
    BY <2>1 DEF Bucket
  <2> QED
    BY <2>1, <2>2 DEF Fresh, Dealt, Joined
<1> QED
  BY <1>1, <1>2, <1>3, <1>5, <1>6, <1>7, <1>8 DEF Next, MainStep

-----------------------------------------------------------------------------
(* Where the streams stand. *)

\* The part of Exact and Late that is about worker w at socket s.
OwnStream(w, s) ==
  /\ InStep(s) =>
       /\ wpc[w] = "head" => /\ read[s] = (made[s] - 1) * L + head[w]
                             /\ head[w] # 0 => need[w] = BodyLen + 1
       /\ wpc[w] = "body" => read[s] + need[w] = made[s] * L
       /\ wpc[w] \notin {"head", "body"} => read[s] = made[s] * L
  /\ Behind(s) =>
       /\ wpc[w] = "body" => read[s] + need[w] < made[s] * L
       /\ wpc[w] \notin {"head", "body"} => read[s] < made[s] * L

\* It follows from them ...
LEMMA OwnFrom ==
  ASSUME StressTypes, Dealt, Exact, Late, NEW w \in Workers, wpc[w] \in Working,
         NEW s \in Sockets, s = cur[w]
  PROVE  OwnStream(w, s)
<1>1. \A v \in Workers : v # w /\ wpc[v] \in Working => cur[v] # s
  BY OwnSocket
<1>2. wpc[w] \notin {"head", "body"} => ~Reading(s)
  BY <1>1 DEF Reading, Working, Pending
<1> QED
  BY <1>2 DEF OwnStream, Exact, Late

\* ... and is all there is to show for a step on socket s.
LEMMA OwnTo ==
  ASSUME StressTypes, Dealt, Exact, Late, proto \in Protos,
         NEW w \in Workers, wpc[w] \in Working, Frame(w),
         NEW s \in Sockets, s = cur[w], cur'[w] = s, OwnStream(w, s)',
         \A t \in Sockets : t # s => /\ conn'[t] = conn[t] /\ made'[t] = made[t]
                                     /\ read'[t] = read[t] /\ gaveUp'[t] = gaveUp[t]
  PROVE  Exact' /\ Late'
<1>0. proto' = proto /\ L' = L
  BY DEF Frame, args, L, HeadUnits
<1>1. \A v \in Workers : v # w /\ wpc[v] \in Working => cur[v] # s /\ cur[v] \in Sockets
  BY OwnSocket
<1>2. \A v \in Workers : v # w => /\ wpc'[v] = wpc[v] /\ cur'[v] = cur[v]
                                  /\ head'[v] = head[v] /\ need'[v] = need[v]
  BY DEF Frame
<1>3. {"head", "body"} \subseteq Working
  BY DEF Working, Pending
<1>4. ASSUME NEW t \in Sockets, t # s
      PROVE  /\ InStep(t)' <=> InStep(t)
             /\ Behind(t)' <=> Behind(t)
             /\ Reading(t)' <=> Reading(t)
             /\ read'[t] = read[t] /\ made'[t] = made[t]
  <2>1. Reading(t)' <=> Reading(t)
    BY <1>2, <1>4 DEF Reading
  <2>2. (InStep(t)' <=> InStep(t)) /\ (Behind(t)' <=> Behind(t))
    BY <1>0, <1>4 DEF InStep, Behind
  <2> QED
    BY <1>4, <2>1, <2>2
<1>5. ASSUME NEW t \in Sockets, ~Reading(t)'
      PROVE  /\ InStep(t)' => read'[t] = made'[t] * L
             /\ Behind(t)' => read'[t] < made'[t] * L
  <2>1. CASE t # s
    BY <1>4, <1>5, <2>1 DEF Exact, Late
  <2>2. CASE t = s
    <3>1. wpc'[w] \notin {"head", "body"}
      BY <1>5, <2>2 DEF Reading
    <3> QED
      BY <1>0, <2>2, <3>1 DEF OwnStream
  <2> QED
    BY <2>1, <2>2
<1>6. ASSUME NEW t \in Sockets, NEW v \in Workers, cur'[v] = t,
             wpc'[v] = "head", InStep(t)'
      PROVE  /\ read'[t] = (made'[t] - 1) * L + head'[v]
             /\ head'[v] # 0 => need'[v] = BodyLen + 1
  <2>1. CASE v = w
    BY <1>0, <1>6, <2>1 DEF OwnStream
  <2>2. CASE v # w
    <3>1. t = cur[v] /\ t # s /\ wpc[v] = "head"
      BY <1>1, <1>2, <1>3, <1>6, <2>2
    <3> QED
      BY <1>2, <1>4, <1>6, <2>2, <3>1 DEF Exact
  <2> QED
    BY <2>1, <2>2
<1>7. ASSUME NEW t \in Sockets, NEW v \in Workers, cur'[v] = t, wpc'[v] = "body"
      PROVE  /\ InStep(t)' => read'[t] + need'[v] = made'[t] * L
             /\ Behind(t)' => read'[t] + need'[v] < made'[t] * L
  <2>1. CASE v = w
    BY <1>0, <1>7, <2>1 DEF OwnStream
  <2>2. CASE v # w
    <3>1. t = cur[v] /\ t # s /\ wpc[v] = "body"
      BY <1>1, <1>2, <1>3, <1>7, <2>2
    <3> QED
      BY <1>2, <1>4, <1>7, <2>2, <3>1 DEF Exact, Late
  <2> QED
    BY <2>1, <2>2
<1>8. Exact'
  BY <1>0, <1>5, <1>6, <1>7 DEF Exact
<1>9. Late'
  BY <1>0, <1>5, <1>7 DEF Late
<1> QED
  BY <1>8, <1>9

\* Steps that leave streams and readers alone; a socket may be closed.
LEMMA StreamQuiet ==
  ASSUME Exact, Late, proto' = proto, made' = made, read' = read, gaveUp' = gaveUp,
         \A s \in Sockets : conn'[s] = "good" => conn[s] = "good",
         \A v \in Workers : wpc[v] \in {"head", "body"} \/ wpc'[v] \in {"head", "body"} =>
           /\ wpc'[v] = wpc[v] /\ cur'[v] = cur[v] /\ cur[v] \in Sockets
           /\ head'[v] = head[v] /\ need'[v] = need[v]
  PROVE  Exact' /\ Late'
<1>0. L' = L
  BY DEF L, HeadUnits
<1>1. ASSUME NEW s \in Sockets
      PROVE  /\ InStep(s)' => InStep(s)
             /\ Behind(s)' => Behind(s)
             /\ Reading(s)' <=> Reading(s)
  BY DEF InStep, Behind, Reading
<1>2. Exact'
  BY <1>0, <1>1 DEF Exact
<1>3. Late'
  BY <1>0, <1>1 DEF Late
<1> QED
  BY <1>2, <1>3

\* The part of Locals that is about worker w.
OwnLocals(w) ==
  /\ wpc[w] = "head" => head[w] < HeadUnits
  /\ wpc[w] # "head" => head[w] = 0
  /\ wpc[w] = "body" => need[w] > 0

\* A request goes out whole: its answer is owed in full.
LEMMA SendStream ==
  ASSUME StressTypes, Dealt, Exact, Late, Locals, NEW w \in Workers, Send(w),
         NEW s \in Sockets, s = cur[w]
  PROVE  OwnStream(w, s)' /\ OwnLocals(w)'
<1>1. /\ proto \in Protos /\ proto' = proto /\ wpc[w] = "for"
      /\ made \in [Sockets -> Nat] /\ read \in [Sockets -> Nat]
      /\ made' = [made EXCEPT ![s] = made[s] + 1]
      /\ need' = [need EXCEPT ![w] = IF HeadUnits = 0 THEN BodyLen ELSE 0]
      /\ wpc' = [wpc EXCEPT ![w] = IF HeadUnits = 0 THEN "body" ELSE "head"]
      /\ head' = head /\ conn' = conn /\ read' = read /\ gaveUp' = gaveUp
  BY DEF Send, WorkerAt, Go, StressTypes, args
<1>2. /\ HeadUnits \in 0 .. 2 /\ L = HeadUnits + BodyLen /\ BodyLen \in Nat \ {0}
      /\ L \in Nat \ {0} /\ (proto = "raw" <=> HeadUnits = 0)
  BY <1>1, AnswerUnits
<1>3. HeadUnits' = HeadUnits /\ L' = L
  BY <1>1 DEF HeadUnits, L
<1>4. /\ made'[s] = made[s] + 1 /\ made[s] \in Nat /\ read[s] \in Nat
      /\ need'[w] = IF HeadUnits = 0 THEN BodyLen ELSE 0
      /\ wpc'[w] = IF HeadUnits = 0 THEN "body" ELSE "head"
      /\ head'[w] = 0
  BY <1>1 DEF StressTypes, Locals
<1>5. /\ InStep(s) => read[s] = made[s] * L
      /\ Behind(s) => read[s] < made[s] * L
  BY <1>1, OwnFrom DEF OwnStream, Working, Pending
<1>6. (made[s] + 1) * L = made[s] * L + L /\ made[s] * L \in Int
  BY <1>2, <1>4, OneMore
<1>7. (InStep(s)' <=> InStep(s)) /\ (Behind(s)' <=> Behind(s))
  BY <1>1 DEF InStep, Behind
<1>8. CASE HeadUnits = 0
  <2>1. wpc'[w] = "body" /\ need'[w] = L
    BY <1>2, <1>4, <1>8
  <2>2. /\ InStep(s) => read'[s] + need'[w] = made'[s] * L
        /\ Behind(s) => read'[s] + need'[w] < made'[s] * L
    BY <1>1, <1>2, <1>4, <1>5, <1>6, <2>1
  <2> QED
    BY <1>2, <1>3, <1>4, <1>7, <2>1, <2>2 DEF OwnStream, OwnLocals
<1>9. CASE HeadUnits # 0
  <2>1. wpc'[w] = "head" /\ proto # "raw"
    BY <1>2, <1>4, <1>9
  <2>2. InStep(s) => read'[s] = (made'[s] - 1) * L + head'[w]
    <3>1. made'[s] - 1 = made[s]
      BY <1>4
    <3> QED
      BY <1>1, <1>2, <1>4, <1>5, <1>6, <3>1
  <2>3. ~Behind(s) /\ 0 < HeadUnits
    BY <1>2, <1>9, <2>1 DEF Behind
  <2> QED
    BY <1>3, <1>4, <1>7, <2>1, <2>2, <2>3 DEF OwnStream, OwnLocals
<1> QED
  BY <1>8, <1>9

\* The head of an answer is read to its end, and the body asked for is the one
\* announced at the border between two answers.
LEMMA HeadStream ==
  ASSUME StressTypes, Dealt, Exact, Late, Locals, NEW w \in Workers, ReadHead(w),
         NEW s \in Sockets, s = cur[w]
  PROVE  OwnStream(w, s)' /\ OwnLocals(w)'
<1>1. /\ proto \in Protos /\ proto' = proto /\ wpc[w] = "head"
      /\ wpc \in [Workers -> PCs] /\ head \in [Workers -> Nat] /\ need \in [Workers -> Int]
      /\ made \in [Sockets -> Nat] /\ read \in [Sockets -> Nat]
      /\ read' = [read EXCEPT ![s] = read[s] + 1]
      /\ conn' = conn /\ made' = made /\ gaveUp' = gaveUp
  BY DEF ReadHead, WorkerAt, StressTypes, args, TakeUnit
<1>2. /\ HeadUnits \in 0 .. 2 /\ L = HeadUnits + BodyLen /\ BodyLen \in Nat \ {0}
      /\ L \in Nat \ {0} /\ (proto = "raw" <=> HeadUnits = 0)
  BY <1>1, AnswerUnits
<1>3. HeadUnits' = HeadUnits /\ L' = L
  BY <1>1 DEF HeadUnits, L
<1>4. /\ read'[s] = read[s] + 1 /\ made[s] \in Nat /\ read[s] \in Nat
      /\ head[w] \in Nat /\ head[w] < HeadUnits
  BY <1>1 DEF Locals
<1>5. InStep(s) => /\ read[s] = (made[s] - 1) * L + head[w]
                   /\ head[w] # 0 => need[w] = BodyLen + 1
  BY <1>1, OwnFrom DEF OwnStream, Working, Pending
<1>6. ~Behind(s) /\ ~Behind(s)' /\ (InStep(s)' <=> InStep(s))
  BY <1>1, <1>2, <1>4 DEF InStep, Behind
<1>7. PICK body \in IF head[w] = 0 THEN Announced(s) ELSE {need[w] - 1} :
        \/ /\ head[w] + 1 < HeadUnits
           /\ head' = [head EXCEPT ![w] = head[w] + 1]
           /\ need' = [need EXCEPT ![w] = body + 1] /\ UNCHANGED wpc
        \/ /\ head[w] + 1 = HeadUnits /\ body >= 0
           /\ head' = [head EXCEPT ![w] = 0]
           /\ need' = [need EXCEPT ![w] = body]
           /\ Go(w, IF body = 0 THEN "push" ELSE "body")
        \/ /\ head[w] + 1 = HeadUnits /\ body < 0
           /\ Forget(w) /\ Go(w, "err")
  BY DEF ReadHead
<1>8. /\ body \in Int
      /\ InStep(s) => body = BodyLen
  <2>1. CASE head[w] = 0
    <3>1. body \in Announced(s) /\ Announced(s) \subseteq Int
      BY <1>2, <1>7, <2>1 DEF Announced
    <3>2. InStep(s) => body = BodyLen
      <4> SUFFICES ASSUME InStep(s) PROVE body = BodyLen
        OBVIOUS
      <4> DEFINE m == made[s] - 1
      <4>1. m \in Int /\ read[s] = m * L + 0
        BY <1>4, <1>5, <2>1
      <4>2. m * L \in Int /\ (m * L) % L = 0
        <5> HIDE DEF m
        <5>1. m \in Int /\ L \in Nat \ {0}
          BY <1>2, <4>1
        <5>2. m * L \in Int
          BY <5>1
        <5>3. (m * L) % L = 0
          BY <5>1, AnswerBorder
        <5> QED
          BY <5>2, <5>3
      <4>3. read[s] % L = 0
        <5> HIDE DEF m
        <5>1. read[s] = m * L
          BY <4>1, <4>2
        <5> QED
          BY <4>2, <5>1, Zenon
      <4> QED
        BY <3>1, <4>3 DEF Announced, InStep
    <3> QED
      BY <3>1, <3>2
  <2>2. CASE head[w] # 0
    BY <1>1, <1>2, <1>5, <1>7, <2>2
  <2> QED
    BY <2>1, <2>2
<1>9. CASE /\ head[w] + 1 < HeadUnits
           /\ head' = [head EXCEPT ![w] = head[w] + 1]
           /\ need' = [need EXCEPT ![w] = body + 1] /\ UNCHANGED wpc
  <2>1. /\ wpc'[w] = "head" /\ head'[w] = head[w] + 1 /\ need'[w] = body + 1
        /\ head'[w] < HeadUnits
    BY <1>1, <1>9
  <2>2. InStep(s) => read'[s] = (made'[s] - 1) * L + head'[w] /\ need'[w] = BodyLen + 1
    <3> DEFINE x == (made[s] - 1) * L
    <3>1. x \in Int /\ made'[s] = made[s]
      BY <1>1, <1>2, <1>4
    <3>2. InStep(s) => read[s] = x + head[w]
      BY <1>5
    <3>3. InStep(s) => read'[s] = x + head'[w]
      <4> HIDE DEF x
      <4> QED
        BY <1>4, <2>1, <3>1, <3>2
    <3> QED
      BY <1>8, <2>1, <3>1, <3>3
  <2> QED
    BY <1>3, <1>6, <2>1, <2>2 DEF OwnStream, OwnLocals
<1>10. CASE /\ head[w] + 1 = HeadUnits /\ body >= 0
            /\ head' = [head EXCEPT ![w] = 0]
            /\ need' = [need EXCEPT ![w] = body]
            /\ Go(w, IF body = 0 THEN "push" ELSE "body")
  <2>1. /\ wpc'[w] = IF body = 0 THEN "push" ELSE "body"
        /\ head'[w] = 0 /\ need'[w] = body
    BY <1>1, <1>10 DEF Go
  <2>2. InStep(s) => wpc'[w] = "body" /\ read'[s] + need'[w] = made'[s] * L
    <3> DEFINE x == (made[s] - 1) * L
    <3>1. x \in Int /\ made'[s] = made[s]
      BY <1>1, <1>2, <1>4
    <3>2. made[s] * L = x + L
      <4> DEFINE m == made[s] - 1
      <4>1. m \in Int /\ made[s] = m + 1 /\ x = m * L
        BY <1>4
      <4>2. (m + 1) * L = m * L + L
        <5> HIDE DEF m
        <5> QED
          BY <1>2, <4>1, OneMore
      <4> QED
        BY <4>1, <4>2
    <3>3. InStep(s) => read[s] = x + head[w]
      BY <1>5
    <3>4. InStep(s) => read'[s] + need'[w] = x + L
      <4> HIDE DEF x
      <4> QED
        BY <1>2, <1>4, <1>8, <1>10, <2>1, <3>1, <3>3
    <3> QED
      BY <1>2, <1>8, <2>1, <3>1, <3>2, <3>4
  <2>3. wpc'[w] # "head" /\ (wpc'[w] = "body" => need'[w] > 0)
    BY <1>8, <1>10, <2>1
  <2> QED
    BY <1>3, <1>6, <2>1, <2>2, <2>3 DEF OwnStream, OwnLocals
<1>11. CASE /\ head[w] + 1 = HeadUnits /\ body < 0
            /\ Forget(w) /\ Go(w, "err")
  <2>1. wpc'[w] = "err" /\ head'[w] = 0
    BY <1>1, <1>11 DEF Go, Forget
  <2>2. ~InStep(s)
    BY <1>2, <1>8, <1>11
  <2> QED
    BY <1>3, <1>6, <2>1, <2>2 DEF OwnStream, OwnLocals
<1> QED
  BY <1>7, <1>9, <1>10, <1>11

\* The body is read to its last unit.
LEMMA BodyStream ==
  ASSUME StressTypes, Dealt, Exact, Late, Locals, NEW w \in Workers, ReadBody(w),
         NEW s \in Sockets, s = cur[w]
  PROVE  OwnStream(w, s)' /\ OwnLocals(w)'
<1>1. /\ proto \in Protos /\ proto' = proto /\ wpc[w] = "body"
      /\ wpc \in [Workers -> PCs] /\ need \in [Workers -> Int]
      /\ made \in [Sockets -> Nat] /\ read \in [Sockets -> Nat]
      /\ read' = [read EXCEPT ![s] = read[s] + 1]
      /\ need' = [need EXCEPT ![w] = need[w] - 1]
      /\ wpc' = [wpc EXCEPT ![w] = IF need[w] = 1 THEN "push" ELSE "body"]
      /\ head' = head /\ conn' = conn /\ made' = made /\ gaveUp' = gaveUp
  BY DEF ReadBody, WorkerAt, StressTypes, args, TakeUnit, Go
<1>2. L \in Nat \ {0} /\ HeadUnits' = HeadUnits /\ L' = L
  BY <1>1, AnswerUnits DEF HeadUnits, L
<1>3. /\ read'[s] = read[s] + 1 /\ made[s] \in Nat /\ read[s] \in Nat /\ made'[s] = made[s]
      /\ need'[w] = need[w] - 1 /\ need[w] \in Int /\ need[w] > 0 /\ head'[w] = 0
      /\ wpc'[w] = IF need[w] = 1 THEN "push" ELSE "body"
  BY <1>1 DEF Locals
<1>4. /\ InStep(s) => read[s] + need[w] = made[s] * L
      /\ Behind(s) => read[s] + need[w] < made[s] * L
  BY <1>1, OwnFrom DEF OwnStream, Working, Pending
<1>5. (InStep(s)' <=> InStep(s)) /\ (Behind(s)' <=> Behind(s))
  BY <1>1 DEF InStep, Behind
<1> DEFINE x == made[s] * L
<1>6. x \in Int /\ made'[s] * L = x
  BY <1>2, <1>3
<1>7. /\ InStep(s) => read'[s] + need'[w] = x
      /\ Behind(s) => read'[s] + need'[w] < x
      /\ wpc'[w] = "push" => need'[w] = 0
      /\ wpc'[w] = "body" => need'[w] > 0
      /\ wpc'[w] \in {"push", "body"} /\ read'[s] \in Int
  <2> HIDE DEF x
  <2>1. /\ InStep(s) => read[s] + need[w] = x
        /\ Behind(s) => read[s] + need[w] < x
    BY <1>4 DEF x
  <2> QED
    BY <1>3, <1>6, <2>1
<1>8. OwnStream(w, s)'
  BY <1>2, <1>5, <1>6, <1>7 DEF OwnStream
<1>9. OwnLocals(w)'
  BY <1>3, <1>7 DEF OwnLocals
<1> QED
  BY <1>8, <1>9

\* What is given up: a connection that is no longer good, or a receive that timed
\* out, in the raw protocol with units of the answer still owed.
LEMMA LossStream ==
  ASSUME StressTypes, Dealt, Exact, Late, Locals, NEW w \in Workers,
         SendFails(w) \/ RecvFails(w) \/ RecvTimesOut(w),
         NEW s \in Sockets, s = cur[w]
  PROVE  OwnStream(w, s)' /\ OwnLocals(w)'
<1>1. /\ proto \in Protos /\ proto' = proto
      /\ wpc \in [Workers -> PCs] /\ head \in [Workers -> Nat] /\ need \in [Workers -> Int]
      /\ made \in [Sockets -> Nat] /\ read \in [Sockets -> Nat]
      /\ gaveUp \in [Sockets -> BOOLEAN]
      /\ conn \in [Sockets -> {"none", "good", "torn", "ended", "closed"}]
  BY DEF SendFails, RecvFails, RecvTimesOut, StressTypes, args
<1>2. /\ HeadUnits \in 0 .. 2 /\ L \in Nat \ {0} /\ (proto = "raw" <=> HeadUnits = 0)
      /\ HeadUnits' = HeadUnits /\ L' = L
  BY <1>1, AnswerUnits DEF HeadUnits, L
<1>3. wpc'[w] = "err" /\ head'[w] = 0
  <2>1. CASE SendFails(w)
    BY <1>1, <2>1 DEF SendFails, WorkerAt, Go, Locals
  <2>2. CASE RecvFails(w) \/ RecvTimesOut(w)
    BY <1>1, <2>2 DEF RecvFails, RecvTimesOut, Go, Forget
  <2> QED
    BY <2>1, <2>2
<1>4. OwnLocals(w)'
  BY <1>3 DEF OwnLocals
<1>5. CASE SendFails(w) \/ RecvFails(w)
  <2>1. conn'[s] # "good"
    <3>1. CASE RecvFails(w)
      BY <1>1, <3>1 DEF RecvFails
    <3>2. CASE SendFails(w)
      <4>1. PICK c \in {"torn", "ended"} : conn' = [conn EXCEPT ![s] = c]
        BY <3>2 DEF SendFails
      <4> QED
        BY <1>1, <4>1
    <3> QED
      BY <1>5, <3>1, <3>2
  <2> QED
    BY <1>4, <2>1 DEF OwnStream, InStep, Behind
<1>6. CASE RecvTimesOut(w)
  <2>1. /\ wpc[w] \in {"head", "body"} /\ conn' = conn /\ made' = made /\ read' = read
        /\ gaveUp' = [gaveUp EXCEPT ![s] = TRUE]
    BY <1>6 DEF RecvTimesOut
  <2>2. gaveUp'[s]
    BY <1>1, <2>1
  <2>3. ~InStep(s)'
    BY <2>2 DEF InStep
  <2>4. Behind(s)' => read'[s] < made'[s] * L
    <3> SUFFICES ASSUME Behind(s)' PROVE read[s] < made[s] * L
      BY <2>1
    <3>1. proto = "raw" /\ conn[s] = "good"
      BY <1>1, <2>1 DEF Behind
    <3>2. wpc[w] = "body" /\ need[w] > 0 /\ need[w] \in Int /\ read[s] \in Nat
      BY <1>1, <1>2, <2>1, <3>1 DEF Locals
    <3>3. InStep(s) \/ Behind(s)
      BY <1>1, <3>1 DEF InStep, Behind
    <3>4. read[s] + need[w] <= made[s] * L
      <4>1. /\ InStep(s) => read[s] + need[w] = made[s] * L
            /\ Behind(s) => read[s] + need[w] < made[s] * L
        BY <3>2, OwnFrom DEF OwnStream, Working, Pending
      <4>2. made[s] * L \in Int
        BY <1>1, <1>2
      <4> QED
        BY <3>2, <3>3, <4>1, <4>2
    <3>5. made[s] * L \in Int
      BY <1>1, <1>2
    <3> QED
      BY <3>2, <3>4, <3>5
  <2> QED
    BY <1>2, <1>3, <1>4, <2>3, <2>4 DEF OwnStream
<1> QED
  BY <1>5, <1>6

\* The streams and the locals over a step of a worker.
LEMMA WorkerStream ==
  ASSUME StressTypes, Dealt, Exact, Late, Locals, NEW w \in Workers, WorkerLoop(w)
  PROVE  Exact' /\ Late' /\ Locals'
<1>0. Frame(w)
  BY WorkerFrame
<1>1. /\ proto \in Protos /\ proto' = proto /\ HeadUnits' = HeadUnits
      /\ wpc \in [Workers -> PCs]
      /\ \A v \in Workers : v # w => /\ wpc'[v] = wpc[v] /\ cur'[v] = cur[v]
                                     /\ head'[v] = head[v] /\ need'[v] = need[v]
  BY <1>0 DEF Frame, args, StressTypes, HeadUnits
<1>2. ASSUME OwnLocals(w)' PROVE Locals'
  BY <1>1, <1>2 DEF Locals, OwnLocals
<1>3. ASSUME Send(w) \/ SendFails(w) \/ ReadHead(w) \/ ReadBody(w)
             \/ RecvFails(w) \/ RecvTimesOut(w)
      PROVE  Exact' /\ Late' /\ Locals'
  <2>1. wpc[w] \in {"for", "head", "body"} /\ cur' = cur
    BY <1>3 DEF Send, SendFails, ReadHead, ReadBody, RecvFails, RecvTimesOut, WorkerAt
  <2>2. wpc[w] \in Working
    BY <2>1 DEF Working, Pending
  <2>3. PICK s \in Sockets : s = cur[w]
    BY <2>2, OwnSocket
  <2>4. \A x \in Sockets : x # s => /\ conn'[x] = conn[x] /\ made'[x] = made[x]
                                    /\ read'[x] = read[x] /\ gaveUp'[x] = gaveUp[x]
    <3>1. CASE SendFails(w)
      <4>1. /\ made' = [made EXCEPT ![s] = made[s] + 1] /\ read' = read /\ gaveUp' = gaveUp
            /\ \E c \in {"torn", "ended"} : conn' = [conn EXCEPT ![s] = c]
        BY <2>3, <3>1 DEF SendFails
      <4> QED
        BY <4>1 DEF StressTypes
    <3>2. CASE Send(w) \/ ReadHead(w) \/ ReadBody(w)
      BY <2>3, <3>2 DEF Send, ReadHead, ReadBody, TakeUnit, StressTypes
    <3>3. CASE RecvFails(w) \/ RecvTimesOut(w)
      BY <2>3, <3>3 DEF RecvFails, RecvTimesOut, StressTypes
    <3> QED
      BY <1>3, <3>1, <3>2, <3>3
  <2>5. OwnStream(w, s)' /\ OwnLocals(w)'
    BY <1>3, <2>3, SendStream, HeadStream, BodyStream, LossStream
  <2>6. cur'[w] = s
    BY <2>1, <2>3
  <2>7. Exact' /\ Late'
    BY <1>0, <1>1, <2>2, <2>3, <2>4, <2>5, <2>6, OwnTo
  <2> QED
    BY <1>2, <2>5, <2>7
<1>4. ASSUME OuterLoop(w) \/ InnerStop(w) \/ PushRtt(w) \/ CountOk(w) \/ CountErr(w)
             \/ NextSocket(w)
      PROVE  Exact' /\ Late' /\ Locals'
  <2>1. /\ wpc[w] \notin {"head", "body"} /\ head' = head
        /\ made' = made /\ read' = read /\ gaveUp' = gaveUp /\ conn' = conn
    BY <1>4 DEF OuterLoop, InnerStop, PushRtt, CountOk, CountErr, NextSocket, WorkerAt, net, work
  <2>2. \E label \in {"while", "for", "done", "count", "think"} : Go(w, label)
    BY <1>4 DEF OuterLoop, InnerStop, PushRtt, CountOk, CountErr, NextSocket
  <2>3. wpc'[w] \notin {"head", "body"}
    BY <1>1, <2>2 DEF Go
  <2>4. \A v \in Workers : wpc[v] \in {"head", "body"} => cur[v] \in Sockets
    BY OwnSocket DEF Working, Pending
  <2>5. Exact' /\ Late'
    BY <1>1, <2>1, <2>3, <2>4, StreamQuiet
  <2>6. OwnLocals(w)'
    BY <2>1, <2>3 DEF Locals, OwnLocals
  <2> QED
    BY <1>2, <2>5, <2>6
<1>5. ASSUME NoMemory(w) PROVE Exact' /\ Late' /\ Locals'
  <2>1. /\ wpc' = wpc /\ cur' = cur /\ head' = head /\ need' = need
        /\ made' = made /\ read' = read /\ gaveUp' = gaveUp /\ conn' = conn
    BY <1>5 DEF NoMemory, work, net
  <2>2. \A v \in Workers : wpc[v] \in {"head", "body"} => cur[v] \in Sockets
    BY OwnSocket DEF Working, Pending
  <2>3. Exact' /\ Late'
    BY <1>1, <2>1, <2>2, StreamQuiet
  <2> QED
    BY <1>1, <2>1, <2>3 DEF Locals
<1> QED
  BY <1>3, <1>4, <1>5 DEF WorkerLoop, OwnStep, Receive

\* Before the first request every stream is at its start.
LEMMA FreshStream ==
  ASSUME proto' \in Protos, Fresh', mpc' \in {"parse", "connect"}
  PROVE  Exact' /\ Late'
<1>1. L' \in Int
  BY StressAssumption DEF L, HeadUnits, Protos
<1>2. \A s \in Sockets : made'[s] = 0 /\ read'[s] = 0 /\ ~gaveUp'[s]
  BY DEF Fresh
<1>3. \A v \in Workers : wpc'[v] = "none"
  BY DEF Fresh
<1>4. \A s \in Sockets : read'[s] = made'[s] * L'
  BY <1>1, <1>2
<1>5. Exact'
  BY <1>3, <1>4 DEF Exact
<1>6. Late'
  BY <1>2 DEF Late, Behind
<1> QED
  BY <1>5, <1>6

\* The streams and the locals over every step.
LEMMA StreamStep ==
  ASSUME StressTypes, StressTypes', Fresh, Fresh', Dealt, Exact, Late, Locals, [Next]_vars
  PROVE  Exact' /\ Late' /\ Locals'
<1>0. \A v \in Workers : wpc[v] \in {"head", "body"} => cur[v] \in Sockets
  BY OwnSocket DEF Working, Pending
<1>1. ASSUME mpc \in {"parse", "connect"}, wpc' = wpc, head' = head
      PROVE  Locals'
  BY <1>1 DEF Fresh, Locals
<1>2. ASSUME proto' = proto, made' = made, read' = read, gaveUp' = gaveUp,
             \A s \in Sockets : conn'[s] = "good" => conn[s] = "good",
             wpc' = wpc, cur' = cur, head' = head, need' = need
      PROVE  Exact' /\ Late' /\ Locals'
  <2>1. HeadUnits' = HeadUnits
    BY <1>2 DEF HeadUnits
  <2>2. Exact' /\ Late'
    BY <1>0, <1>2, StreamQuiet
  <2> QED
    BY <1>2, <2>1, <2>2 DEF Locals
<1>3. CASE ParseArgs
  <2>1. mpc = "parse" /\ UNCHANGED <<work, net>>
    BY <1>3 DEF ParseArgs, MainAt
  <2>2. mpc' \in {"connect", "failed", "terminated"} /\ proto' \in Protos
    BY <1>3 DEF ParseArgs, StressTypes
  <2>3. Locals'
    BY <1>1, <2>1 DEF work
  <2>4. CASE mpc' = "connect"
    BY <2>2, <2>3, <2>4, FreshStream
  <2>5. CASE mpc' # "connect"
    <3>1. proto' = proto
      BY <1>3, <2>5 DEF ParseArgs
    <3> QED
      BY <1>2, <2>1, <3>1 DEF work, net
  <2> QED
    BY <2>3, <2>4, <2>5
<1>4. CASE CreateAndConnectSocket
  <2>1. /\ mpc = "connect" /\ mpc' = mpc /\ wpc' = wpc /\ head' = head /\ proto' \in Protos
    BY <1>4 DEF CreateAndConnectSocket, MainAt, main, work, StressTypes
  <2> QED
    BY <1>1, <2>1, FreshStream
<1>5. CASE StartWorkers
  <2>1. /\ mpc = "connect" /\ proto' = proto /\ made' = made /\ read' = read
        /\ gaveUp' = gaveUp /\ conn' = conn /\ head' = head
    BY <1>5 DEF StartWorkers, MainAt, net
  <2>2. \A v \in Workers : wpc[v] = "none"
    BY <2>1 DEF Fresh
  <2>3. \A v \in Workers : wpc'[v] \in {"none", "while"}
    <3>1. CASE wpc' = wpc
      BY <2>2, <3>1
    <3>2. CASE wpc' = [w \in Workers |-> IF w < threads' THEN "while" ELSE "none"]
      BY <3>2
    <3> QED
      BY <1>5, <3>1, <3>2 DEF StartWorkers
  <2>4. Exact' /\ Late'
    BY <2>1, <2>2, <2>3, StreamQuiet
  <2>5. Locals'
    BY <2>1, <2>2, <2>3 DEF Locals
  <2> QED
    BY <2>4, <2>5
<1>6. CASE TimeUp \/ WaitEnds \/ RequestStop \/ Join
  BY <1>2, <1>6 DEF TimeUp, WaitEnds, RequestStop, Join, args, work, net
<1>7. CASE CloseAndReport
  <2>1. conn' = [s \in Sockets |-> IF s < connected THEN "closed" ELSE conn[s]]
    BY <1>7 DEF CloseAndReport
  <2>2. \A s \in Sockets : conn'[s] = "good" => conn[s] = "good"
    BY <2>1
  <2> QED
    BY <1>2, <1>7, <2>2 DEF CloseAndReport, args, work
<1>8. CASE UNCHANGED vars
  BY <1>2, <1>8 DEF vars, args, work, net
<1>9. ASSUME NEW w \in Workers, WorkerLoop(w) PROVE Exact' /\ Late' /\ Locals'
  BY <1>9, WorkerStream
<1> QED
  BY <1>3, <1>4, <1>5, <1>6, <1>7, <1>8, <1>9 DEF Next, MainStep

-----------------------------------------------------------------------------
(* The counts. *)

\* The workers are finitely many.
LEMMA WorkersFinite == IsFiniteSet(Workers)
BY FS_Interval, StressAssumption DEF Workers

\* How the number of workers at certain labels changes when one goes on.
LEMMA CountMove ==
  ASSUME NEW f \in [Workers -> PCs], NEW g, NEW w \in Workers, NEW label \in PCs,
         g = [f EXCEPT ![w] = label], NEW Q,
         NEW A, A = {v \in Workers : f[v] \in Q}, NEW B, B = {v \in Workers : g[v] \in Q}
  PROVE  /\ Cardinality(A) \in Nat /\ Cardinality(B) \in Nat
         /\ (f[w] \in Q <=> label \in Q) => Cardinality(B) = Cardinality(A)
         /\ f[w] \notin Q /\ label \in Q => Cardinality(B) = Cardinality(A) + 1
         /\ f[w] \in Q /\ label \notin Q => Cardinality(B) = Cardinality(A) - 1
<1>1. A \subseteq Workers /\ B \subseteq Workers
  OBVIOUS
<1>2. /\ IsFiniteSet(A) /\ IsFiniteSet(B)
      /\ Cardinality(A) \in Nat /\ Cardinality(B) \in Nat
  BY <1>1, WorkersFinite, FS_Subset, FS_CardinalityType
<1>3. (f[w] \in Q <=> label \in Q) => B = A
  OBVIOUS
<1>4. f[w] \notin Q /\ label \in Q => w \notin A /\ B = A \cup {w}
  OBVIOUS
<1>5. f[w] \in Q /\ label \notin Q => w \in A /\ B = A \ {w}
  OBVIOUS
<1>6. f[w] \notin Q /\ label \in Q => Cardinality(B) = Cardinality(A) + 1
  BY <1>2, <1>4, FS_AddElement
<1>7. f[w] \in Q /\ label \notin Q => Cardinality(B) = Cardinality(A) - 1
  BY <1>2, <1>5, FS_RemoveElement
<1> QED
  BY <1>2, <1>3, <1>6, <1>7

\* A request more on one socket is one more in all.
LEMMA RequestMade ==
  ASSUME NEW s \in Sockets, made \in [Sockets -> Nat], IsFiniteSet(Requests),
         made' = [made EXCEPT ![s] = @ + 1]
  PROVE  IsFiniteSet(Requests') /\ Cardinality(Requests') = Cardinality(Requests) + 1
<1> DEFINE r == <<s, made[s] + 1>>
<1>1. \A x : x \in Requests <=> \E y \in Sockets : \E k \in 1 .. made[y] : x = <<y, k>>
  BY DEF Requests
<1>2. \A x : x \in Requests' <=> \E y \in Sockets : \E k \in 1 .. made'[y] : x = <<y, k>>
  BY DEF Requests
<1>3. /\ made'[s] = made[s] + 1 /\ made[s] \in Nat
      /\ \A y \in Sockets : y # s => made'[y] = made[y]
  OBVIOUS
<1>4. r \notin Requests
  <2> SUFFICES ASSUME r \in Requests PROVE FALSE
    OBVIOUS
  <2>1. PICK y \in Sockets : \E k \in 1 .. made[y] : r = <<y, k>>
    BY <1>1
  <2> QED
    BY <1>3, <2>1
<1>5. ASSUME NEW x \in Requests PROVE x \in Requests'
  <2>1. PICK y \in Sockets : \E k \in 1 .. made[y] : x = <<y, k>>
    BY <1>1
  <2>2. PICK k \in 1 .. made[y] : x = <<y, k>>
    BY <2>1
  <2>3. k \in 1 .. made'[y]
    BY <1>3
  <2> QED
    BY <1>2, <2>2, <2>3
<1>6. r \in Requests'
  <2>1. made[s] + 1 \in 1 .. made'[s]
    BY <1>3
  <2> QED
    BY <1>2, <2>1
<1>7. ASSUME NEW x \in Requests', x # r PROVE x \in Requests
  <2>1. PICK y \in Sockets : \E k \in 1 .. made'[y] : x = <<y, k>>
    BY <1>2
  <2>2. PICK k \in 1 .. made'[y] : x = <<y, k>>
    BY <2>1
  <2>3. k \in 1 .. made[y]
    BY <1>3, <1>7, <2>2
  <2> QED
    BY <1>1, <2>2, <2>3
<1>8. Requests' = Requests \cup {r}
  <2> HIDE DEF r
  <2> QED
    BY <1>5, <1>6, <1>7
<1> HIDE DEF r
<1> QED
  BY <1>4, <1>8, FS_AddElement

\* The workers that hold a request not counted yet, and those between the two
\* counts.
Holding  == {w \in Workers : wpc[w] \in Pending}
Counting == {w \in Workers : wpc[w] = "count"}

\* A step of worker w to a label, with what it adds to the counts.
LEMMA BalanceMove ==
  ASSUME StressTypes, Balance, NEW w \in Workers, NEW label \in PCs, Go(w, label),
         IsFiniteSet(Requests'), NEW n \in {0, 1},
         Cardinality(Requests') = Cardinality(Requests) + n,
         rtts' = rtts + (IF label = "count" THEN 1 ELSE 0), wpc[w] # label \/ label # "count",
         ok' = ok + (IF wpc[w] = "count" THEN 1 ELSE 0),
         err' = err + (IF wpc[w] = "err" THEN 1 ELSE 0),
         wpc[w] \in Pending => n = 0 /\ (label \in Pending <=> wpc[w] \notin {"count", "err"}),
         wpc[w] \notin Pending => (label \in Pending <=> n = 1)
  PROVE  Balance'
<1>1. /\ wpc \in [Workers -> PCs] /\ wpc' = [wpc EXCEPT ![w] = label]
      /\ rtts \in Nat /\ ok \in Nat /\ err \in Nat
  BY DEF StressTypes, Go
<1>2. /\ Cardinality(Holding) \in Nat /\ Cardinality(Holding') \in Nat
      /\ (wpc[w] \in Pending <=> label \in Pending) => Cardinality(Holding') = Cardinality(Holding)
      /\ wpc[w] \notin Pending /\ label \in Pending
           => Cardinality(Holding') = Cardinality(Holding) + 1
      /\ wpc[w] \in Pending /\ label \notin Pending
           => Cardinality(Holding') = Cardinality(Holding) - 1
  <2>1. /\ Holding = {v \in Workers : wpc[v] \in Pending}
        /\ Holding' = {v \in Workers : wpc'[v] \in Pending}
    BY DEF Holding, Pending
  <2> QED
    BY <1>1, <2>1, CountMove
<1>3. /\ Cardinality(Counting) \in Nat /\ Cardinality(Counting') \in Nat
      /\ (wpc[w] = "count" <=> label = "count") => Cardinality(Counting') = Cardinality(Counting)
      /\ wpc[w] # "count" /\ label = "count"
           => Cardinality(Counting') = Cardinality(Counting) + 1
      /\ wpc[w] = "count" /\ label # "count"
           => Cardinality(Counting') = Cardinality(Counting) - 1
  <2> DEFINE Q == {"count"}
  <2>1. /\ Counting = {v \in Workers : wpc[v] \in Q}
        /\ Counting' = {v \in Workers : wpc'[v] \in Q}
        /\ wpc[w] \in Q <=> wpc[w] = "count"
        /\ label \in Q <=> label = "count"
    BY DEF Counting
  <2> HIDE DEF Q
  <2> QED
    BY <1>1, <2>1, CountMove
<1>4. Cardinality(Requests) \in Nat
  BY FS_CardinalityType DEF Balance
<1>5. /\ rtts = ok + Cardinality(Counting)
      /\ ok + err + Cardinality(Holding) = Cardinality(Requests)
  BY DEF Balance, Holding, Counting
<1>6. "count" \in Pending /\ "err" \in Pending
  BY DEF Pending
<1>7. rtts' = ok' + Cardinality(Counting')
  BY <1>1, <1>3, <1>5
<1>8. ok' + err' + Cardinality(Holding') = Cardinality(Requests')
  BY <1>1, <1>2, <1>4, <1>5, <1>6
<1>9. /\ Holding' = {v \in Workers : wpc'[v] \in Pending}
      /\ Counting' = {v \in Workers : wpc'[v] = "count"}
  BY DEF Holding, Counting, Pending
<1> QED
  BY <1>7, <1>8, <1>9 DEF Balance, Pending

\* The counts over a step of a worker.
LEMMA WorkerBalance ==
  ASSUME StressTypes, Dealt, Balance, NEW w \in Workers, WorkerLoop(w)
  PROVE  Balance'
<1>0. /\ {"while", "for", "head", "body", "push", "count", "err", "think", "done"} \subseteq PCs
      /\ {"head", "body", "push", "count", "err"} \subseteq Pending
      /\ Pending \subseteq {"head", "body", "push", "count", "err"}
      /\ wpc \in [Workers -> PCs] /\ made \in [Sockets -> Nat]
      /\ rtts \in Nat /\ ok \in Nat /\ err \in Nat
  BY DEF PCs, Pending, StressTypes
<1>1. IsFiniteSet(Requests) /\ Cardinality(Requests) \in Nat
  BY FS_CardinalityType DEF Balance
<1>2. ASSUME made' = made
      PROVE  IsFiniteSet(Requests') /\ Cardinality(Requests') = Cardinality(Requests) + 0
  <2>1. Requests' = Requests
    BY <1>2 DEF Requests
  <2> QED
    BY <1>1, <2>1
<1>3. ASSUME NEW label \in PCs, Go(w, label), made' = made,
             rtts' = rtts, ok' = ok, err' = err, label # "count", wpc[w] \notin {"count", "err"},
             wpc[w] \in Pending <=> label \in Pending
      PROVE  Balance'
  <2>1. /\ rtts' = rtts + (IF label = "count" THEN 1 ELSE 0)
        /\ ok' = ok + (IF wpc[w] = "count" THEN 1 ELSE 0)
        /\ err' = err + (IF wpc[w] = "err" THEN 1 ELSE 0)
    BY <1>0, <1>3
  <2> QED
    BY <1>2, <1>3, <2>1, BalanceMove
<1>4. CASE Send(w) \/ SendFails(w)
  <2>1. /\ wpc[w] = "for" /\ made' = [made EXCEPT ![cur[w]] = @ + 1]
        /\ rtts' = rtts /\ ok' = ok /\ err' = err
    BY <1>4 DEF Send, SendFails, WorkerAt, stats
  <2>2. cur[w] \in Sockets
    BY <2>1, OwnSocket DEF Working
  <2>3. IsFiniteSet(Requests') /\ Cardinality(Requests') = Cardinality(Requests) + 1
    BY <1>0, <1>1, <2>1, <2>2, RequestMade
  <2>4. PICK label \in {"head", "body", "err"} : Go(w, label)
    BY <1>4 DEF Send, SendFails
  <2>5. /\ rtts' = rtts + (IF label = "count" THEN 1 ELSE 0)
        /\ ok' = ok + (IF wpc[w] = "count" THEN 1 ELSE 0)
        /\ err' = err + (IF wpc[w] = "err" THEN 1 ELSE 0)
        /\ wpc[w] \notin Pending /\ label \in Pending /\ label \in PCs /\ label # "count"
    BY <1>0, <2>1, <2>4
  <2> QED
    BY <2>3, <2>4, <2>5, BalanceMove
<1>5. CASE OuterLoop(w) \/ InnerStop(w) \/ NextSocket(w)
  <2>1. /\ wpc[w] \in {"while", "for", "think"} /\ made' = made
        /\ rtts' = rtts /\ ok' = ok /\ err' = err
    BY <1>5 DEF OuterLoop, InnerStop, NextSocket, WorkerAt, net, stats
  <2>2. \E label \in {"while", "for", "done"} : Go(w, label)
    BY <1>5 DEF OuterLoop, InnerStop, NextSocket
  <2> QED
    BY <1>0, <1>3, <2>1, <2>2
<1>6. CASE ReadHead(w) \/ ReadBody(w) \/ RecvFails(w) \/ RecvTimesOut(w)
  <2>1. /\ wpc[w] \in {"head", "body"} /\ made' = made
        /\ rtts' = rtts /\ ok' = ok /\ err' = err
    BY <1>6 DEF ReadHead, ReadBody, RecvFails, RecvTimesOut, WorkerAt, stats
  <2>2. \/ wpc' = wpc
        \/ \E label \in {"body", "push", "err"} : Go(w, label)
    BY <1>6 DEF ReadHead, ReadBody, RecvFails, RecvTimesOut
  <2>3. wpc' = wpc => Go(w, wpc[w])
    BY <1>0 DEF Go
  <2> QED
    BY <1>0, <1>3, <2>1, <2>2, <2>3
<1>7. CASE PushRtt(w)
  <2>1. /\ wpc[w] = "push" /\ Go(w, "count") /\ made' = made
        /\ rtts' = rtts + 1 /\ ok' = ok /\ err' = err
    BY <1>7 DEF PushRtt, WorkerAt, net
  <2>2. /\ rtts' = rtts + (IF "count" = "count" THEN 1 ELSE 0)
        /\ ok' = ok + (IF wpc[w] = "count" THEN 1 ELSE 0)
        /\ err' = err + (IF wpc[w] = "err" THEN 1 ELSE 0)
    BY <1>0, <2>1
  <2> QED
    BY <1>0, <1>2, <2>1, <2>2, BalanceMove
<1>8. CASE CountOk(w)
  <2>1. /\ wpc[w] = "count" /\ Go(w, "think") /\ made' = made
        /\ rtts' = rtts /\ ok' = ok + 1 /\ err' = err
    BY <1>8 DEF CountOk, WorkerAt, net
  <2>2. /\ rtts' = rtts + (IF "think" = "count" THEN 1 ELSE 0)
        /\ ok' = ok + (IF wpc[w] = "count" THEN 1 ELSE 0)
        /\ err' = err + (IF wpc[w] = "err" THEN 1 ELSE 0)
    BY <1>0, <2>1
  <2> QED
    BY <1>0, <1>2, <2>1, <2>2, BalanceMove
<1>9. CASE CountErr(w)
  <2>1. /\ wpc[w] = "err" /\ Go(w, "think") /\ made' = made
        /\ rtts' = rtts /\ ok' = ok /\ err' = err + 1
    BY <1>9 DEF CountErr, WorkerAt, net
  <2>2. /\ rtts' = rtts + (IF "think" = "count" THEN 1 ELSE 0)
        /\ ok' = ok + (IF wpc[w] = "count" THEN 1 ELSE 0)
        /\ err' = err + (IF wpc[w] = "err" THEN 1 ELSE 0)
    BY <1>0, <2>1
  <2> QED
    BY <1>0, <1>2, <2>1, <2>2, BalanceMove
<1>10. CASE NoMemory(w)
  <2>1. wpc' = wpc /\ made' = made /\ rtts' = rtts /\ ok' = ok /\ err' = err
    BY <1>10 DEF NoMemory, work, net, stats
  <2> QED
    BY <2>1 DEF Balance, Requests
<1> QED
  BY <1>4, <1>5, <1>6, <1>7, <1>8, <1>9, <1>10 DEF WorkerLoop, OwnStep, Receive

\* The counts over every step.
LEMMA BalanceStep ==
  ASSUME StressTypes, Fresh, Dealt, Balance, [Next]_vars
  PROVE  Balance'
<1>1. ASSUME made' = made, rtts' = rtts, ok' = ok, err' = err, wpc' = wpc
      PROVE  Balance'
  BY <1>1 DEF Balance, Requests
<1>2. CASE ParseArgs \/ CreateAndConnectSocket \/ TimeUp \/ WaitEnds \/ RequestStop \/ Join
           \/ CloseAndReport
  BY <1>1, <1>2 DEF ParseArgs, CreateAndConnectSocket, TimeUp, WaitEnds, RequestStop, Join,
     CloseAndReport, work, net, stats
<1>3. CASE StartWorkers
  <2>1. /\ mpc = "connect" /\ made' = made /\ rtts' = rtts /\ ok' = ok /\ err' = err
    BY <1>3 DEF StartWorkers, MainAt, net, stats
  <2>2. \A v \in Workers : wpc[v] = "none"
    BY <2>1 DEF Fresh
  <2>3. \A v \in Workers : wpc'[v] \in {"none", "while"}
    <3>1. CASE wpc' = wpc
      BY <2>2, <3>1
    <3>2. CASE wpc' = [w \in Workers |-> IF w < threads' THEN "while" ELSE "none"]
      BY <3>2
    <3> QED
      BY <1>3, <3>1, <3>2 DEF StartWorkers
  <2>4. /\ {w \in Workers : wpc[w] = "count"} = {w \in Workers : wpc'[w] = "count"}
        /\ {w \in Workers : wpc[w] \in Pending} = {w \in Workers : wpc'[w] \in Pending}
    BY <2>2, <2>3 DEF Pending
  <2>5. Requests' = Requests
    BY <2>1 DEF Requests
  <2> QED
    BY <2>1, <2>4, <2>5 DEF Balance, Pending
<1>4. CASE UNCHANGED vars
  BY <1>1, <1>4 DEF vars, work, net, stats
<1>5. ASSUME NEW w \in Workers, WorkerLoop(w) PROVE Balance'
  BY <1>5, WorkerBalance
<1> QED
  BY <1>2, <1>3, <1>4, <1>5 DEF Next, MainStep

-----------------------------------------------------------------------------
\* The invariant holds at the start ...
LEMMA StressInit == Init => StressInv
<1> SUFFICES ASSUME Init PROVE StressInv
  OBVIOUS
<1>1. StressTypes
  BY StressAssumption DEF Init, StressTypes, Protos, PCs
<1>2. /\ \A w \in Workers : wpc[w] = "none" /\ head[w] = 0
      /\ \A s \in Sockets : conn[s] = "none" /\ made[s] = 0
      /\ rtts = 0 /\ ok = 0 /\ err = 0 /\ mpc = "parse"
  BY DEF Init
<1>3. Fresh /\ Dealt /\ Joined /\ Locals
  BY <1>2 DEF Init, Fresh, Dealt, Joined, Locals
<1>4. Exact /\ Late
  BY <1>2 DEF Exact, Late, InStep, Behind
<1>5. Requests = {}
  BY <1>2 DEF Requests
<1>6. /\ {w \in Workers : wpc[w] = "count"} = {}
      /\ {w \in Workers : wpc[w] \in Pending} = {}
  BY <1>2 DEF Pending
<1>7. Balance
  BY <1>2, <1>5, <1>6, FS_EmptySet DEF Balance
<1> QED
  BY <1>1, <1>3, <1>4, <1>7 DEF StressInv

\* ... and is kept.
LEMMA StressStep == StressInv /\ [Next]_vars => StressInv'
<1> SUFFICES ASSUME StressInv, [Next]_vars PROVE StressInv'
  OBVIOUS
<1>1. StressTypes' /\ Fresh' /\ Dealt' /\ Joined'
  BY TypesStep, PlacesStep DEF StressInv
<1>2. Exact' /\ Late' /\ Locals'
  BY <1>1, StreamStep DEF StressInv
<1>3. Balance'
  BY BalanceStep DEF StressInv
<1> QED
  BY <1>1, <1>2, <1>3 DEF StressInv

\* Whatever the server and the network do, each stream is where its reader takes
\* it to be until something on it is given up (StressTest/main.cpp:164-276).
THEOREM StressInvariant == Spec => []StressInv
BY StressInit, StressStep, PTL DEF Spec

\* The report is true for any number of sockets, threads and requests: every
\* request is counted once, and what is counted OK is the answer of its request
\* (StressTest/main.cpp:216-276, 384-393).
THEOREM ReportsTrue == Spec => []ReportTrue
<1>1. StressInv => ReportTrue
  <2> SUFFICES ASSUME StressInv PROVE ReportTrue
    OBVIOUS
  <2>1. OwnAnswer
    <3> SUFFICES ASSUME NEW w \in Workers, Counted(w), conn[cur[w]] = "good", ~gaveUp[cur[w]]
                 PROVE  read[cur[w]] = made[cur[w]] * L
      BY DEF OwnAnswer
    <3>1. wpc[w] \in Working /\ wpc[w] \notin {"head", "body"}
      BY DEF Counted, Working, Pending
    <3>2. PICK s \in Sockets : s = cur[w]
      BY <3>1, OwnSocket DEF StressInv
    <3> QED
      BY <3>1, <3>2, OwnFrom DEF StressInv, OwnStream, InStep
  <2>2. CountsAgree
    <3>1. /\ rtts = ok + Cardinality({w \in Workers : wpc[w] = "count"})
          /\ ok + err + Cardinality({w \in Workers : wpc[w] \in Pending}) = Cardinality(Requests)
          /\ rtts \in Nat /\ ok \in Nat /\ err \in Nat
      BY DEF StressInv, Balance, StressTypes
    <3>2. ASSUME mpc = "exited" PROVE rtts = ok /\ ok + err = Cardinality(Requests)
      <4>1. \A w \in Workers : wpc[w] \in {"none", "done"}
        BY <3>2 DEF StressInv, Joined
      <4>2. {w \in Workers : wpc[w] = "count"} = {}
        BY <4>1
      <4>3. {w \in Workers : wpc[w] \in Pending} = {}
        BY <4>1 DEF Pending
      <4>4. Cardinality({}) = 0
        BY FS_EmptySet
      <4>5. rtts = ok + 0
        BY <3>1, <4>2, <4>4, Zenon
      <4>6. ok + err + 0 = Cardinality(Requests)
        BY <3>1, <4>3, <4>4, Zenon
      <4> QED
        BY <3>1, <4>5, <4>6
    <3> QED
      BY <3>1, <3>2 DEF CountsAgree
  <2> QED
    BY <2>1, <2>2 DEF ReportTrue
<1> QED
  BY <1>1, StressInvariant, PTL

\* After a time-out in the raw protocol the socket is behind for good: no RTT of it
\* is the RTT of its own request again (StressTest/main.cpp:130-132, 170, 264-272).
THEOREM NeverCatchesUp == Spec => []LateForGood
<1>1. StressInv => LateForGood
  <2> SUFFICES ASSUME StressInv, NEW w \in Workers, Counted(w), proto = "raw",
                      conn[cur[w]] = "good", gaveUp[cur[w]]
               PROVE  read[cur[w]] < made[cur[w]] * L
    BY DEF LateForGood
  <2>1. wpc[w] \in Working /\ wpc[w] \notin {"head", "body"}
    BY DEF Counted, Working, Pending
  <2>2. PICK s \in Sockets : s = cur[w]
    BY <2>1, OwnSocket DEF StressInv
  <2> QED
    BY <2>1, <2>2, OwnFrom DEF StressInv, OwnStream, Behind
<1> QED
  BY <1>1, StressInvariant, PTL

=============================================================================
