---------------------------- MODULE TestClientProofs ----------------------------
(***************************************************************************)
(* Proofs about the console client, for any number of packets and lines,   *)
(* whatever SP_LOGINs and lines the server sends: the chat stays within    *)
(* the session, and [ME] marks the client's own lines while the numbers    *)
(* the client is told tell them apart.                                     *)
(***************************************************************************)
EXTENDS TestClient, SequenceTheorems, TLAPS

Packets == [kind : {"accepted", "refused", "chat", "other", "short"},
            account : Accounts, own : BOOLEAN]

MainPCs == {"connect", "name", "password", "passwordLine", "login", "wait", "enter",
            "chat", "line", "send", "lower", "shutdown", "join", "close", "exited"}

Early == {"connect", "name", "password", "passwordLine", "login"}
Chatting == {"chat", "line", "send"}

TypeOK ==
  /\ mpc \in MainPCs /\ running \in BOOLEAN /\ loggedIn \in BOOLEAN
  /\ unique \in Accounts /\ number \in Accounts
  /\ server \in {"unasked", "asked", "accepted", "refused"}
  /\ inbox \in Seq(Packets) /\ lost \in BOOLEAN
  /\ foreign \in BOOLEAN /\ misled \in BOOLEAN
  /\ lines \in Nat /\ late \in Nat /\ mistaken \in BOOLEAN

\* Nothing is asked before the login, and the number is that of the answer.
Asked ==
  /\ mpc \in Early => server = "unasked"
  /\ server = "accepted" => number \in {Own, Failed}
  /\ server # "accepted" => number = NoAccount

\* The chat is for those who are logged in; without an SP_LOGIN of another login
\* the client has what its own answer said, or nothing.
Entered ==
  /\ loggedIn => server = "accepted" \/ foreign
  /\ ~foreign /\ loggedIn => unique = number
  /\ ~foreign /\ ~loggedIn => unique = NoAccount
  /\ mpc \in Chatting \/ lines > 0 => loggedIn

\* A queue of packets without an SP_LOGIN that accepts; with at most one, which
\* carries n.
NoAnswer(q) == \A i \in 1 .. Len(q) : q[i].kind # "accepted"
OneAnswer(q, n) ==
  \A i \in 1 .. Len(q) :
    q[i].kind = "accepted" =>
      q[i].account = n /\ \A j \in 1 .. i - 1 : q[j].kind # "accepted"

\* The number the client has when it reads the packet at i: u until then, n after an
\* SP_LOGIN.
NumberAt(q, i, n, u) == IF \E j \in 1 .. i - 1 : q[j].kind = "accepted" THEN n ELSE u

\* Every line in the queue will be marked as it should be.
Tells(q, n, u) ==
  \A i \in 1 .. Len(q) :
    q[i].kind = "chat" => (q[i].own <=> q[i].account = NumberAt(q, i, n, u))

\* The answer to the client's login is under way from the time it is given until it is
\* taken, or lost with the connection; no other is.
Answers ==
  ~foreign =>
    /\ OneAnswer(inbox, number)
    /\ loggedIn \/ server # "accepted" => NoAnswer(inbox)
    /\ server = "accepted" /\ ~loggedIn /\ ~lost => ~NoAnswer(inbox)

\* The lines under way tell whose they are.
Told == ~foreign /\ ~misled => Tells(inbox, number, unique)

\* The line sent after running went down was the last.
LastLine == late = 0 \/ (late = 1 /\ ~running /\ mpc \notin {"line", "send"})

ClientInv ==
  /\ TypeOK
  /\ Asked
  /\ Entered
  /\ Answers
  /\ Told
  /\ LastLine
  /\ MarksOwnLines

-----------------------------------------------------------------------------
(* Queues of packets. *)

\* Taking the packet at the head: the others stay, one place further ahead, and a line
\* behind an SP_LOGIN is now read with its number.
LEMMA QueueTail ==
  ASSUME NEW q \in Seq(Packets), q # <<>>, NEW n, NEW u
  PROVE  /\ Head(q) \in Packets /\ Tail(q) \in Seq(Packets)
         /\ OneAnswer(q, n) => OneAnswer(Tail(q), n)
         /\ NoAnswer(q) => NoAnswer(Tail(q)) /\ Head(q).kind # "accepted"
         /\ NoAnswer(Tail(q)) /\ Head(q).kind # "accepted" => NoAnswer(q)
         /\ OneAnswer(q, n) /\ Head(q).kind = "accepted" =>
              NoAnswer(Tail(q)) /\ Head(q).account = n
         /\ Tells(q, n, u) =>
              Tells(Tail(q), n, IF Head(q).kind = "accepted" THEN n ELSE u)
         /\ Tells(q, n, u) /\ Head(q).kind = "chat" =>
              (Head(q).own <=> Head(q).account = u)
<1> DEFINE t == Tail(q)
           v == IF Head(q).kind = "accepted" THEN n ELSE u
<1>1. /\ Head(q) \in Packets /\ t \in Seq(Packets)
      /\ Len(t) = Len(q) - 1
      /\ \A i \in 1 .. Len(t) : t[i] = q[i + 1]
  BY HeadTailProperties
<1>2. Len(q) \in Nat /\ Len(q) >= 1
  BY EmptySeq
<1>3. Head(q) = q[1] /\ 1 \in 1 .. Len(q)
  BY <1>2
<1> HIDE DEF t, v
<1>4. \A i \in 1 .. Len(t) : i + 1 \in 1 .. Len(q) /\ t[i] = q[i + 1]
  BY <1>1, <1>2
<1>5. \A j \in 1 .. Len(q) : j = 1 \/ (j - 1 \in 1 .. Len(t) /\ q[j] = t[j - 1])
  BY <1>1, <1>2, <1>4
<1>6. ASSUME OneAnswer(q, n) PROVE OneAnswer(t, n)
  <2> SUFFICES ASSUME NEW i \in 1 .. Len(t), t[i].kind = "accepted"
               PROVE  /\ t[i].account = n
                      /\ \A j \in 1 .. i - 1 : t[j].kind # "accepted"
    BY DEF OneAnswer
  <2>1. i + 1 \in 1 .. Len(q) /\ t[i] = q[i + 1]
    BY <1>4
  <2>2. q[i + 1].account = n /\ \A j \in 1 .. (i + 1) - 1 : q[j].kind # "accepted"
    BY <1>6, <2>1 DEF OneAnswer
  <2>3. ASSUME NEW j \in 1 .. i - 1 PROVE t[j].kind # "accepted"
    <3>1. j \in 1 .. Len(t) /\ j + 1 \in 1 .. (i + 1) - 1
      BY <1>1, <1>2
    <3> QED
      BY <1>4, <2>2, <3>1
  <2> QED
    BY <2>1, <2>2, <2>3
<1>7. NoAnswer(q) => NoAnswer(t) /\ Head(q).kind # "accepted"
  BY <1>3, <1>4 DEF NoAnswer
<1>8. NoAnswer(t) /\ Head(q).kind # "accepted" => NoAnswer(q)
  BY <1>3, <1>5 DEF NoAnswer
<1>9. ASSUME OneAnswer(q, n), Head(q).kind = "accepted"
      PROVE  NoAnswer(t) /\ Head(q).account = n
  <2>1. Head(q).account = n
    BY <1>3, <1>9 DEF OneAnswer
  <2>2. ASSUME NEW i \in 1 .. Len(t) PROVE t[i].kind # "accepted"
    <3>1. i + 1 \in 1 .. Len(q) /\ t[i] = q[i + 1] /\ 1 \in 1 .. (i + 1) - 1
      BY <1>4
    <3>2. q[i + 1].kind = "accepted" => q[1].kind # "accepted"
      BY <1>9, <3>1 DEF OneAnswer
    <3> QED
      BY <1>3, <1>9, <3>1, <3>2
  <2> QED
    BY <2>1, <2>2 DEF NoAnswer
<1>10. ASSUME NEW i \in 1 .. Len(t)
       PROVE  NumberAt(t, i, n, v) = NumberAt(q, i + 1, n, u)
  <2>1. (\E j \in 1 .. (i + 1) - 1 : q[j].kind = "accepted")
        <=> Head(q).kind = "accepted" \/ \E j \in 1 .. i - 1 : t[j].kind = "accepted"
    <3>1. ASSUME NEW j \in 1 .. (i + 1) - 1, q[j].kind = "accepted"
          PROVE  Head(q).kind = "accepted"
                 \/ \E k \in 1 .. i - 1 : t[k].kind = "accepted"
      <4>1. j \in 1 .. Len(q) /\ (j = 1 \/ j - 1 \in 1 .. i - 1)
        BY <1>1, <1>2
      <4>2. j = 1 \/ q[j] = t[j - 1]
        BY <1>5, <4>1
      <4> QED
        BY <1>3, <3>1, <4>1, <4>2
    <3>2. ASSUME Head(q).kind = "accepted"
          PROVE  \E j \in 1 .. (i + 1) - 1 : q[j].kind = "accepted"
      <4>1. 1 \in 1 .. (i + 1) - 1
        OBVIOUS
      <4> QED
        BY <1>3, <3>2, <4>1
    <3>3. ASSUME NEW k \in 1 .. i - 1, t[k].kind = "accepted"
          PROVE  \E j \in 1 .. (i + 1) - 1 : q[j].kind = "accepted"
      <4>1. k \in 1 .. Len(t) /\ k + 1 \in 1 .. (i + 1) - 1
        BY <1>1, <1>2
      <4> QED
        BY <1>4, <3>3, <4>1
    <3> QED
      BY <3>1, <3>2, <3>3
  <2> QED
    BY <2>1, Zenon DEF NumberAt, v
<1>11. ASSUME Tells(q, n, u) PROVE Tells(t, n, v)
  <2> SUFFICES ASSUME NEW i \in 1 .. Len(t), t[i].kind = "chat"
               PROVE  t[i].own <=> t[i].account = NumberAt(t, i, n, v)
    BY DEF Tells
  <2>1. i + 1 \in 1 .. Len(q) /\ t[i] = q[i + 1]
    BY <1>4
  <2>2. q[i + 1].own <=> q[i + 1].account = NumberAt(q, i + 1, n, u)
    BY <1>11, <2>1, Zenon DEF Tells
  <2> QED
    BY <1>10, <2>1, <2>2, Zenon
<1>12. ASSUME Tells(q, n, u), Head(q).kind = "chat"
       PROVE  Head(q).own <=> Head(q).account = u
  <2>1. NumberAt(q, 1, n, u) = u
    <3>1. ~ \E j \in 1 .. 1 - 1 : q[j].kind = "accepted"
      OBVIOUS
    <3> QED
      BY <3>1, Zenon DEF NumberAt
  <2> QED
    BY <1>3, <1>12, <2>1, Zenon DEF Tells
<1>13. Tells(q, n, u) => Tells(t, n, v)
  BY <1>11
<1> QED
  BY <1>1, <1>6, <1>7, <1>8, <1>9, <1>12, <1>13 DEF t, v

\* Sending a packet: those ahead stay as they are.
LEMMA QueueAppend ==
  ASSUME NEW q \in Seq(Packets), NEW p \in Packets, NEW n, NEW u
  PROVE  /\ Append(q, p) \in Seq(Packets)
         /\ NoAnswer(q) /\ p.kind # "accepted" => NoAnswer(Append(q, p))
         /\ ~NoAnswer(q) \/ p.kind = "accepted" => ~NoAnswer(Append(q, p))
         /\ OneAnswer(q, n) /\ p.kind # "accepted" => OneAnswer(Append(q, p), n)
         /\ NoAnswer(q) /\ p.account = n => OneAnswer(Append(q, p), n)
         /\ /\ Tells(q, n, u)
            /\ p.kind = "chat" => (p.own <=> p.account = IF NoAnswer(q) THEN u ELSE n)
            => Tells(Append(q, p), n, u)
<1> DEFINE a == Append(q, p)
<1>1. /\ a \in Seq(Packets) /\ Len(a) = Len(q) + 1
      /\ \A i \in 1 .. Len(q) : a[i] = q[i]
      /\ a[Len(q) + 1] = p
  BY AppendProperties
<1>2. Len(q) \in Nat
  OBVIOUS
<1> HIDE DEF a
<1>3. \A i \in 1 .. Len(a) : i = Len(q) + 1 \/ i \in 1 .. Len(q)
  BY <1>1, <1>2
<1>4. \A i \in 1 .. Len(q) : i \in 1 .. Len(a)
  BY <1>1, <1>2
<1>5. Len(q) + 1 \in 1 .. Len(a)
  BY <1>1, <1>2
<1>6. ASSUME NEW i \in 1 .. Len(a) PROVE \A j \in 1 .. i - 1 : j \in 1 .. Len(q) /\ a[j] = q[j]
  BY <1>1, <1>2
<1>7. NoAnswer(q) /\ p.kind # "accepted" => NoAnswer(a)
  BY <1>1, <1>3 DEF NoAnswer
<1>8. ~NoAnswer(q) \/ p.kind = "accepted" => ~NoAnswer(a)
  BY <1>1, <1>4, <1>5 DEF NoAnswer
<1>9. ASSUME OneAnswer(q, n), p.kind # "accepted" PROVE OneAnswer(a, n)
  <2> SUFFICES ASSUME NEW i \in 1 .. Len(a), a[i].kind = "accepted"
               PROVE  /\ a[i].account = n
                      /\ \A j \in 1 .. i - 1 : a[j].kind # "accepted"
    BY DEF OneAnswer
  <2>1. i \in 1 .. Len(q) /\ a[i] = q[i]
    BY <1>1, <1>3, <1>9
  <2>2. q[i].account = n /\ \A j \in 1 .. i - 1 : q[j].kind # "accepted"
    BY <1>9, <2>1 DEF OneAnswer
  <2> QED
    BY <1>6, <2>1, <2>2
<1>10. ASSUME NoAnswer(q), p.account = n PROVE OneAnswer(a, n)
  <2> SUFFICES ASSUME NEW i \in 1 .. Len(a), a[i].kind = "accepted"
               PROVE  /\ a[i].account = n
                      /\ \A j \in 1 .. i - 1 : a[j].kind # "accepted"
    BY DEF OneAnswer
  <2>1. i = Len(q) + 1
    BY <1>1, <1>3, <1>10 DEF NoAnswer
  <2> QED
    BY <1>1, <1>6, <1>10, <2>1 DEF NoAnswer
<1>11. ASSUME Tells(q, n, u),
              p.kind = "chat" => (p.own <=> p.account = IF NoAnswer(q) THEN u ELSE n)
       PROVE  Tells(a, n, u)
  <2> SUFFICES ASSUME NEW i \in 1 .. Len(a), a[i].kind = "chat"
               PROVE  a[i].own <=> a[i].account = NumberAt(a, i, n, u)
    BY DEF Tells
  <2>1. CASE i = Len(q) + 1
    <3>1. (\E j \in 1 .. i - 1 : a[j].kind = "accepted") <=> ~NoAnswer(q)
      BY <1>1, <1>2, <2>1 DEF NoAnswer
    <3>2. NumberAt(a, i, n, u) = IF NoAnswer(q) THEN u ELSE n
      BY <3>1, Zenon DEF NumberAt
    <3> QED
      BY <1>1, <1>11, <2>1, <3>2, Zenon
  <2>2. CASE i \in 1 .. Len(q)
    <3>1. a[i] = q[i]
      BY <1>1, <2>2
    <3>2. (\E j \in 1 .. i - 1 : a[j].kind = "accepted")
          <=> \E j \in 1 .. i - 1 : q[j].kind = "accepted"
      BY <1>6
    <3>3. NumberAt(a, i, n, u) = NumberAt(q, i, n, u)
      BY <3>2, Zenon DEF NumberAt
    <3>4. q[i].own <=> q[i].account = NumberAt(q, i, n, u)
      BY <1>11, <2>2, <3>1, Zenon DEF Tells
    <3> QED
      BY <3>1, <3>3, <3>4, Zenon
  <2> QED
    BY <1>3, <2>1, <2>2
<1> QED
  BY <1>1, <1>7, <1>8, <1>9, <1>10, <1>11, Zenon DEF a

\* Losing what is behind the first k packets.
LEMMA QueueFront ==
  ASSUME NEW q \in Seq(Packets), NEW k \in 0 .. Len(q), NEW n, NEW u
  PROVE  /\ SubSeq(q, 1, k) \in Seq(Packets)
         /\ NoAnswer(q) => NoAnswer(SubSeq(q, 1, k))
         /\ OneAnswer(q, n) => OneAnswer(SubSeq(q, 1, k), n)
         /\ Tells(q, n, u) => Tells(SubSeq(q, 1, k), n, u)
<1> DEFINE f == SubSeq(q, 1, k)
<1>1. Len(q) \in Nat /\ k \in Nat
  OBVIOUS
<1>2. \A i \in 1 .. k : q[i] \in Packets /\ i \in 1 .. Len(q)
  BY <1>1, ElementOfSeq
<1>3. f \in Seq(Packets) /\ Len(f) = k /\ \A i \in 1 .. k : f[i] = q[i]
  <2>1. 1 \in Int /\ k \in Int
    BY <1>1
  <2>2. /\ f \in Seq(Packets)
        /\ Len(f) = IF 1 <= k THEN k - 1 + 1 ELSE 0
        /\ \A i \in 1 .. k - 1 + 1 : f[i] = q[1 + i - 1]
    BY <1>2, <2>1, SubSeqProperties
  <2> HIDE DEF f
  <2> QED
    BY <1>1, <2>2
<1> HIDE DEF f
<1>4. ASSUME NEW i \in 1 .. Len(f)
      PROVE  /\ i \in 1 .. Len(q) /\ f[i] = q[i]
             /\ \A j \in 1 .. i - 1 : f[j] = q[j]
  BY <1>1, <1>2, <1>3
<1>5. NoAnswer(q) => NoAnswer(f)
  BY <1>4 DEF NoAnswer
<1>6. OneAnswer(q, n) => OneAnswer(f, n)
  BY <1>4 DEF OneAnswer
<1>7. ASSUME Tells(q, n, u) PROVE Tells(f, n, u)
  <2> SUFFICES ASSUME NEW i \in 1 .. Len(f), f[i].kind = "chat"
               PROVE  f[i].own <=> f[i].account = NumberAt(f, i, n, u)
    BY DEF Tells
  <2>1. i \in 1 .. Len(q) /\ f[i] = q[i]
    BY <1>4
  <2>2. (\E j \in 1 .. i - 1 : f[j].kind = "accepted")
        <=> \E j \in 1 .. i - 1 : q[j].kind = "accepted"
    BY <1>4
  <2>3. NumberAt(f, i, n, u) = NumberAt(q, i, n, u)
    BY <2>2, Zenon DEF NumberAt
  <2>4. q[i].own <=> q[i].account = NumberAt(q, i, n, u)
    BY <1>7, <2>1, Zenon DEF Tells
  <2> QED
    BY <2>1, <2>3, <2>4, Zenon
<1> QED
  BY <1>3, <1>5, <1>6, <1>7, Zenon DEF f

-----------------------------------------------------------------------------
\* Steps of a thread that touch the control state only: they do not go back before
\* the login, and reach the chat only as it may be reached.
LEMMA QuietStep ==
  ASSUME ClientInv, mpc' \in MainPCs, running' \in {running, FALSE},
         UNCHANGED <<loggedIn, unique, inbox, lost, server, number, foreign, misled,
                     lines, late, mistaken>>,
         mpc' \in Early => mpc \in Early,
         mpc' \in Chatting => loggedIn,
         mpc' \in {"line", "send"} => late = 0
  PROVE  ClientInv'
<1>0. /\ loggedIn' = loggedIn /\ unique' = unique /\ inbox' = inbox /\ lost' = lost
      /\ server' = server /\ number' = number /\ foreign' = foreign
      /\ misled' = misled /\ lines' = lines /\ late' = late /\ mistaken' = mistaken
  OBVIOUS
<1>1. running \in BOOLEAN
  BY DEF ClientInv, TypeOK
<1>2. running' \in BOOLEAN
  BY <1>1
<1>3. running' => running
  BY <1>1, Zenon
<1>4. TypeOK'
  BY <1>0, <1>2 DEF ClientInv, TypeOK
<1>5. Asked'
  BY <1>0 DEF ClientInv, Asked
<1>6. Entered'
  <2>1. mpc' \in Chatting \/ lines' > 0 => loggedIn'
    BY <1>0 DEF ClientInv, Entered
  <2> QED
    BY <1>0, <2>1 DEF ClientInv, Entered
<1>7. Answers' /\ Told'
  BY <1>0 DEF ClientInv, Answers, Told
<1>8. LastLine'
  <2>1. late = 0 \/ (late = 1 /\ ~running')
    BY <1>3, Zenon DEF ClientInv, LastLine
  <2>2. late = 1 => late # 0
    OBVIOUS
  <2> QED
    BY <1>0, <2>1, <2>2, Zenon DEF LastLine
<1>9. MarksOwnLines'
  BY <1>0 DEF ClientInv, MarksOwnLines
<1> QED
  BY <1>4, <1>5, <1>6, <1>7, <1>8, <1>9 DEF ClientInv

\* A packet is taken: the rest of the queue is as sound as the whole was.
LEMMA TakesPacket ==
  ASSUME ClientInv, NEW kind, Takes(kind)
  PROVE  /\ inbox \in Seq(Packets) /\ inbox # <<>>
         /\ inbox' = Tail(inbox) /\ inbox' \in Seq(Packets)
         /\ Head(inbox) \in Packets /\ Head(inbox).kind = kind
<1>1. inbox \in Seq(Packets) /\ inbox # <<>> /\ inbox' = Tail(inbox)
      /\ Head(inbox).kind = kind
  BY DEF ClientInv, TypeOK, Takes, Readable
<1> QED
  BY <1>1, QueueTail

\* The packet taken is no SP_LOGIN that accepts, and nothing but the inbox changes:
\* what the queue told it still tells.
LEMMA TailKeeps ==
  ASSUME ClientInv, NEW kind, Takes(kind), kind # "accepted",
         UNCHANGED <<loggedIn, unique, lost, server, number, foreign, misled>>
  PROVE  Answers' /\ Told'
<1>1. /\ inbox \in Seq(Packets) /\ inbox # <<>>
      /\ inbox' = Tail(inbox) /\ Head(inbox).kind # "accepted"
  BY TakesPacket
<1>2. /\ OneAnswer(inbox, number) => OneAnswer(inbox', number)
      /\ NoAnswer(inbox) <=> NoAnswer(inbox')
      /\ Tells(inbox, number, unique) => Tells(inbox', number, unique)
  BY <1>1, QueueTail
<1>3. /\ loggedIn' = loggedIn /\ unique' = unique /\ lost' = lost /\ server' = server
      /\ number' = number /\ foreign' = foreign /\ misled' = misled
  OBVIOUS
<1>4. Answers /\ Told
  BY DEF ClientInv
<1>5. Answers'
  BY <1>2, <1>3, <1>4 DEF Answers
<1>6. Told'
  BY <1>2, <1>3, <1>4 DEF Told
<1> QED
  BY <1>5, <1>6

-----------------------------------------------------------------------------
\* The invariant holds at the start.
LEMMA ClientInit == Init => ClientInv
<1> SUFFICES ASSUME Init PROVE ClientInv
  OBVIOUS
<1>1. TypeOK
  BY EmptySeq DEF Init, TypeOK, MainPCs, Accounts
<1>2. Asked /\ Entered /\ LastLine /\ MarksOwnLines
  BY DEF Init, Asked, Entered, LastLine, MarksOwnLines, Chatting
<1>3. Answers /\ Told
  BY DEF Init, Answers, Told, OneAnswer, NoAnswer, Tells
<1> QED
  BY <1>1, <1>2, <1>3 DEF ClientInv

\* The main thread's steps that only move on keep the invariant, and so do the
\* user's.
LEMMA MainMoves ==
  ASSUME ClientInv,
         \/ Connect \/ ReadName \/ AskPassword \/ ReadPassword \/ WaitForLogin
         \/ EnterChat \/ ChatLoop \/ ReadLine \/ LowerRunning \/ Shutdown \/ Join
         \/ CloseSocket
  PROVE  ClientInv'
<1>0. running \in BOOLEAN /\ loggedIn \in BOOLEAN
  BY DEF ClientInv, TypeOK
<1>1. CASE Connect
  BY <1>1, QuietStep DEF Connect, MainPCs, Early, Chatting, flags, net, env, sent, ghosts
<1>2. CASE ReadName \/ ReadPassword
  BY <1>2, QuietStep DEF ReadName, ReadPassword, MainOnly, MainPCs, Early, Chatting,
     net, env, sent, ghosts
<1>3. CASE AskPassword
  BY <1>3, QuietStep DEF AskPassword, MainOnly, MainPCs, Early, Chatting, net, env,
     sent, ghosts
<1>4. CASE WaitForLogin
  BY <1>4, QuietStep DEF WaitForLogin, MainOnly, MainPCs, Early, Chatting, net, env,
     sent, ghosts
<1>5. CASE EnterChat
  <2>1. mpc' \in MainPCs /\ mpc' \notin Early \cup {"line", "send"}
        /\ (mpc' \in Chatting => loggedIn)
    BY <1>5, Zenon DEF EnterChat, MainPCs, Early, Chatting
  <2> QED
    BY <1>5, <2>1, QuietStep DEF EnterChat, MainOnly, net, env, sent, ghosts
<1>6. CASE ChatLoop
  <2>1. loggedIn
    BY <1>6 DEF ChatLoop, ClientInv, Entered, Chatting
  <2>2. mpc' = "line" => running
    BY <1>6, Zenon DEF ChatLoop
  <2>3. running => late = 0
    BY Zenon DEF ClientInv, LastLine
  <2>4. mpc' \in {"line", "lower"}
    BY <1>6 DEF ChatLoop
  <2> QED
    BY <1>6, <2>1, <2>2, <2>3, <2>4, QuietStep
    DEF ChatLoop, MainOnly, MainPCs, Early, Chatting, net, env, sent, ghosts
<1>7. CASE ReadLine
  <2>1. loggedIn /\ late = 0
    BY <1>7 DEF ReadLine, ClientInv, Entered, LastLine, Chatting
  <2> QED
    BY <1>7, <2>1, QuietStep DEF ReadLine, MainOnly, MainPCs, Early, Chatting,
       net, env, sent, ghosts
<1>8. CASE LowerRunning \/ Join
  BY <1>8, QuietStep DEF LowerRunning, Join, MainOnly, MainPCs, Early, Chatting,
     net, env, sent, ghosts
<1>9. CASE Shutdown \/ CloseSocket
  BY <1>9, QuietStep DEF Shutdown, CloseSocket, MainPCs, Early, Chatting, flags, env,
     sent, ghosts
<1> QED
  BY <1>1, <1>2, <1>3, <1>4, <1>5, <1>6, <1>7, <1>8, <1>9

\* CP_LOGIN is sent once, when nothing has been asked yet.
LEMMA LoginKeeps ==
  ASSUME ClientInv, SendLogin
  PROVE  ClientInv'
<1>1. /\ mpc = "login" /\ mpc' = "wait" /\ server = "unasked"
      /\ server' \in {"unasked", "asked"} /\ running' \in {running, FALSE}
      /\ UNCHANGED <<loggedIn, unique, inbox, lost, number, foreign, misled, lines,
                     late, mistaken>>
  BY DEF SendLogin, ClientInv, Asked, Early, net, sent, ghosts
<1>2. running' \in BOOLEAN /\ (running' => running)
  <2>1. running \in BOOLEAN
    BY DEF ClientInv, TypeOK
  <2>2. running' \in BOOLEAN
    BY <1>1, <2>1
  <2>3. running' => running
    BY <1>1, <2>1, Zenon
  <2> QED
    BY <2>2, <2>3
<1>3. TypeOK'
  BY <1>1, <1>2 DEF ClientInv, TypeOK, MainPCs
<1>4. Asked'
  BY <1>1 DEF ClientInv, Asked, Early
<1>5. Entered'
  BY <1>1 DEF ClientInv, Entered, Chatting
<1>6. Answers' /\ Told'
  BY <1>1 DEF ClientInv, Answers, Told
<1>7. LastLine' /\ MarksOwnLines'
  BY <1>1, <1>2 DEF ClientInv, LastLine, MarksOwnLines
<1> QED
  BY <1>3, <1>4, <1>5, <1>6, <1>7 DEF ClientInv

\* CP_CHAT: the line counts as late when running is down by now.
LEMMA LineKeeps ==
  ASSUME ClientInv, SendLine
  PROVE  ClientInv'
<1>1. /\ mpc = "send" /\ mpc' \in {"chat", "lower"} /\ lines' \in {lines, lines + 1}
      /\ UNCHANGED <<loggedIn, unique, inbox, lost, server, number, foreign, misled,
                     mistaken>>
  BY DEF SendLine, net, env, sent
<1>2. loggedIn /\ late = 0
  BY <1>1 DEF ClientInv, Entered, LastLine, Chatting
<1>3. running \in BOOLEAN /\ lines \in Nat
  BY DEF ClientInv, TypeOK
<1>4. running' \in {running, FALSE}
  BY DEF SendLine
<1>5. running' \in BOOLEAN
  BY <1>3, <1>4
<1>6. late' = IF running THEN 0 ELSE 1
  BY <1>2 DEF SendLine
<1>7. late' = 0 \/ (late' = 1 /\ ~running')
  BY <1>3, <1>4, <1>6
<1>8. TypeOK'
  <2>1. lines' \in Nat /\ late' \in Nat
    BY <1>1, <1>3, <1>7
  <2> QED
    BY <1>1, <1>5, <2>1 DEF ClientInv, TypeOK, MainPCs
<1>9. Asked' /\ Answers' /\ Told' /\ MarksOwnLines'
  BY <1>1 DEF ClientInv, Asked, Early, Answers, Told, MarksOwnLines
<1>10. Entered'
  BY <1>1, <1>2 DEF ClientInv, Entered
<1>11. LastLine'
  BY <1>1, <1>7 DEF LastLine
<1> QED
  BY <1>8, <1>9, <1>10, <1>11 DEF ClientInv

\* The receive thread's steps that take no packet.
LEMMA RecvMoves ==
  ASSUME ClientInv, RecvLoop \/ ReadHeader \/ ReadFails
  PROVE  ClientInv'
<1>1. /\ running' \in {running, FALSE} /\ mpc' = mpc
      /\ UNCHANGED <<loggedIn, unique, inbox, lost, server, number, foreign, misled,
                     lines, late, mistaken>>
  BY DEF RecvLoop, ReadHeader, ReadFails, RecvOnly, net, env, sent, ghosts
<1>2. mpc' \in MainPCs
  BY <1>1 DEF ClientInv, TypeOK
<1>3. mpc' \in Chatting => loggedIn
  BY <1>1 DEF ClientInv, Entered
<1>4. mpc' \in {"line", "send"} => late = 0
  BY <1>1 DEF ClientInv, LastLine
<1> QED
  BY <1>1, <1>2, <1>3, <1>4, QuietStep

\* SP_LOGIN: as long as none came from another login it is the answer to this
\* client's, carries the number the server gave, and is the only one.
LEMMA AcceptedKeeps ==
  ASSUME ClientInv, LoginAccepted
  PROVE  ClientInv'
<1>1. Takes("accepted") /\ loggedIn' = TRUE /\ unique' = Head(inbox).account
  BY DEF LoginAccepted
<1>2. UNCHANGED <<mpc, running, lost, server, number, foreign, misled, lines, late,
                  mistaken>>
  BY DEF LoginAccepted, env, sent, ghosts
<1>3. /\ inbox \in Seq(Packets) /\ inbox # <<>>
      /\ inbox' = Tail(inbox) /\ inbox' \in Seq(Packets)
      /\ Head(inbox) \in Packets /\ Head(inbox).kind = "accepted"
  BY <1>1, TakesPacket
<1>4. ASSUME ~foreign
      PROVE  /\ server = "accepted" /\ unique' = number
             /\ NoAnswer(inbox') /\ OneAnswer(inbox', number)
  <2>1. OneAnswer(inbox, number)
    BY <1>4 DEF ClientInv, Answers
  <2>2. ~NoAnswer(inbox)
    BY <1>3, QueueTail
  <2> QED
    BY <1>1, <1>3, <1>4, <2>1, <2>2, QueueTail DEF ClientInv, Answers
<1>5. TypeOK'
  <2>1. unique' \in Accounts
    BY <1>1, <1>3 DEF Packets
  <2> QED
    BY <1>1, <1>2, <1>3, <2>1 DEF ClientInv, TypeOK
<1>6. Asked' /\ LastLine' /\ MarksOwnLines'
  BY <1>2 DEF ClientInv, Asked, LastLine, MarksOwnLines
<1>7. Entered'
  <2>1. server = "accepted" \/ foreign
    BY <1>4
  <2> QED
    BY <1>1, <1>2, <1>4, <2>1 DEF Entered
<1>8. Answers'
  BY <1>1, <1>2, <1>4 DEF Answers
<1>9. Told'
  <2>1. ASSUME ~foreign, ~misled PROVE Tells(inbox', number, unique')
    <3>1. Tells(inbox, number, unique)
      BY <2>1 DEF ClientInv, Told
    <3> QED
      BY <1>3, <1>4, <2>1, <3>1, QueueTail
  <2> QED
    BY <1>2, <2>1 DEF Told
<1> QED
  BY <1>5, <1>6, <1>7, <1>8, <1>9 DEF ClientInv

\* A refusal and packets the client does not know change nothing but the inbox.
LEMMA SkippedKeeps ==
  ASSUME ClientInv, LoginRefused \/ OtherPacket
  PROVE  ClientInv'
<1>1. PICK kind : Takes(kind) /\ kind # "accepted"
  BY DEF LoginRefused, OtherPacket
<1>2. UNCHANGED <<mpc, running, loggedIn, unique, lost, server, number, foreign, misled,
                  lines, late, mistaken>>
  BY DEF LoginRefused, OtherPacket, flags, env, sent, ghosts
<1>3. inbox' \in Seq(Packets)
  BY <1>1, TakesPacket
<1>4. Answers' /\ Told'
  BY <1>1, <1>2, TailKeeps
<1>5. TypeOK' /\ Asked' /\ Entered' /\ LastLine' /\ MarksOwnLines'
  BY <1>2, <1>3 DEF ClientInv, TypeOK, Asked, Entered, LastLine, MarksOwnLines
<1> QED
  BY <1>4, <1>5 DEF ClientInv

\* A chat line: while the numbers tell, it is the client's own just when it carries the
\* number the client has.
LEMMA ChatKeeps ==
  ASSUME ClientInv, Chat
  PROVE  ClientInv'
<1> DEFINE p == Head(inbox)
<1>1. /\ Takes("chat")
      /\ mistaken' = (mistaken \/ (p.account = unique) # p.own)
      /\ UNCHANGED <<mpc, running, loggedIn, unique, lost, server, number, foreign,
                     misled, lines, late>>
  BY DEF Chat, flags, env, sent
<1>2. /\ inbox \in Seq(Packets) /\ inbox # <<>> /\ p \in Packets /\ p.kind = "chat"
      /\ inbox' \in Seq(Packets)
  BY <1>1, TakesPacket
<1>3. p.own \in BOOLEAN
  BY <1>2 DEF Packets
<1>4. ~foreign /\ ~misled => (p.own <=> p.account = unique)
  <2>1. ~foreign /\ ~misled => Tells(inbox, number, unique)
    BY DEF ClientInv, Told
  <2> QED
    BY <1>2, <2>1, QueueTail
<1> HIDE DEF p
<1>5. mistaken' \in BOOLEAN
  BY <1>1, Zenon
<1>6. MarksOwnLines'
  <2>1. mistaken => foreign \/ misled
    BY DEF ClientInv, MarksOwnLines
  <2>2. ~foreign /\ ~misled => (p.account = unique) = p.own
    BY <1>3, <1>4, Zenon
  <2>3. mistaken' => foreign \/ misled
    BY <1>1, <2>1, <2>2, Zenon
  <2> QED
    BY <1>1, <2>3 DEF MarksOwnLines
<1>7. Answers' /\ Told'
  BY <1>1, TailKeeps
<1>8. TypeOK' /\ Asked' /\ Entered' /\ LastLine'
  BY <1>1, <1>2, <1>5 DEF ClientInv, TypeOK, Asked, Entered, LastLine
<1> QED
  BY <1>6, <1>7, <1>8 DEF ClientInv

-----------------------------------------------------------------------------
\* The answer to CP_LOGIN carries the number it sets; as long as no SP_LOGIN came from
\* another login, none is under way yet and the client has no number.
LEMMA AnswerKeeps ==
  ASSUME ClientInv, ServerAnswers
  PROVE  ClientInv'
<1>1. /\ server = "asked" /\ server' \in {"accepted", "refused"}
      /\ UNCHANGED <<mpc, running, loggedIn, unique, lost, foreign, misled, lines, late,
                     mistaken>>
  BY DEF ServerAnswers, EnvOnly, flags, ghosts
<1>2. mpc \notin Early /\ number = NoAccount
  BY <1>1 DEF ClientInv, Asked
<1>3. PICK p \in Packets :
         /\ ServerSends(p)
         /\ \/ /\ server' = "accepted" /\ number' \in {Own, Failed}
               /\ p.kind = "accepted" /\ p.account = number'
            \/ server' = "refused" /\ number' = NoAccount /\ p.kind = "refused"
  <2>1. CASE server' = "accepted"
    <3> DEFINE q == Packet("accepted", number', FALSE)
    <3>1. number' \in {Own, Failed} /\ ServerSends(q)
      BY <1>1, <2>1 DEF ServerAnswers, SendsAnswer
    <3>2. q \in Packets /\ q.kind = "accepted" /\ q.account = number'
      BY <3>1 DEF Packet, Packets, Accounts
    <3> HIDE DEF q
    <3> QED
      BY <2>1, <3>1, <3>2
  <2>2. CASE server' = "refused"
    <3> DEFINE q == Packet("refused", NoAccount, FALSE)
    <3>1. number' = NoAccount /\ ServerSends(q)
      BY <1>1, <1>2, <2>2 DEF ServerAnswers, SendsAnswer
    <3>2. q \in Packets /\ q.kind = "refused"
      BY DEF Packet, Packets, Accounts
    <3> HIDE DEF q
    <3> QED
      BY <2>2, <3>1, <3>2
  <2> QED
    BY <1>1, <2>1, <2>2
<1>4. inbox \in Seq(Packets) /\ inbox' = Append(inbox, p) /\ inbox' \in Seq(Packets)
      /\ ~lost
  BY <1>3, QueueAppend DEF ClientInv, TypeOK, ServerSends
<1>5. ASSUME ~foreign
      PROVE  /\ ~loggedIn /\ unique = NoAccount /\ NoAnswer(inbox)
             /\ OneAnswer(inbox', number')
             /\ server' = "accepted" => ~NoAnswer(inbox')
             /\ server' # "accepted" => NoAnswer(inbox')
  <2>1. ~loggedIn /\ unique = NoAccount /\ NoAnswer(inbox)
    BY <1>1, <1>5 DEF ClientInv, Entered, Answers
  <2>2. OneAnswer(inbox, number')
    BY <2>1 DEF NoAnswer, OneAnswer
  <2> QED
    BY <1>3, <1>4, <2>1, <2>2, QueueAppend
<1>6. ASSUME ~foreign, ~misled PROVE Tells(inbox', number', unique)
  <2>1. Tells(inbox, number, unique) /\ NoAnswer(inbox)
    BY <1>5, <1>6 DEF ClientInv, Told
  <2>2. Tells(inbox, number', unique)
    <3>1. ASSUME NEW i \in 1 .. Len(inbox)
          PROVE  NumberAt(inbox, i, number', unique) = NumberAt(inbox, i, number, unique)
      <4>1. ~ \E j \in 1 .. i - 1 : inbox[j].kind = "accepted"
        BY <1>4, <2>1 DEF NoAnswer
      <4> QED
        BY <4>1, Zenon DEF NumberAt
    <3> QED
      BY <2>1, <3>1, Zenon DEF Tells
  <2>3. p.kind # "chat"
    BY <1>3
  <2> QED
    BY <1>4, <2>2, <2>3, QueueAppend
<1>7. TypeOK'
  <2>1. number' \in Accounts
    BY <1>3 DEF Accounts
  <2> QED
    BY <1>1, <1>4, <2>1 DEF ClientInv, TypeOK
<1>8. Asked'
  BY <1>1, <1>2, <1>3 DEF Asked
<1>9. Entered'
  <2>1. loggedIn => foreign
    BY <1>5
  <2> QED
    BY <1>1, <2>1 DEF ClientInv, Entered
<1>10. Answers'
  BY <1>1, <1>5 DEF Answers
<1>11. Told'
  BY <1>1, <1>6 DEF Told
<1>12. LastLine' /\ MarksOwnLines'
  BY <1>1 DEF ClientInv, LastLine, MarksOwnLines
<1> QED
  BY <1>7, <1>8, <1>9, <1>10, <1>11, <1>12 DEF ClientInv

\* An SP_LOGIN of another login: from now on nothing is said of the queue.
LEMMA ForeignKeeps ==
  ASSUME ClientInv, ForeignAnswer
  PROVE  ClientInv'
<1>1. /\ foreign' = TRUE
      /\ UNCHANGED <<mpc, running, loggedIn, unique, lost, server, number, misled,
                     lines, late, mistaken>>
  BY DEF ForeignAnswer, EnvOnly, flags, ghosts
<1>2. PICK p \in Packets : ServerSends(p)
  <2>1. PICK k \in {"accepted", "refused"}, a \in Accounts : SendsAnswer(k, a)
    BY DEF ForeignAnswer, Accounts
  <2>2. Packet(k, a, FALSE) \in Packets
    BY DEF Packet, Packets
  <2> QED
    BY <2>1, <2>2 DEF SendsAnswer
<1>3. inbox' \in Seq(Packets)
  BY <1>2, QueueAppend DEF ClientInv, TypeOK, ServerSends
<1>4. TypeOK' /\ Asked' /\ LastLine'
  BY <1>1, <1>3 DEF ClientInv, TypeOK, Asked, LastLine
<1>5. Entered' /\ Answers' /\ Told' /\ MarksOwnLines'
  BY <1>1 DEF ClientInv, Entered, Answers, Told, MarksOwnLines
<1> QED
  BY <1>4, <1>5 DEF ClientInv

\* A line of anybody, or a packet the client does not know: while the line tells whose
\* it is by the number the server has told, it does so by the number the client has when
\* it gets there.
LEMMA BroadcastKeeps ==
  ASSUME ClientInv, ServerBroadcasts \/ OddPacket
  PROVE  ClientInv'
<1>1. UNCHANGED <<mpc, running, loggedIn, unique, lost, server, number, foreign, lines,
                  late, mistaken>>
  BY DEF ServerBroadcasts, OddPacket, EnvOnly, sent, flags, ghosts
<1>2. PICK p \in Packets :
         /\ ServerSends(p) /\ p.kind # "accepted"
         /\ misled' \in BOOLEAN /\ (misled => misled')
         /\ p.kind = "chat" /\ ~misled' => (p.own <=> p.account = number)
  <2>1. misled \in BOOLEAN
    BY DEF ClientInv, TypeOK
  <2>2. CASE ServerBroadcasts
    <3>1. PICK a \in Accounts, own \in BOOLEAN :
             /\ ServerSends(Packet("chat", a, own))
             /\ misled' = (misled \/ own # (a = number))
      BY <2>2 DEF ServerBroadcasts
    <3>2. PICK p \in Packets : p = Packet("chat", a, own)
      BY DEF Packet, Packets
    <3>3. p.kind = "chat" /\ p.own = own /\ p.account = a
      BY <3>2 DEF Packet
    <3>4. misled' \in BOOLEAN /\ (misled => misled')
      BY <2>1, <3>1, Zenon
    <3>5. ~misled' => (own <=> a = number)
      BY <3>1, Zenon
    <3>6. ~misled' => (p.own <=> p.account = number)
      BY <3>3, <3>5, Zenon
    <3>7. ServerSends(p) /\ p.kind # "accepted"
      BY <3>1, <3>2, <3>3
    <3> QED
      BY <3>4, <3>6, <3>7, Zenon
  <2>3. CASE OddPacket
    <3>1. PICK k \in {"other", "short"} : ServerSends(Packet(k, NoAccount, FALSE))
      BY <2>3 DEF OddPacket
    <3>2. PICK p \in Packets : p = Packet(k, NoAccount, FALSE)
      BY DEF Packet, Packets, Accounts
    <3>3. p.kind # "accepted" /\ p.kind # "chat"
      BY <3>2 DEF Packet
    <3>4. misled' = misled
      BY <2>3 DEF OddPacket, sent
    <3> QED
      BY <2>1, <3>1, <3>2, <3>3, <3>4
  <2> QED
    BY <2>2, <2>3
<1>3. inbox \in Seq(Packets) /\ inbox' = Append(inbox, p) /\ inbox' \in Seq(Packets)
      /\ ~lost
  BY <1>2, QueueAppend DEF ClientInv, TypeOK, ServerSends
<1>4. /\ OneAnswer(inbox, number) => OneAnswer(inbox', number)
      /\ NoAnswer(inbox) <=> NoAnswer(inbox')
  BY <1>2, <1>3, QueueAppend
<1>5. ASSUME ~foreign, ~misled' PROVE Tells(inbox', number, unique)
  <2>1. ~misled
    BY <1>2, <1>5
  <2>2. Tells(inbox, number, unique)
    BY <1>5, <2>1 DEF ClientInv, Told
  <2>3. NoAnswer(inbox) => number = unique
    <3>1. server # "accepted" => number = NoAccount
      BY DEF ClientInv, Asked
    <3>2. server = "accepted" /\ ~loggedIn => ~NoAnswer(inbox)
      BY <1>3, <1>5 DEF ClientInv, Answers
    <3>3. (loggedIn => unique = number) /\ (~loggedIn => unique = NoAccount)
      BY <1>5 DEF ClientInv, Entered
    <3> QED
      BY <3>1, <3>2, <3>3
  <2>4. p.kind = "chat" => (p.own <=> p.account = IF NoAnswer(inbox) THEN unique ELSE number)
    <3>1. (IF NoAnswer(inbox) THEN unique ELSE number) = number
      BY <2>3
    <3> QED
      BY <1>2, <1>5, <3>1, Zenon
  <2> QED
    BY <1>3, <2>2, <2>4, QueueAppend
<1>6. Answers'
  BY <1>1, <1>4, Zenon DEF ClientInv, Answers
<1>7. Told'
  BY <1>1, <1>5 DEF Told
<1>8. TypeOK' /\ Asked' /\ Entered' /\ LastLine'
  BY <1>1, <1>2, <1>3 DEF ClientInv, TypeOK, Asked, Entered, LastLine
<1>9. MarksOwnLines'
  BY <1>1, <1>2 DEF ClientInv, MarksOwnLines
<1> QED
  BY <1>6, <1>7, <1>8, <1>9 DEF ClientInv

\* What a breaking connection leaves under way is the front of what was.
LEMMA LostKeeps ==
  ASSUME ClientInv, ConnectionLost
  PROVE  ClientInv'
<1>1. /\ lost' = TRUE
      /\ UNCHANGED <<mpc, running, loggedIn, unique, server, number, foreign, misled,
                     lines, late, mistaken>>
  BY DEF ConnectionLost, flags, env, sent, ghosts
<1>2. inbox \in Seq(Packets)
  BY DEF ClientInv, TypeOK
<1>3. PICK n \in 0 .. Len(inbox) : inbox' = SubSeq(inbox, 1, n)
  BY DEF ConnectionLost
<1>4. /\ inbox' \in Seq(Packets)
      /\ NoAnswer(inbox) => NoAnswer(inbox')
      /\ OneAnswer(inbox, number) => OneAnswer(inbox', number)
      /\ Tells(inbox, number, unique) => Tells(inbox', number, unique)
  BY <1>2, <1>3, QueueFront
<1>5. Answers'
  BY <1>1, <1>4, Zenon DEF ClientInv, Answers
<1>6. Told'
  BY <1>1, <1>4, Zenon DEF ClientInv, Told
<1>7. TypeOK' /\ Asked' /\ Entered' /\ LastLine' /\ MarksOwnLines'
  BY <1>1, <1>4 DEF ClientInv, TypeOK, Asked, Entered, LastLine, MarksOwnLines
<1> QED
  BY <1>5, <1>6, <1>7 DEF ClientInv

-----------------------------------------------------------------------------
\* Every step keeps the invariant.
LEMMA ClientStep == ClientInv /\ [Next]_vars => ClientInv'
<1> SUFFICES ASSUME ClientInv, [Next]_vars
             PROVE  ClientInv'
  OBVIOUS
<1>1. CASE MainStep \/ User
  BY <1>1, MainMoves, LoginKeeps, LineKeeps DEF MainStep, User
<1>2. CASE RecvStep
  BY <1>2, RecvMoves, AcceptedKeeps, SkippedKeeps, ChatKeeps DEF RecvStep
<1>3. CASE Environment
  BY <1>3, AnswerKeeps, ForeignKeeps, BroadcastKeeps, LostKeeps DEF Environment
<1>4. CASE UNCHANGED vars
  BY <1>4 DEF vars, flags, net, env, sent, ghosts, ClientInv, TypeOK, Asked, Entered,
     Answers, Told, LastLine, MarksOwnLines
<1> QED
  BY <1>1, <1>2, <1>3, <1>4 DEF Next

\* In every behaviour of the client, its server and its user (TestClient/main.cpp:
\* 178-406): until an SP_LOGIN of another login is sent to it, the client has the number
\* its own login was answered with or none, and every line under way that tells whose
\* it is will be marked so.
THEOREM ClientInvariant == Spec => []ClientInv
BY ClientInit, ClientStep, PTL DEF Spec

\* A line is sent only after the server accepted the login or sent the client an
\* SP_LOGIN of another one, at most one of them after the receive thread has noticed the
\* end; and [ME] marks the client's own lines and no others, unless it was sent an
\* SP_LOGIN of another login, or a line whose number does not tell whose it is
\* (TestClient/main.cpp:178-218, 298-330).
THEOREM ChatSoundHolds == Spec => []ChatSound
<1>1. ClientInv => ChatSound
  <2> SUFFICES ASSUME ClientInv PROVE ChatSound
    OBVIOUS
  <2>1. lines > 0 => server = "accepted" \/ foreign
    BY DEF ClientInv, Entered
  <2>2. late <= 1
    BY DEF ClientInv, LastLine
  <2> QED
    BY <2>1, <2>2 DEF ClientInv, ChatSound, LinesWithinSession
<1> QED
  BY <1>1, ClientInvariant, PTL
=============================================================================
