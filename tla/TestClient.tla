------------------------------ MODULE TestClient ------------------------------
(***************************************************************************)
(* The console client, TestClient/main.cpp: the main thread asks for a     *)
(* name, sends CP_LOGIN, waits for the answer and sends what is typed; a   *)
(* receive thread reads packets.  They share two atomics, running and      *)
(* loggedIn, and the socket.  The server, the network and the user are the *)
(* environment.                                                            *)
(*                                                                         *)
(* A packet is its kind and what the client looks at: the result of a      *)
(* login, the account number, and (ghost) whether a chat line is this      *)
(* client's own.  Console output is left out, but for the mark [ME].       *)
(*                                                                         *)
(* The server sends what GameLogin, GameChat and SendPipeline allow: the   *)
(* answer to this client's login, answers to others' logins and what is    *)
(* left in the queue of the Session object, at any time and more than      *)
(* once, and lines of anybody under any number.                            *)
(***************************************************************************)
EXTENDS Integers, Sequences

CONSTANTS
  MaxPackets,  \* bound on the packets the server sends
  MaxLines     \* bound on the lines typed into the chat

ASSUME BoundAssumption == MaxPackets \in Nat /\ MaxLines \in Nat

VARIABLES
  mpc,       \* the main thread's next step
  rpc,       \* the receive thread's next step
  running,   \* the atomic flags of main
  loggedIn,
  unique,    \* i64Unique
  sock,      \* the socket: "none", "open", "shut" by shutdown, "closed"
  lost,      \* the connection is broken or the server has closed it
  inbox,     \* packets under way to the client
  server,    \* what the server made of this client's login
  number,    \* the account number it answered, NoAccount until then
  packets,   \* packets sent by the server
  lines,     \* lines sent to the server
  first,     \* ghost: what the first SP_LOGIN sent to the client says
  foreign,   \* ghost: an SP_LOGIN was sent to it that is not its own login's
  misled,    \* ghost: a line was sent whose number does not tell whose it is
  late,      \* ghost: lines sent although running was down already
  mistaken   \* ghost: some line was marked [ME] and is not, or the reverse

flags  == <<running, loggedIn>>
net    == <<sock, lost, inbox>>
sent   == <<first, foreign, misled>>
env    == <<server, number, packets, sent>>
ghosts == <<late, mistaken>>
vars   == <<mpc, rpc, flags, unique, net, env, lines, ghosts>>

\* Account numbers: none, of a check that failed on the server, this client's,
\* another client's.
NoAccount == 0
Failed    == -1
Own       == 1
Other     == 2
Accounts  == {NoAccount, Failed, Own, Other}

\* SP_LOGIN accepted and refused, SP_CHAT, any other packet, and a header that
\* announces less than itself.
Packet(kind, account, own) == [kind |-> kind, account |-> account, own |-> own]

Init ==
  /\ mpc = "connect" /\ rpc = "none"
  /\ running = TRUE /\ loggedIn = FALSE /\ unique = NoAccount
  /\ sock = "none" /\ lost = FALSE /\ inbox = <<>>
  /\ server = "unasked" /\ number = NoAccount /\ packets = 0 /\ lines = 0
  /\ first = "none" /\ foreign = FALSE /\ misled = FALSE
  /\ late = 0 /\ mistaken = FALSE

-----------------------------------------------------------------------------
(* The main thread. *)

\* WinSock, socket and connect: any of them may fail, and main returns; else
\* the receive thread is started.
Connect ==
  /\ mpc = "connect"
  /\ \/ mpc' = "exited" /\ UNCHANGED <<rpc, sock>>
     \/ mpc' = "name" /\ rpc' = "check" /\ sock' = "open"
  /\ UNCHANGED <<flags, unique, lost, inbox, env, lines, ghosts>>

MainOnly == <<rpc, loggedIn, unique, net, env, lines, ghosts>>

\* getline for the name; at the end of the input running goes down.
ReadName ==
  /\ mpc = "name"
  /\ mpc' = "password"
  /\ running' \in {running, FALSE}
  /\ UNCHANGED MainOnly

\* The password is asked for while running is up.
AskPassword ==
  /\ mpc = "password"
  /\ mpc' = IF running THEN "passwordLine" ELSE "login"
  /\ UNCHANGED <<running, MainOnly>>

ReadPassword ==
  /\ mpc = "passwordLine"
  /\ mpc' = "login"
  /\ running' \in {running, FALSE}
  /\ UNCHANGED MainOnly

\* CP_LOGIN, if running is still up.  On a broken connection send may fail or
\* go unnoticed.
SendLogin ==
  /\ mpc = "login"
  /\ mpc' = "wait"
  /\ \/ ~running /\ UNCHANGED <<running, server>>
     \/ running /\ server' = (IF lost THEN server ELSE "asked") /\ UNCHANGED running
     \/ running /\ lost /\ running' = FALSE /\ UNCHANGED server
  /\ UNCHANGED <<rpc, loggedIn, unique, net, number, packets, sent, lines, ghosts>>

\* The loop that sleeps 10 ms a turn.
WaitForLogin ==
  /\ mpc = "wait" /\ (~running \/ loggedIn)
  /\ mpc' = "enter"
  /\ UNCHANGED <<running, MainOnly>>

EnterChat ==
  /\ mpc = "enter"
  /\ mpc' = IF running /\ loggedIn THEN "chat" ELSE "lower"
  /\ UNCHANGED <<running, MainOnly>>

ChatLoop ==
  /\ mpc = "chat"
  /\ mpc' = IF running THEN "line" ELSE "lower"
  /\ UNCHANGED <<running, MainOnly>>

\* getline: the end of the input or /quit ends the loop.
ReadLine ==
  /\ mpc = "line"
  /\ \/ mpc' = "lower" /\ running' = FALSE
     \/ lines < MaxLines /\ mpc' = "send" /\ UNCHANGED running
  /\ UNCHANGED MainOnly

\* CP_CHAT, without another look at running.
SendLine ==
  /\ mpc = "send"
  /\ \/ mpc' = "chat" /\ lines' = lines + 1 /\ UNCHANGED running
     \/ lost /\ mpc' = "lower" /\ running' = FALSE /\ UNCHANGED lines
  /\ late' = IF running THEN late ELSE late + 1
  /\ UNCHANGED <<rpc, loggedIn, unique, net, env, mistaken>>

LowerRunning ==
  /\ mpc = "lower"
  /\ running' = FALSE
  /\ mpc' = "shutdown"
  /\ UNCHANGED MainOnly

\* Faulty: the socket is left as it is.
ShutdownNothing ==
  /\ mpc = "shutdown"
  /\ mpc' = "join"
  /\ UNCHANGED <<running, MainOnly>>

\* Both directions are shut: a recv that waits returns.
Shutdown ==
  /\ mpc = "shutdown"
  /\ sock' = "shut"
  /\ mpc' = "join"
  /\ UNCHANGED <<rpc, flags, unique, lost, inbox, env, lines, ghosts>>

Join ==
  /\ mpc = "join" /\ rpc = "done"
  /\ mpc' = "close"
  /\ UNCHANGED <<running, MainOnly>>

CloseSocket ==
  /\ mpc = "close"
  /\ sock' = "closed"
  /\ mpc' = "exited"
  /\ UNCHANGED <<rpc, flags, unique, lost, inbox, env, lines, ghosts>>

-----------------------------------------------------------------------------
(* The receive thread. *)

RecvOnly == <<mpc, loggedIn, unique, net, env, lines, ghosts>>

RecvLoop ==
  /\ rpc = "check"
  /\ rpc' = IF running THEN "header" ELSE "done"
  /\ UNCHANGED <<running, RecvOnly>>

Readable == sock = "open" /\ inbox # <<>>

\* ReadOnePacket: RecvAll of the header ...
ReadHeader ==
  /\ rpc = "header" /\ Readable /\ Head(inbox).kind # "short"
  /\ rpc' = "body"
  /\ UNCHANGED <<running, RecvOnly>>

\* RecvAll fails, since the connection is gone or shut, or the header announces
\* less than itself.
Unreadable ==
  /\ rpc \in {"header", "body"}
  /\ \/ sock # "open"
     \/ lost /\ inbox = <<>>
     \/ rpc = "header" /\ inbox # <<>> /\ Head(inbox).kind = "short"

\* ... or no packet can be read: running goes down and the thread ends.
ReadFails ==
  /\ Unreadable
  /\ running' = FALSE
  /\ rpc' = "done"
  /\ UNCHANGED RecvOnly

\* The rest of a packet of this kind is read: the thread handles it.
Takes(kind) ==
  /\ rpc = "body" /\ Readable /\ Head(inbox).kind = kind
  /\ inbox' = Tail(inbox)

\* Faulty: i64Unique is not stored.
LoginAcceptedNoNumber ==
  /\ Takes("accepted")
  /\ loggedIn' = TRUE
  /\ rpc' = "check"
  /\ UNCHANGED <<mpc, running, unique, sock, lost, env, lines, ghosts>>

\* Faulty: the flag is left for later.
LoginAcceptedNoFlag ==
  /\ Takes("accepted")
  /\ unique' = Head(inbox).account
  /\ rpc' = "check"
  /\ UNCHANGED <<mpc, flags, sock, lost, env, lines, ghosts>>

\* SM_LOGIN with result 0.
LoginAccepted ==
  /\ Takes("accepted")
  /\ loggedIn' = TRUE /\ unique' = Head(inbox).account
  /\ rpc' = "check"
  /\ UNCHANGED <<mpc, running, sock, lost, env, lines, ghosts>>

\* SM_LOGIN with another result: a message, and the thread returns.
LoginRefused ==
  /\ Takes("refused")
  /\ rpc' = "done"
  /\ UNCHANGED <<mpc, flags, unique, sock, lost, env, lines, ghosts>>

\* SM_CHAT: the line is marked [ME] when its number is the client's.
Chat ==
  /\ Takes("chat")
  /\ mistaken' = (mistaken \/ (Head(inbox).account = unique) # Head(inbox).own)
  /\ rpc' = "check"
  /\ UNCHANGED <<mpc, flags, unique, sock, lost, env, lines, late>>

OtherPacket ==
  /\ Takes("other")
  /\ rpc' = "check"
  /\ UNCHANGED <<mpc, flags, unique, sock, lost, env, lines, ghosts>>

-----------------------------------------------------------------------------
(* The environment. *)

EnvOnly == <<mpc, rpc, flags, unique, sock, lost, lines, ghosts>>

ServerSends(p) ==
  /\ sock = "open" /\ ~lost /\ packets < MaxPackets
  /\ packets' = packets + 1
  /\ inbox' = Append(inbox, p)

\* SP_LOGIN, accepted with number a or refused: the first one counts for the wait.
SendsAnswer(kind, a) ==
  /\ ServerSends(Packet(kind, a, FALSE))
  /\ first' = IF first = "none" THEN kind ELSE first

\* The answer to CP_LOGIN.  A check that failed counts as accepted, with the
\* number -1.
ServerAnswers ==
  /\ server = "asked"
  /\ \/ /\ server' = "accepted" /\ number' \in {Own, Failed}
        /\ SendsAnswer("accepted", number')
     \/ /\ server' = "refused" /\ UNCHANGED number
        /\ SendsAnswer("refused", NoAccount)
  /\ UNCHANGED <<foreign, misled, EnvOnly>>

\* An SP_LOGIN the client did not ask for: of a login whose Session object has become
\* this client's since it was found, or left in m_SendQueue by the object's connection
\* before (Session.cpp:8); or the client's own, but after its CP_LOGIN was overwritten
\* and another one checked in its place.
ForeignAnswer ==
  /\ \/ SendsAnswer("refused", NoAccount)
     \/ \E a \in Accounts \ {NoAccount} : SendsAnswer("accepted", a)
  /\ foreign' = TRUE
  /\ UNCHANGED <<server, number, misled, EnvOnly>>

\* A line reaches every session, logged in or not.  It carries the number the server
\* has for its user: that of another session of this client's account, 0 of a user
\* whose login was refused and who is entered all the same, -1 of a failed check; or
\* the number found in freed memory, which may be anybody's.
ServerBroadcasts ==
  /\ \E a \in Accounts, own \in BOOLEAN :
       /\ own => lines > 0
       /\ ServerSends(Packet("chat", a, own))
       /\ misled' = (misled \/ own # (a = number))
  /\ UNCHANGED <<server, number, first, foreign, EnvOnly>>

\* A packet the client does not know; and after a packet that was sent in part only,
\* on the object's connection before, the framing may be off.
OddPacket ==
  /\ \E k \in {"other", "short"} : ServerSends(Packet(k, NoAccount, FALSE))
  /\ UNCHANGED <<server, number, sent, EnvOnly>>

\* The connection breaks or the server closes it; what was under way may be lost.
ConnectionLost ==
  /\ sock = "open" /\ ~lost
  /\ lost' = TRUE
  /\ \E n \in 0 .. Len(inbox) : inbox' = SubSeq(inbox, 1, n)
  /\ UNCHANGED <<mpc, rpc, flags, unique, sock, env, lines, ghosts>>

-----------------------------------------------------------------------------
MainStep ==
  Connect \/ AskPassword \/ SendLogin \/ WaitForLogin \/ EnterChat \/ ChatLoop
  \/ SendLine \/ LowerRunning \/ Shutdown \/ Join \/ CloseSocket

User == ReadName \/ ReadPassword \/ ReadLine

RecvStep ==
  RecvLoop \/ ReadHeader \/ ReadFails \/ LoginAccepted \/ LoginRefused \/ Chat
  \/ OtherPacket

Environment ==
  ServerAnswers \/ ForeignAnswer \/ ServerBroadcasts \/ OddPacket \/ ConnectionLost

Next == MainStep \/ User \/ RecvStep \/ Environment

Spec == Init /\ [][Next]_vars

\* Both threads run on; nobody has to type, answer or keep the connection.
FairSpec == Spec /\ WF_vars(MainStep) /\ WF_vars(RecvStep)
-----------------------------------------------------------------------------
\* A line is sent only in a session: after the server accepted the login, or sent the
\* client an SP_LOGIN of another login, which the client cannot tell from its own
\* (GamePacketHandler.cpp:80-93, Session.cpp:8).  Once the receive thread has noticed
\* the end of the connection, only the line being typed is still sent.
LinesWithinSession == (lines > 0 => server = "accepted" \/ foreign) /\ late <= 1

\* A line is marked [ME] exactly when it is this client's own, also when lines and
\* the answer to the login cross, as long as the numbers tell them apart.  They do
\* not when the client took its number from an SP_LOGIN of another login, or when a
\* line was sent to it that is not its own and carries the number it has been told
\* by then, or is its own and does not: 0, before its login, of a user whose login
\* was refused (GamePacketHandler.cpp:83); -1, when the check of both failed; its
\* own number, of another session of its account; any number read in freed memory.
MarksOwnLines == mistaken => foreign \/ misled

\* The chat, as the two threads make it: main.cpp:178-218, 298-330.
ChatSound == LinesWithinSession /\ MarksOwnLines

\* The wait for the login ends when the first SP_LOGIN sent to the client accepts a
\* login, whosever it is, or the connection is lost and none has refused one before.
EndsOnAnswer ==
  (mpc = "wait" /\ (first = "accepted" \/ (lost /\ first # "refused")))
    ~> mpc # "wait"

\* Once a refusal has been read the wait never ends, not when the own login is
\* accepted later, nor when the connection is lost: the receive thread has returned
\* and left running up (main.cpp:301-305).
HangsAfterRefusal ==
  [](mpc = "wait" /\ rpc = "done" /\ running /\ ~loggedIn => [](mpc = "wait"))

\* When the loop of main.cpp:391-393 ends, and when it never does.
WaitEnds == EndsOnAnswer /\ HangsAfterRefusal

\* After /quit, a failing send or a lost connection the program ends: the receive
\* thread, waiting in recv, is woken by shutdown and joined (main.cpp:401-406).
ClosingEnds == (mpc = "lower") ~> (mpc = "exited")
=============================================================================
