-------------------------------- MODULE GameChat --------------------------------
(***************************************************************************)
(* Chat on the game server: Handle_Chat on a worker of the completion      *)
(* port looks its user up in m_Users (CGameManager::FindUserById), without *)
(* m_UserMtx, while Login and Logout change m_Users and the units on the   *)
(* game thread (GameLogin, which this module extends).                     *)
(*                                                                         *)
(* The loop keeps the iterators it began with and reads the memory of the  *)
(* vector, cells: what is behind the end stays readable, what a            *)
(* reallocation has freed does not.                                        *)
(***************************************************************************)
EXTENDS GameLogin

CONSTANT MaxChats  \* bound on the CM_CHAT packets handled

ASSUME ChatAssumption == MaxChats \in Nat

VARIABLES
  cells,  \* the memory of m_Users, as far as it has been written
  chat,   \* the handler: next step, token, iterator, end, user, number read
  chats,  \* CM_CHAT packets handled
  seen    \* ghost: what the game thread did under the handler

allVars == <<vars, cells, chat, chats, seen>>

\* m_Users was reallocated under the loop; the sender's unit went to a place the
\* loop has passed, or was given the token there; the unit found was given back;
\* its number was read before Login had set it.
Seen == {"realloc", "moved", "left", "unfinished"}

NoChat == [pc |-> "idle", tok |-> 0, i |-> 0, end |-> 0, u |-> 0, num |-> 0]

ChatInit == Init /\ cells = <<>> /\ chat = NoChat /\ chats = 0 /\ seen = {}

-----------------------------------------------------------------------------
\* Handle_Chat, late perhaps: the token the object has now; begin and end of
\* m_Users are taken once.
HandleChat(s) ==
  /\ chat.pc = "idle" /\ phase[s] # "pooled" /\ chats < MaxChats
  /\ chats' = chats + 1
  /\ chat' = [NoChat EXCEPT !.pc = "walk", !.tok = id[s], !.i = 1, !.end = Len(users)]
  /\ UNCHANGED <<vars, cells, seen>>

Freed == "realloc" \in seen

\* Faulty: every second user is looked at.
WalkByTwo ==
  /\ chat.pc = "walk" /\ ~Freed /\ chat.i <= chat.end
  /\ chat' = IF sid[cells[chat.i]] = chat.tok
             THEN [chat EXCEPT !.pc = "number", !.u = cells[chat.i], !.i = 0, !.end = 0]
             ELSE [chat EXCEPT !.i = IF @ < chat.end THEN @ + 2 ELSE @ + 1]
  /\ UNCHANGED <<vars, cells, chats, seen>>

\* FindUserById looks at the next user.
Walk ==
  /\ chat.pc = "walk" /\ ~Freed /\ chat.i <= chat.end
  /\ chat' = IF sid[cells[chat.i]] = chat.tok
             THEN [chat EXCEPT !.pc = "number", !.u = cells[chat.i], !.i = 0, !.end = 0]
             ELSE [chat EXCEPT !.i = @ + 1]
  /\ UNCHANGED <<vars, cells, chats, seen>>

\* The loop reads freed memory: any unit may be found, or none.
WalkFreed ==
  /\ chat.pc = "walk" /\ Freed
  /\ \/ chat' = NoChat /\ seen' = {}
     \/ /\ \E u \in 1 .. made :
             chat' = [NoChat EXCEPT !.pc = "number", !.tok = chat.tok, !.u = u]
        /\ UNCHANGED seen
  /\ UNCHANGED <<vars, cells, chats>>

\* No user: the line is dropped.
Drop ==
  /\ chat.pc = "walk" /\ ~Freed /\ chat.i > chat.end
  /\ chat' = NoChat /\ seen' = {}
  /\ UNCHANGED <<vars, cells, chats>>

\* Faulty: the number is that of the user entered last.
TakeNumberOfLast ==
  /\ chat.pc = "number"
  /\ chat' = [chat EXCEPT !.pc = "name",
                          !.num = number[IF users = <<>> THEN chat.u ELSE users[Len(users)]]]
  /\ seen' = seen \cup (IF At("number") /\ game.u = chat.u THEN {"unfinished"} ELSE {})
  /\ UNCHANGED <<vars, cells, chats>>

\* GetUnique.
TakeNumber ==
  /\ chat.pc = "number"
  /\ chat' = [chat EXCEPT !.pc = "name", !.num = number[chat.u]]
  /\ seen' = seen \cup (IF At("number") /\ game.u = chat.u THEN {"unfinished"} ELSE {})
  /\ UNCHANGED <<vars, cells, chats>>

\* GetName; the line goes to every active session with this number and this name.
BroadCast ==
  /\ chat.pc = "name" /\ chat' = NoChat /\ seen' = {}
  /\ UNCHANGED <<vars, cells, chats>>

ChatStep == Walk \/ WalkFreed \/ Drop \/ TakeNumber \/ BroadCast

-----------------------------------------------------------------------------
Unpassed == {users[j] : j \in chat.i .. Len(users)}
Passed(us) == {us[j] : j \in {k \in 1 .. Len(us) : k < chat.i}}

\* The game thread writes m_Users into its memory, and a vector that outgrows it
\* moves.
MemoryFollows ==
  LET n    == Len(users')
      mine == {u \in Units : sid'[u] = chat.tok}
  IN /\ cells' = users' \o SubSeq(cells, n + 1, Len(cells))
     /\ seen' = seen
          \cup (IF chat.pc = "walk" /\ n > Len(cells) THEN {"realloc"} ELSE {})
          \cup (IF /\ chat.pc = "walk"
                   /\ \E u \in mine \cap Passed(users') : u \in Unpassed \/ sid[u] # chat.tok
                THEN {"moved"} ELSE {})
          \cup (IF chat.pc \in {"number", "name"} /\ chat.u \notin mine THEN {"left"} ELSE {})

ChatNext ==
  \/ Next /\ MemoryFollows /\ UNCHANGED <<chat, chats>>
  \/ (\E s \in Sessions : HandleChat(s))
  \/ ChatStep

ChatSpec == ChatInit /\ [][ChatNext]_allVars

-----------------------------------------------------------------------------
\* The line of a logged-in user is not dropped: FindUserById without the lock
\* misses a user that was in m_Users when it began only if m_Users was reallocated
\* under it or ReleasePC moved the user to a place it had passed.
ChatFindsUser ==
  chat.pc = "walk" /\ chat.i > chat.end /\ seen = {} =>
    \A j \in 1 .. Len(users) : j <= chat.end => sid[users[j]] # chat.tok

\* A line goes out under its sender's name, and under his account number or none;
\* the sender is the user of the token Handle_Chat takes, the next one of the object
\* if the worker is late (GamePacketHandler.cpp:49).  In these cases it may go out as
\* another user's: his unit was given back while the handler ran (it may be his again
\* by now, with the number of a user in between); it was read in freed memory; its
\* number was read before Login had set it; a login that found another connection in
\* its object was entered for him; or his CM_LOGIN was overwritten before the account
\* check or Login read it where pMsg points (GamePacketHandler.cpp:75-91,
\* DBManager.cpp:113).
ChatNamesSender ==
  chat.pc = "name" /\ chat.tok \notin crossed \cup misread
    /\ seen \cap {"realloc", "left", "unfinished"} = {}
      => name[chat.u] = chat.tok /\ chat.num \in {0, chat.tok}
=============================================================================
