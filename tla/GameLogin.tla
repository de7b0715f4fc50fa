------------------------------- MODULE GameLogin -------------------------------
(***************************************************************************)
(* The game server's login, from CM_LOGIN to the CUnitPC of the user and   *)
(* back: Handle_Login on a worker of the completion port, the account      *)
(* check on a worker of DBManager, GameDispatcher and CGameManager on the  *)
(* game thread, and Session::Disconnect, whose callback logs the user out. *)
(*                                                                         *)
(* Of the life of a Session object this module keeps what the login reads: *)
(* the token, the callback and how far Disconnect got (SessionLifecycle    *)
(* has the rest; here an accept is one step).                              *)
(*                                                                         *)
(* Name and account number are modelled by whose they are: the token of    *)
(* the login they came with, or 0: bytes that are no login, and the number *)
(* of a refusal or of a failed check.  Handle_Login hands on a pointer     *)
(* into the packet buffer of its caller, OnRecvCompleted, a local of the   *)
(* worker's stack that the worker's next packet overwrites: whoever reads  *)
(* there later finds the login, the login of any other connection, or      *)
(* bytes of no login.                                                      *)
(***************************************************************************)
EXTENDS Naturals, Sequences

CONSTANTS
  Sessions,   \* Session objects
  NoSession,  \* nullptr
  MaxConns,   \* bound on the connections accepted
  MaxLogins,  \* bound on the CM_LOGIN packets handled
  DbWorkers,  \* poolSize of DBManager::Initialize
  PoolSize,   \* POOL_SIZE_PC
  PoolExtra,  \* POOL_SIZE_PC_EXTRA
  StaleReads  \* the packet of a login may be overwritten before it is read

ASSUME NoSessionAssumption == NoSession \notin Sessions
ASSUME BoundAssumption ==
  /\ MaxConns \in Nat /\ MaxLogins \in Nat /\ PoolSize \in Nat
  /\ DbWorkers \in Nat \ {0} /\ PoolExtra \in Nat \ {0}
  /\ StaleReads \in BOOLEAN

VARIABLES
  phase,     \* per object: in the pool, open, or the next step of Disconnect
  id,        \* m_ui64SessionId: the token, 0 = none
  callback,  \* m_onDisconnect is set
  conns,     \* connections accepted
  mq,        \* DBManager's tasks, waiting or with a worker: tokens
  jobs,      \* GameDispatcher's queue
  game,      \* the game thread: next step, job, object, unit
  users,     \* m_Users
  empty,     \* m_EmptyUnits
  made,      \* units made
  sid,       \* CUnitPC::m_ui64SessionId
  number,    \* CUnitPC::m_i64Unique (0 in a new unit: what its memory held)
  name,      \* CUnitPC::m_cName
  byId,      \* m_SessionIdToPC, 0 = no entry
  logins,    \* CM_LOGIN packets handled
  settled,   \* ghost: tokens an SP_LOGIN was sent for, or whose check threw
  late,      \* ghost: tokens entered in m_SessionIdToPC after their Disconnect
  crossed,   \* ghost: tokens a login of another connection was entered for
  misread    \* ghost: tokens whose CM_LOGIN was overwritten when it was read

sessionVars == <<phase, id, callback, conns>>
unitData    == <<sid, number, name>>
unitVars    == <<users, empty, made, unitData, byId>>
vars == <<sessionVars, unitVars, mq, jobs, game, logins, settled, late, crossed, misread>>

Tokens    == 1 .. MaxConns
OptTokens == 0 .. MaxConns
Units     == 1 .. PoolSize + MaxLogins * PoolExtra
OptUnits  == {0} \cup Units

ClosePhases == {"notify", "unregister", "release"}
Phases      == {"pooled", "open"} \cup ClosePhases
Jobs        == [kind : {"login", "logout", "none"}, tok : OptTokens, acct : OptTokens]
NoJob       == [kind |-> "none", tok |-> 0, acct |-> 0]
LogoutOf(t) == [kind |-> "logout", tok |-> t, acct |-> 0]
LoginOf(t, acct) == [kind |-> "login", tok |-> t, acct |-> acct]
GameStates  == [pc : {"drain", "unit", "session", "number", "index", "reply"},
                job : Jobs, s : Sessions \cup {NoSession}, u : OptUnits]

Drained == [pc |-> "drain", job |-> NoJob, s |-> NoSession, u |-> 0]

TypeOK ==
  /\ phase \in [Sessions -> Phases] /\ id \in [Sessions -> OptTokens]
  /\ callback \in [Sessions -> BOOLEAN] /\ conns \in OptTokens
  /\ mq \in Seq(OptTokens) /\ jobs \in Seq(Jobs) /\ game \in GameStates
  /\ users \in Seq(Units) /\ empty \in Seq(Units) /\ made \in {0} \cup Units
  /\ sid \in [Units -> OptTokens] /\ number \in [Units -> OptTokens]
  /\ name \in [Units -> OptTokens] /\ byId \in [OptTokens -> OptUnits]
  /\ logins \in 0 .. MaxLogins /\ settled \subseteq OptTokens
  /\ late \subseteq OptTokens
  /\ crossed \subseteq OptTokens /\ misread \subseteq OptTokens

Init ==
  /\ phase = [s \in Sessions |-> "pooled"] /\ id = [s \in Sessions |-> 0]
  /\ callback = [s \in Sessions |-> FALSE] /\ conns = 0
  /\ mq = <<>> /\ jobs = <<>> /\ game = Drained
  /\ users = <<>> /\ empty = [i \in 1 .. PoolSize |-> i] /\ made = PoolSize
  /\ sid = [u \in Units |-> 0] /\ number = [u \in Units |-> 0]
  /\ name = [u \in Units |-> 0] /\ byId = [t \in OptTokens |-> 0]
  /\ logins = 0 /\ settled = {} /\ late = {} /\ crossed = {} /\ misread = {}

\* What the session actions leave alone.
elsewhere == <<unitVars, mq, jobs, game, logins, settled, late, crossed, misread>>

-----------------------------------------------------------------------------
\* Faulty: the token is read after the counter went up.
AcceptNextToken(s) ==
  /\ phase[s] = "pooled" /\ conns < MaxConns
  /\ conns' = conns + 1
  /\ id' = [id EXCEPT ![s] = conns + 2]
  /\ phase' = [phase EXCEPT ![s] = "open"]
  /\ UNCHANGED <<callback, elsewhere>>

\* OnAcceptCompleted up to OnAccepted: the object gets the next token.
Accept(s) ==
  /\ phase[s] = "pooled" /\ conns < MaxConns
  /\ conns' = conns + 1
  /\ id' = [id EXCEPT ![s] = conns + 1]
  /\ phase' = [phase EXCEPT ![s] = "open"]
  /\ UNCHANGED <<callback, elsewhere>>

\* Disconnect by any thread: the compare-exchange lets one through.
Disconnect(s) ==
  /\ phase[s] = "open"
  /\ phase' = [phase EXCEPT ![s] = "notify"]
  /\ UNCHANGED <<id, callback, conns, elsewhere>>

\* Faulty: the token is read after Init has cleared it, not before.
NotifyNoSnapshot(s) ==
  /\ phase[s] = "notify"
  /\ phase' = [phase EXCEPT ![s] = "unregister"]
  /\ callback' = [callback EXCEPT ![s] = FALSE]
  /\ jobs' = IF callback[s] THEN Append(jobs, LogoutOf(0)) ELSE jobs
  /\ UNCHANGED <<id, conns, unitVars, mq, game, logins, settled, late, crossed, misread>>

\* The domain is told, if a login has left its callback: Logout is queued.
Notify(s) ==
  /\ phase[s] = "notify"
  /\ phase' = [phase EXCEPT ![s] = "unregister"]
  /\ callback' = [callback EXCEPT ![s] = FALSE]
  /\ jobs' = IF callback[s] THEN Append(jobs, LogoutOf(id[s])) ELSE jobs
  /\ UNCHANGED <<id, conns, unitVars, mq, game, logins, settled, late, crossed, misread>>

UnregisterActive(s) ==
  /\ phase[s] = "unregister"
  /\ phase' = [phase EXCEPT ![s] = "release"]
  /\ UNCHANGED <<id, callback, conns, elsewhere>>

\* Session::Init leaves m_onDisconnect as it is.
Release(s) ==
  /\ phase[s] = "release"
  /\ phase' = [phase EXCEPT ![s] = "pooled"]
  /\ id' = [id EXCEPT ![s] = 0]
  /\ UNCHANGED <<callback, conns, elsewhere>>

FindByToken(t) ==
  {s \in Sessions : id[s] = t /\ phase[s] \in {"open", "notify", "unregister"}}

-----------------------------------------------------------------------------
\* Handle_Login, by a worker that may be late: it takes the token the object
\* has now, and a packet of the connection before counts as the next one's login.
\* (A pooled object has no token, and nothing comes of the request.)
HandleLogin(s) ==
  /\ phase[s] # "pooled" /\ logins < MaxLogins
  /\ logins' = logins + 1
  /\ mq' = Append(mq, id[s])
  /\ UNCHANGED <<sessionVars, unitVars, jobs, game, settled, late, crossed, misread>>

Without(q, i) == SubSeq(q, 1, i - 1) \o SubSeq(q, i + 1, Len(q))

\* What is found where the pMsg of login t points: the login, or what a later
\* packet has left there, which is no login or that of a connection of its own.
Found(t) == IF StaleReads THEN {t} \cup 0 .. conns ELSE {t}

\* Whose login is found there in place of t's.
Reads(t, found) == misread' = IF found = t THEN misread ELSE misread \cup {t}

\* Faulty: a failing call of the procedure returns before the callback.
CheckAccountSilent(i) ==
  /\ i <= Len(mq)
  /\ mq' = Without(mq, i)
  /\ jobs' \in {jobs, Append(jobs, LoginOf(mq[i], mq[i]))}
  /\ UNCHANGED <<sessionVars, unitVars, game, logins, settled, late, crossed, misread>>

\* A DBManager worker finishes one of the oldest tasks: name and password are read
\* where pMsg points, and whatever the procedure returned, the callback posts the
\* login.  When no statement can be allocated the exception ends the task before
\* its callback.
CheckAccount(i) ==
  /\ i <= Len(mq)
  /\ mq' = Without(mq, i)
  /\ \/ /\ \E found \in Found(mq[i]) : \E acct \in {found, 0} :
             jobs' = Append(jobs, LoginOf(mq[i], acct)) /\ Reads(mq[i], found)
        /\ UNCHANGED settled
     \/ settled' = settled \cup {mq[i]} /\ UNCHANGED <<jobs, misread>>
  /\ UNCHANGED <<sessionVars, unitVars, game, logins, late, crossed>>

-----------------------------------------------------------------------------
\* ReleasePC: nothing when the unit is not in m_Users; else the last user takes
\* its place.  CUnitPC::Init clears token and name, not the number.
ReleasePC(u) ==
  LET at == {i \in 1 .. Len(users) : users[i] = u}
      n  == Len(users)
  IN IF at = {} THEN UNCHANGED <<users, empty, unitData>>
     ELSE LET first == CHOOSE i \in at : \A j \in at : i <= j
          IN /\ users' = SubSeq([users EXCEPT ![first] = users[n]], 1, n - 1)
             /\ empty' = Append(empty, u)
             /\ sid' = [sid EXCEPT ![u] = 0] /\ name' = [name EXCEPT ![u] = 0]
             /\ UNCHANGED number

\* Drain with a Logout job.
Logout ==
  /\ game.pc = "drain" /\ jobs # <<>> /\ Head(jobs).kind = "logout"
  /\ jobs' = Tail(jobs)
  /\ LET t == Head(jobs).tok
     IN IF byId[t] = 0 THEN UNCHANGED unitVars
        ELSE /\ byId' = [byId EXCEPT ![t] = 0]
             /\ ReleasePC(byId[t])
             /\ UNCHANGED made
  /\ UNCHANGED <<sessionVars, mq, game, logins, settled, late, crossed, misread>>

\* Drain with the result of a check: the session of the token, if it is still
\* registered.
TakeLogin ==
  /\ game.pc = "drain" /\ jobs # <<>> /\ Head(jobs).kind = "login"
  /\ jobs' = Tail(jobs)
  /\ LET found == FindByToken(Head(jobs).tok)
     IN \/ found = {} /\ UNCHANGED game
        \/ \E s \in found :
             game' = [pc |-> "unit", job |-> Head(jobs), s |-> s, u |-> 0]
  /\ UNCHANGED <<sessionVars, unitVars, mq, logins, settled, late, crossed, misread>>

\* m_EmptyUnits as GetEmptyPC finds it, filled up when there is none left.
Stock == IF empty = <<>> THEN [i \in 1 .. PoolExtra |-> made + i] ELSE empty

At(pc) == game.pc = pc
Then(pc) == game' = [game EXCEPT !.pc = pc]

\* Login under m_UserMtx: GetEmptyPC gives unit u, the name is copied from
\* where pMsg points.
LoginUser(u) ==
  /\ users' = Append(users, u)
  /\ \E found \in Found(game.job.tok) :
       name' = [name EXCEPT ![u] = found] /\ Reads(game.job.tok, found)
  /\ game' = [game EXCEPT !.pc = "session", !.u = u]
  /\ made' = made + (IF empty = <<>> THEN PoolExtra ELSE 0)
  /\ UNCHANGED <<sessionVars, sid, number, byId, mq, jobs, logins, settled, late,
                 crossed>>

\* Faulty: the unit is not taken off m_EmptyUnits.
LoginUnitKept ==
  /\ At("unit") /\ empty' = Stock
  /\ LoginUser(Stock[Len(Stock)])

LoginUnit ==
  /\ At("unit") /\ empty' = SubSeq(Stock, 1, Len(Stock) - 1)
  /\ LoginUser(Stock[Len(Stock)])

\* SetSessionId: the token the object has now, ...
LoginSession ==
  /\ At("session") /\ Then("number")
  /\ sid' = [sid EXCEPT ![game.u] = id[game.s]]
  /\ crossed' = IF id[game.s] = game.job.tok THEN crossed ELSE crossed \cup {id[game.s]}
  /\ UNCHANGED <<sessionVars, users, empty, made, number, name, byId, mq, jobs,
                 logins, settled, late, misread>>

\* Faulty: a login without an account leaves the number as it is.
LoginNumberIfAny ==
  /\ At("number") /\ Then("index")
  /\ number' = IF game.job.acct = 0 THEN number
               ELSE [number EXCEPT ![game.u] = game.job.acct]
  /\ callback' = [callback EXCEPT ![game.s] = TRUE]
  /\ UNCHANGED <<phase, id, conns, users, empty, made, sid, name, byId, mq, jobs,
                 logins, settled, late, crossed, misread>>

\* ... SetUnique and SetOnDisconnect ...
LoginNumber ==
  /\ At("number") /\ Then("index")
  /\ number' = [number EXCEPT ![game.u] = game.job.acct]
  /\ callback' = [callback EXCEPT ![game.s] = TRUE]
  /\ UNCHANGED <<phase, id, conns, users, empty, made, sid, name, byId, mq, jobs,
                 logins, settled, late, crossed, misread>>

LogoutQueued(t) == \E i \in 1 .. Len(jobs) : jobs[i] = LogoutOf(t)

\* Object s will queue Logout(t) when it is disconnected.
WillNotify(s, t) == id[s] = t /\ callback[s] /\ phase[s] \in {"open", "notify"}

\* ... and m_SessionIdToPC, under the token the object has by now.
LoginIndex ==
  /\ At("index") /\ Then("reply")
  /\ LET t == id[game.s]
     IN /\ byId' = [byId EXCEPT ![t] = game.u]
        /\ late' = IF WillNotify(game.s, t) \/ LogoutQueued(t) THEN late \ {t}
                                                               ELSE late \cup {t}
  /\ UNCHANGED <<sessionVars, users, empty, made, unitData, mq, jobs, logins,
                 settled, crossed, misread>>

\* SP_LOGIN to the object, whatever connection it has by now.  (The id and the
\* password it carries are read where pMsg points once more.)
Reply ==
  /\ At("reply") /\ game' = Drained
  /\ settled' = settled \cup {id[game.s]}
  /\ UNCHANGED <<sessionVars, unitVars, mq, jobs, logins, late, crossed, misread>>

-----------------------------------------------------------------------------
CloseStep(s) == Notify(s) \/ UnregisterActive(s) \/ Release(s)
GameStep ==
  \/ Logout \/ TakeLogin
  \/ LoginUnit \/ LoginSession \/ LoginNumber \/ LoginIndex \/ Reply

Next ==
  \/ \E s \in Sessions : Accept(s) \/ Disconnect(s) \/ CloseStep(s) \/ HandleLogin(s)
  \/ \E i \in 1 .. DbWorkers : CheckAccount(i)
  \/ GameStep

Spec == Init /\ [][Next]_vars

\* Threads inside these functions run on: a worker in Disconnect, the workers
\* of DBManager, the game loop.
FairSpec ==
  /\ Spec
  /\ \A s \in Sessions : WF_vars(CloseStep(s))
  /\ WF_vars(CheckAccount(1))
  /\ WF_vars(GameStep)
-----------------------------------------------------------------------------
InUse(u)  == \E i \in 1 .. Len(users) : users[i] = u
IsFree(u) == \E i \in 1 .. Len(empty) : empty[i] = u

\* A unit is once in m_Users or once in m_EmptyUnits: no two users share one,
\* and none is given back twice.
OneUnit ==
  /\ \A i, j \in 1 .. Len(users) : users[i] = users[j] => i = j
  /\ \A i, j \in 1 .. Len(empty) : empty[i] = empty[j] => i = j
  /\ \A u \in Units : IsFree(u) => ~InUse(u)

\* m_SessionIdToPC names units of m_Users only, each under one token: a Logout
\* never gives back the unit of another user.
IndexOfUsers ==
  /\ \A t \in OptTokens : byId[t] # 0 => InUse(byId[t])
  /\ \A t, v \in OptTokens : byId[t] = byId[v] /\ byId[t] # 0 => t = v

\* Units, m_Users, m_EmptyUnits and m_SessionIdToPC fit together.
UsersConsistent == OneUnit /\ IndexOfUsers

\* A user indexed under a token is logged out when the token's connection ends:
\* its session will queue the Logout, or has queued it.  The exception are the
\* entries Login made after Disconnect had looked for the callback.
LogoutOnItsWay ==
  \A t \in Tokens : byId[t] # 0 /\ t \notin late =>
    LogoutQueued(t) \/ \E s \in Sessions : WillNotify(s, t)

\* A CM_LOGIN is answered, or its check ended in an exception, or the
\* connection it came from is gone.
LoginAnswered ==
  \A t \in Tokens :
    (\E i \in 1 .. Len(mq) : mq[i] = t)
      ~> (t \in settled \/ FindByToken(t) = {})

\* What m_Users says of a user comes from his own login, the one handled under his
\* token, and is never what an earlier user has left in the unit: units and Session
\* objects are used again in any order, and CUnitPC::Init does not clear the number,
\* which a login without an account overwrites with 0.  The exceptions: users whom a
\* login of another connection was entered for, since it found them in its object
\* (GamePacketHandler.cpp:80-83); users whose CM_LOGIN was overwritten before it was
\* read, who may be entered as anybody (GamePacketHandler.cpp:75-91,
\* DBManager.cpp:113); and the user Login is just entering.
OwnAccount ==
  \A i \in 1 .. Len(users) :
    LET u == users[i]
    IN sid[u] \notin crossed \cup misread \cup {0} /\ game.u # u
         => name[u] = sid[u] /\ number[u] \in {0, sid[u]}
=============================================================================
