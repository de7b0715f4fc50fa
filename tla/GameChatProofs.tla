----------------------------- MODULE GameChatProofs -----------------------------
(***************************************************************************)
(* Proofs about chat on the game server: what a handler finds in m_Users   *)
(* without the lock, for any number of users, logins and lines.  They rest *)
(* on the invariant of the login (GameLoginProofs).                        *)
(***************************************************************************)
EXTENDS GameChat, GameLoginProofs

\* A unit nobody has carries no token, nor does the one a login is about to name;
\* an object out of the pool has one.
FreeIsClear  == \A u \in Units : ~InUse(u) => sid[u] = 0
OpenHasToken == \A s \in Sessions : phase[s] # "pooled" => id[s] # 0
NotYetNamed  == At("session") => sid[game.u] = 0
Clear        == FreeIsClear /\ OpenHasToken /\ NotYetNamed

Chats == [pc : {"idle", "walk", "number", "name"}, tok : OptTokens, i : Nat, end : Nat,
          u : OptUnits, num : OptTokens]
ChatTypes == chat \in Chats /\ cells \in Seq(Units) /\ seen \subseteq Seen

\* The memory holds m_Users and what was behind it.
CellsFollow ==
  /\ Len(users) <= Len(cells)
  /\ \A j \in 1 .. Len(users) : cells[j] = users[j]

\* The loop stays within the memory it began with.
InLoop ==
  chat.pc = "walk" => chat.tok # 0 /\ chat.i \in 1 .. chat.end + 1 /\ chat.end <= Len(cells)

\* Undisturbed, it has passed nobody who has the token.
NotYet ==
  chat.pc = "walk" /\ seen = {} =>
    \A j \in 1 .. Len(users) : j < chat.i => sid[users[j]] # chat.tok

\* What was found is a unit, and has the token while it stays the sender's.
HasFound == chat.pc \in {"number", "name"} => chat.u \in Units /\ chat.tok # 0
Held ==
  chat.pc \in {"number", "name"} /\ seen \cap {"realloc", "left"} = {} =>
    sid[chat.u] = chat.tok

OwnNumber ==
  chat.pc = "name" /\ chat.tok \notin crossed \cup misread
    /\ seen \cap {"realloc", "left", "unfinished"} = {} => chat.num \in {0, chat.tok}

ChatInv ==
  /\ LoginInv
  /\ Clear
  /\ ChatTypes
  /\ CellsFollow
  /\ InLoop
  /\ NotYet
  /\ HasFound
  /\ Held
  /\ OwnNumber

-----------------------------------------------------------------------------
(* Tokens of units and objects. *)

\* Tokens of objects change with Accept and Release only.
LEMMA ObjectsClear ==
  ASSUME LoginInv, OpenHasToken, [Next]_vars
  PROVE  OpenHasToken'
<1>1. /\ phase \in [Sessions -> Phases] /\ id \in [Sessions -> OptTokens]
      /\ conns \in Nat
  BY BoundAssumption DEF LoginInv, TypeOK, OptTokens
<1>2. ASSUME NEW s \in Sessions, Accept(s)
      PROVE  OpenHasToken'
  BY <1>1, <1>2 DEF Accept, OpenHasToken
<1>3. ASSUME NEW s \in Sessions, Disconnect(s) \/ CloseStep(s)
      PROVE  OpenHasToken'
  BY <1>1, <1>3 DEF Disconnect, CloseStep, Notify, UnregisterActive, Release, OpenHasToken
<1>4. ASSUME NEW s \in Sessions, HandleLogin(s)
      PROVE  OpenHasToken'
  BY <1>4 DEF HandleLogin, OpenHasToken, sessionVars
<1>5. ASSUME NEW i \in 1 .. DbWorkers, CheckAccount(i)
      PROVE  OpenHasToken'
  BY <1>5 DEF CheckAccount, OpenHasToken, sessionVars
<1>6. CASE GameStep
  BY <1>6 DEF GameStep, Logout, TakeLogin, LoginUnit, LoginUser, LoginSession, LoginNumber,
     LoginIndex, Reply, OpenHasToken, sessionVars
<1>7. CASE UNCHANGED vars
  BY <1>7 DEF vars, OpenHasToken, sessionVars
<1> QED
  BY <1>2, <1>3, <1>4, <1>5, <1>6, <1>7 DEF Next

\* A unit given back has lost its token.
LEMMA LogoutClears ==
  ASSUME LoginInv, FreeIsClear, Logout
  PROVE  FreeIsClear' /\ game' = game /\ crossed' = crossed /\ At("drain")
<1> DEFINE t == Head(jobs).tok
<1>1. /\ game.pc = "drain" /\ jobs # <<>> /\ game' = game /\ crossed' = crossed
      /\ IF byId[t] = 0 THEN UNCHANGED unitVars
         ELSE byId' = [byId EXCEPT ![t] = 0] /\ ReleasePC(byId[t]) /\ UNCHANGED made
  BY DEF Logout
<1>2. t \in OptTokens
  <2>1. Head(jobs) \in Jobs
    BY <1>1, TailStep DEF LoginInv, TypeOK
  <2> QED
    BY <2>1 DEF Jobs
<1> HIDE DEF t
<1>3. CASE byId[t] = 0
  BY <1>1, <1>3 DEF FreeIsClear, InUse, unitVars, unitData, At
<1>4. CASE byId[t] # 0
  <2>1. PICK u : u = byId[t]
    OBVIOUS
  <2>2. u \in Units /\ InUse(u) /\ ReleasePC(u) /\ made' = made
    BY <1>1, <1>2, <1>4, <2>1 DEF LoginInv, TypeOK, Index, IndexOfUsers, OptUnits
  <2>3. /\ sid'[u] = 0
        /\ \A v \in Units : v # u => sid'[v] = sid[v] /\ name'[v] = name[v]
        /\ \A v \in Units : InUse(v)' <=> InUse(v) /\ v # u
    BY <2>2, ReleaseUses
  <2>4. \A v \in Units : ~InUse(v)' => sid'[v] = 0
    BY <2>3 DEF FreeIsClear
  <2> QED
    BY <1>1, <2>4 DEF FreeIsClear, InUse, At
<1> QED
  BY <1>3, <1>4

\* GetEmptyPC gives a unit without a token.
LEMMA UnitIsClear ==
  ASSUME LoginInv, FreeIsClear, LoginUnit
  PROVE  FreeIsClear' /\ NotYetNamed'
<1>1. PICK more : more = IF empty = <<>> THEN PoolExtra ELSE 0
  OBVIOUS
<1>2. /\ Stock \in Seq(Units) /\ Len(Stock) \in Nat \ {0}
      /\ \A i \in 1 .. Len(Stock) : ~InUse(Stock[i])
  BY <1>1, StockStep DEF LoginUnit
<1>3. PICK u : u = Stock[Len(Stock)]
  OBVIOUS
<1>4. u \in Units /\ ~InUse(u)
  <2>1. Len(Stock) \in 1 .. Len(Stock)
    BY <1>2
  <2> QED
    BY <1>2, <1>3, <2>1, ElementOfSeq
<1>5. /\ users' = Append(users, u) /\ sid' = sid
      /\ game' = [game EXCEPT !.pc = "session", !.u = u]
  BY <1>3 DEF LoginUnit, LoginUser
<1>6. users \in Seq(Units) /\ game \in GameStates
  BY DEF LoginInv, TypeOK
<1>7. \A i \in 1 .. Len(users) : users'[i] = users[i] /\ i \in 1 .. Len(users')
  BY <1>4, <1>5, <1>6, AppendStep
<1>8. \A v : InUse(v) => InUse(v)'
  BY <1>7 DEF InUse
<1>9. \A v \in Units : ~InUse(v)' => sid'[v] = 0
  BY <1>5, <1>8 DEF FreeIsClear
<1>10. game'.u = u
  BY <1>5, <1>6 DEF GameStates
<1> QED
  BY <1>4, <1>5, <1>9, <1>10 DEF FreeIsClear, NotYetNamed, InUse

\* No step of the login leaves a token on a unit nobody has.
LEMMA UnitsClear ==
  ASSUME LoginInv, Clear, [Next]_vars
  PROVE  FreeIsClear' /\ NotYetNamed'
<1>1. CASE UNCHANGED <<users, sid, game>>
  BY <1>1 DEF Clear, FreeIsClear, NotYetNamed, InUse, At
<1>2. ASSUME NEW s \in Sessions,
             Accept(s) \/ Disconnect(s) \/ CloseStep(s) \/ HandleLogin(s)
      PROVE  UNCHANGED <<users, sid, game>>
  BY <1>2 DEF Accept, Disconnect, CloseStep, Notify, UnregisterActive, Release, HandleLogin,
     elsewhere, unitVars, unitData
<1>3. ASSUME NEW i \in 1 .. DbWorkers, CheckAccount(i)
      PROVE  UNCHANGED <<users, sid, game>>
  BY <1>3 DEF CheckAccount, unitVars, unitData
<1>4. CASE Logout
  <2>1. FreeIsClear' /\ game' = game /\ At("drain")
    BY <1>4, LogoutClears DEF Clear
  <2> QED
    BY <2>1 DEF NotYetNamed, At
<1>5. CASE LoginUnit
  BY <1>5, UnitIsClear DEF Clear
<1>6. CASE LoginSession
  <2>1. PICK u : u = game.u
    OBVIOUS
  <2>2. u \in Units /\ InUse(u)
    BY <1>6, <2>1, GameFacts DEF LoginSession
  <2>3. /\ users' = users /\ sid' = [sid EXCEPT ![u] = id[game.s]]
        /\ game' = [game EXCEPT !.pc = "number"]
    BY <1>6, <2>1 DEF LoginSession, Then
  <2>4. game'.pc = "number"
    BY <2>3, GameStepTypes
  <2>5. \A v \in Units : v # u => sid'[v] = sid[v]
    BY <2>3 DEF LoginInv, TypeOK
  <2>6. \A v \in Units : ~InUse(v)' => sid'[v] = 0
    BY <2>2, <2>3, <2>5 DEF Clear, FreeIsClear, InUse
  <2> QED
    BY <2>4, <2>6 DEF FreeIsClear, NotYetNamed, InUse, At
<1>7. CASE TakeLogin \/ LoginNumber \/ LoginIndex \/ Reply
  <2>1. users' = users /\ sid' = sid
    BY <1>7 DEF TakeLogin, LoginNumber, LoginIndex, Reply, unitVars, unitData
  <2>2. game'.pc # "session"
    <3>1. CASE TakeLogin
      BY <3>1 DEF TakeLogin
    <3>2. CASE LoginNumber \/ LoginIndex
      BY <3>2, GameStepTypes DEF LoginNumber, LoginIndex, Then
    <3>3. CASE Reply
      BY <3>3 DEF Reply, Drained
    <3> QED
      BY <1>7, <3>1, <3>2, <3>3
  <2> QED
    BY <2>1, <2>2 DEF Clear, FreeIsClear, NotYetNamed, InUse, At
<1>8. CASE UNCHANGED vars
  BY <1>1, <1>8 DEF vars, unitVars, unitData
<1> QED
  BY <1>1, <1>2, <1>3, <1>4, <1>5, <1>6, <1>7, <1>8 DEF Next, GameStep

\* No login is taken back from those crossed or misread.
LEMMA ExceptionsGrow ==
  ASSUME [Next]_vars
  PROVE  crossed \subseteq crossed' /\ misread \subseteq misread'
<1>1. ASSUME NEW s \in Sessions,
             Accept(s) \/ Disconnect(s) \/ CloseStep(s) \/ HandleLogin(s)
      PROVE  crossed' = crossed /\ misread' = misread
  BY <1>1 DEF Accept, Disconnect, CloseStep, Notify, UnregisterActive, Release, HandleLogin,
     elsewhere
<1>2. ASSUME NEW i \in 1 .. DbWorkers, CheckAccount(i)
      PROVE  crossed' = crossed /\ misread \subseteq misread'
  BY <1>2 DEF CheckAccount, Reads
<1>3. CASE LoginUnit
  <2>1. PICK t : \E found \in Found(t) : Reads(t, found)
    BY <1>3 DEF LoginUnit, LoginUser
  <2> QED
    BY <1>3, <2>1 DEF LoginUnit, LoginUser, Reads
<1>4. CASE Logout \/ TakeLogin \/ LoginSession \/ LoginNumber \/ LoginIndex \/ Reply
  BY <1>4 DEF Logout, TakeLogin, LoginSession, LoginNumber, LoginIndex, Reply
<1>5. CASE UNCHANGED vars
  BY <1>5 DEF vars
<1> QED
  BY <1>1, <1>2, <1>3, <1>4, <1>5 DEF Next, GameStep

-----------------------------------------------------------------------------
(* What a handler reads. *)

\* The memory of a vector written into it, or moved: it never shrinks.
LEMMA MemoryStep ==
  ASSUME NEW S, NEW q \in Seq(S), NEW c \in Seq(S),
         NEW r, r = q \o SubSeq(c, Len(q) + 1, Len(c))
  PROVE  /\ r \in Seq(S) /\ Len(q) <= Len(r) /\ Len(c) <= Len(r)
         /\ \A j \in 1 .. Len(q) : r[j] = q[j]
<1>1. Len(q) \in Nat /\ Len(c) \in Nat /\ Len(q) + 1 \in Int /\ Len(c) \in Int
  OBVIOUS
<1> DEFINE b == SubSeq(c, Len(q) + 1, Len(c))
<1>2. \A j \in Len(q) + 1 .. Len(c) : c[j] \in S
  BY <1>1, ElementOfSeq
<1>3. b \in Seq(S) /\ Len(b) = IF Len(q) + 1 <= Len(c) THEN Len(c) - (Len(q) + 1) + 1 ELSE 0
  BY <1>1, <1>2, SubSeqProperties
<1>4. r = q \o b
  OBVIOUS
<1> HIDE DEF b
<1>5. /\ r \in Seq(S) /\ Len(r) = Len(q) + Len(b)
      /\ \A j \in 1 .. Len(q) + Len(b) : r[j] = IF j <= Len(q) THEN q[j] ELSE b[j - Len(q)]
  BY <1>3, <1>4, ConcatProperties
<1>6. Len(b) \in Nat /\ Len(c) <= Len(q) + Len(b)
  BY <1>1, <1>3
<1>7. \A j \in 1 .. Len(q) : j \in 1 .. Len(q) + Len(b) /\ j <= Len(q)
  BY <1>1, <1>6
<1> QED
  BY <1>1, <1>5, <1>6, <1>7

\* Whose name and number a unit with a token holds.
LEMMA UnitOfToken ==
  ASSUME LoginInv, Clear, NEW u \in Units, sid[u] \notin crossed \cup misread \cup {0}
  PROVE  /\ name[u] = sid[u]
         /\ ~(At("number") /\ game.u = u) => number[u] \in {0, sid[u]}
<1>1. InUse(u)
  BY DEF Clear, FreeIsClear
<1>2. CASE game.u # u
  <2>1. PICK i \in 1 .. Len(users) : users[i] = u
    BY <1>1 DEF InUse
  <2> QED
    BY <1>2, <2>1 DEF LoginInv, Numbers, OwnAccount
<1>3. CASE game.u = u
  <2>1. game \in GameStates /\ u # 0
    BY UnitFacts DEF LoginInv, TypeOK
  <2>2. At("session") \/ At("number") \/ At("index") \/ At("reply")
    BY <1>3, <2>1 DEF LoginInv, Index, GameUser, At, GameStates
  <2>3. ~At("session")
    BY <1>3 DEF Clear, NotYetNamed
  <2>4. sid[u] = game.job.tok /\ name[u] = game.job.tok
    BY <1>3, <2>1, <2>2, <2>3 DEF LoginInv, Numbers, Building
  <2>5. At("number") \/ number[u] \in {0, sid[u]}
    BY <1>3, <2>2, <2>3, <2>4 DEF LoginInv, Numbers, Building, OwnJob
  <2> QED
    BY <1>3, <2>4, <2>5
<1> QED
  BY <1>2, <1>3

-----------------------------------------------------------------------------
(* The game thread under a handler. *)

\* The loop has passed nobody with the token unless a user was moved.
LEMMA GameNotYet ==
  ASSUME ChatInv, FreeIsClear', MemoryFollows, chat' = chat, users' \in Seq(Units)
  PROVE  NotYet'
<1> SUFFICES ASSUME chat.pc = "walk", seen' = {},
                    NEW j \in 1 .. Len(users'), j < chat.i,
                    NEW v, v = users'[j], sid'[v] = chat.tok
             PROVE  FALSE
  BY DEF NotYet
<1>1. /\ seen = {}
      /\ ~ \E u \in {x \in Units : sid'[x] = chat.tok} \cap Passed(users') :
             u \in Unpassed \/ sid[u] # chat.tok
  BY Zenon DEF MemoryFollows
<1>2. v \in Units
  BY ElementOfSeq
<1>3. v \in Passed(users')
  BY DEF Passed
<1>4. v \notin Unpassed /\ sid[v] = chat.tok
  BY <1>1, <1>2, <1>3
<1>5. chat.tok # 0 /\ chat.i \in Nat /\ users \in Seq(Units)
  BY DEF ChatInv, InLoop, ChatTypes, Chats, LoginInv, TypeOK
<1>6. PICK k \in 1 .. Len(users) : users[k] = v
  BY <1>2, <1>4, <1>5 DEF ChatInv, Clear, FreeIsClear, InUse
<1>7. k < chat.i
  BY <1>4, <1>5, <1>6 DEF Unpassed
<1> QED
  BY <1>1, <1>4, <1>6, <1>7 DEF ChatInv, NotYet

\* A step of the login, which writes m_Users into its memory.
LEMMA GameKeeps ==
  ASSUME ChatInv, Next, MemoryFollows, UNCHANGED <<chat, chats>>
  PROVE  ChatInv'
<1>1. LoginInv'
  BY LoginStep DEF ChatInv
<1>2. FreeIsClear' /\ NotYetNamed' /\ OpenHasToken'
  BY ObjectsClear, UnitsClear DEF ChatInv, Clear
<1>3. Clear'
  BY <1>2 DEF Clear
<1>4. crossed \subseteq crossed' /\ misread \subseteq misread'
  BY ExceptionsGrow
<1>5. chat' = chat /\ users' \in Seq(Units) /\ cells \in Seq(Units) /\ chat \in Chats
  BY <1>1 DEF ChatInv, LoginInv, TypeOK, ChatTypes
<1>6. cells' = users' \o SubSeq(cells, Len(users') + 1, Len(cells))
  BY DEF MemoryFollows
<1>7. /\ cells' \in Seq(Units) /\ Len(users') <= Len(cells') /\ Len(cells) <= Len(cells')
      /\ \A j \in 1 .. Len(users') : cells'[j] = users'[j]
  BY <1>5, <1>6, MemoryStep
<1>8. seen \subseteq seen' /\ seen' \subseteq seen \cup {"realloc", "moved", "left"}
  BY DEF MemoryFollows
<1>9. ChatTypes' /\ CellsFollow'
  BY <1>5, <1>7, <1>8 DEF ChatInv, ChatTypes, CellsFollow, Seen
<1>10. InLoop'
  <2>1. Len(cells) \in Nat /\ Len(cells') \in Nat /\ chat.end \in Nat
    BY <1>5, <1>7 DEF Chats
  <2> QED
    BY <1>5, <1>7, <2>1 DEF ChatInv, InLoop
<1>11. NotYet'
  BY <1>2, <1>5, GameNotYet
<1>12. HasFound'
  BY <1>5 DEF ChatInv, HasFound
<1>13. Held'
  <2> SUFFICES ASSUME chat.pc \in {"number", "name"}, "left" \notin seen'
               PROVE  sid'[chat.u] = chat.tok
    BY <1>5 DEF Held
  <2>1. chat.u \in {u \in Units : sid'[u] = chat.tok}
    BY Zenon DEF MemoryFollows
  <2> QED
    BY <2>1
<1>14. OwnNumber'
  BY <1>4, <1>5, <1>8 DEF ChatInv, OwnNumber
<1> QED
  BY <1>1, <1>3, <1>9, <1>10, <1>11, <1>12, <1>13, <1>14 DEF ChatInv

-----------------------------------------------------------------------------
(* The handler. *)

\* What the steps of a handler leave alone.
LEMMA HandlerStays ==
  ASSUME ChatInv, UNCHANGED <<vars, cells>>
  PROVE  LoginInv' /\ Clear' /\ CellsFollow'
<1>1. /\ users' = users /\ cells' = cells /\ sid' = sid /\ phase' = phase /\ id' = id
      /\ game' = game
  BY DEF vars, unitVars, unitData, sessionVars
<1>2. LoginInv'
  BY LoginStep DEF ChatInv
<1>3. Clear'
  BY <1>1 DEF ChatInv, Clear, FreeIsClear, OpenHasToken, NotYetNamed, InUse, At
<1>4. CellsFollow'
  BY <1>1 DEF ChatInv, CellsFollow
<1> QED
  BY <1>2, <1>3, <1>4

\* Handle_Chat begins.
LEMMA HandleChatKeeps ==
  ASSUME ChatInv, NEW s \in Sessions, HandleChat(s)
  PROVE  ChatInv'
<1>1. /\ phase[s] # "pooled" /\ seen' = seen /\ UNCHANGED <<vars, cells>>
      /\ chat' = [NoChat EXCEPT !.pc = "walk", !.tok = id[s], !.i = 1, !.end = Len(users)]
  BY DEF HandleChat
<1>2. /\ chat'.pc = "walk" /\ chat'.tok = id[s] /\ chat'.i = 1 /\ chat'.end = Len(users)
      /\ chat'.u = 0 /\ chat'.num = 0
      /\ chat' = [pc |-> "walk", tok |-> id[s], i |-> 1, end |-> Len(users), u |-> 0, num |-> 0]
  BY <1>1 DEF NoChat
<1>3. id[s] # 0 /\ id[s] \in OptTokens /\ Len(users) \in Nat /\ 0 \in OptTokens
      /\ cells \in Seq(Units)
  BY <1>1, BoundAssumption
  DEF ChatInv, Clear, OpenHasToken, LoginInv, TypeOK, OptTokens, ChatTypes
<1>4. chat' \in Chats
  BY <1>2, <1>3 DEF Chats, OptUnits
<1>5. ChatTypes'
  BY <1>1, <1>3, <1>4 DEF ChatInv, ChatTypes
<1>6. InLoop'
  BY <1>1, <1>2, <1>3 DEF ChatInv, CellsFollow, InLoop
<1>7. NotYet'
  <2>1. users' = users
    BY <1>1 DEF vars, unitVars
  <2>2. \A j \in 1 .. Len(users) : ~(j < 1)
    BY <1>3
  <2> QED
    BY <1>2, <2>1, <2>2 DEF NotYet
<1>8. HasFound' /\ Held' /\ OwnNumber'
  BY <1>2 DEF HasFound, Held, OwnNumber
<1>9. LoginInv' /\ Clear' /\ CellsFollow'
  BY <1>1, HandlerStays
<1> QED
  BY <1>5, <1>6, <1>7, <1>8, <1>9 DEF ChatInv

\* FindUserById looks at a user in the memory it began with.
LEMMA WalkKeeps ==
  ASSUME ChatInv, Walk
  PROVE  ChatInv'
<1>1. /\ chat.pc = "walk" /\ ~Freed /\ chat.i <= chat.end
      /\ chats' = chats /\ seen' = seen /\ UNCHANGED <<vars, cells>>
  BY DEF Walk
<1>2. PICK v : v = cells[chat.i]
  OBVIOUS
<1>3. /\ chat \in Chats /\ chat.tok # 0 /\ chat.i \in 1 .. chat.end + 1
      /\ chat.i \in Nat /\ chat.end \in Nat /\ chat.end <= Len(cells)
      /\ cells \in Seq(Units) /\ Len(cells) \in Nat
  BY <1>1 DEF ChatInv, InLoop, ChatTypes, Chats
<1>4. v \in Units
  <2>1. chat.i \in 1 .. Len(cells)
    BY <1>1, <1>3
  <2> QED
    BY <1>2, <1>3, <2>1, ElementOfSeq
<1>5. users' = users /\ sid' = sid /\ cells' = cells
  BY <1>1 DEF vars, unitVars, unitData
<1>6. LoginInv' /\ Clear' /\ CellsFollow'
  BY <1>1, HandlerStays
<1>7. CASE sid[v] = chat.tok
  <2>1. chat' = [chat EXCEPT !.pc = "number", !.u = v, !.i = 0, !.end = 0]
    BY <1>2, <1>7 DEF Walk
  <2>2. chat'.pc = "number" /\ chat'.u = v /\ chat'.tok = chat.tok /\ chat' \in Chats
    BY <1>3, <1>4, <2>1 DEF Chats, OptUnits
  <2>3. ChatTypes'
    BY <1>1, <1>5, <2>2 DEF ChatInv, ChatTypes
  <2>4. InLoop' /\ NotYet' /\ OwnNumber'
    BY <2>2 DEF InLoop, NotYet, OwnNumber
  <2>5. HasFound' /\ Held'
    BY <1>3, <1>4, <1>5, <1>7, <2>2 DEF HasFound, Held
  <2> QED
    BY <1>6, <2>3, <2>4, <2>5 DEF ChatInv
<1>8. CASE sid[v] # chat.tok
  <2>1. chat' = [chat EXCEPT !.i = chat.i + 1]
    BY <1>2, <1>8 DEF Walk
  <2>2. /\ chat'.pc = "walk" /\ chat'.tok = chat.tok /\ chat'.i = chat.i + 1
        /\ chat'.end = chat.end /\ chat' \in Chats
    BY <1>1, <1>3, <2>1 DEF Chats
  <2>3. ChatTypes'
    BY <1>1, <1>5, <2>2 DEF ChatInv, ChatTypes
  <2>4. InLoop'
    BY <1>1, <1>3, <1>5, <2>2 DEF InLoop
  <2>5. NotYet'
    <3> SUFFICES ASSUME seen = {}, NEW j \in 1 .. Len(users), j < chat.i + 1
                 PROVE  sid[users[j]] # chat.tok
      BY <1>1, <1>5, <2>2 DEF NotYet
    <3>1. CASE j < chat.i
      BY <1>1, <3>1 DEF ChatInv, NotYet
    <3>2. CASE j = chat.i
      BY <1>2, <1>8, <3>2 DEF ChatInv, CellsFollow
    <3> QED
      BY <1>3, <3>1, <3>2
  <2>6. HasFound' /\ Held' /\ OwnNumber'
    BY <2>2 DEF HasFound, Held, OwnNumber
  <2> QED
    BY <1>6, <2>3, <2>4, <2>5, <2>6 DEF ChatInv
<1> QED
  BY <1>7, <1>8

\* The handler ends: nobody found, a line sent, or nothing in freed memory.
LEMMA EndKeeps ==
  ASSUME ChatInv, chat' = NoChat, seen' = {}, UNCHANGED <<vars, cells>>
  PROVE  ChatInv'
<1>1. /\ chat'.pc = "idle" /\ chat' \in Chats
  BY BoundAssumption DEF NoChat, Chats, OptTokens, OptUnits
<1>2. ChatTypes'
  BY <1>1 DEF ChatInv, ChatTypes
<1>3. InLoop' /\ NotYet' /\ HasFound' /\ Held' /\ OwnNumber'
  BY <1>1 DEF InLoop, NotYet, HasFound, Held, OwnNumber
<1>4. LoginInv' /\ Clear' /\ CellsFollow'
  BY HandlerStays
<1> QED
  BY <1>2, <1>3, <1>4 DEF ChatInv

\* Any unit is found in freed memory.
LEMMA FreedKeeps ==
  ASSUME ChatInv, WalkFreed
  PROVE  ChatInv'
<1>1. chat.pc = "walk" /\ "realloc" \in seen /\ UNCHANGED <<vars, cells>>
  BY DEF WalkFreed, Freed
<1>2. CASE chat' = NoChat /\ seen' = {}
  BY <1>1, <1>2, EndKeeps
<1>3. CASE /\ \E u \in 1 .. made :
                chat' = [NoChat EXCEPT !.pc = "number", !.tok = chat.tok, !.u = u]
           /\ seen' = seen
  <2>1. PICK u \in 1 .. made : chat' = [NoChat EXCEPT !.pc = "number", !.tok = chat.tok, !.u = u]
    BY <1>3
  <2>2. u \in Units
    <3>1. made \in {0} \cup Units
      BY DEF ChatInv, LoginInv, TypeOK
    <3>2. PICK n : n = PoolSize + MaxLogins * PoolExtra
      OBVIOUS
    <3>3. MaxLogins * PoolExtra \in Nat
      BY BoundAssumption
    <3>4. n \in Nat
      BY <3>2, <3>3, BoundAssumption
    <3>5. made \in {0} \cup 1 .. n /\ Units = 1 .. n
      BY <3>1, <3>2 DEF Units
    <3> QED
      BY <3>4, <3>5
  <2>3. chat \in Chats /\ chat.tok # 0 /\ 0 \in OptTokens
    <3>1. 0 \in OptTokens
      BY BoundAssumption DEF OptTokens
    <3> QED
      BY <1>1, <3>1 DEF ChatInv, InLoop, ChatTypes
  <2>4. /\ chat'.pc = "number" /\ chat'.tok = chat.tok /\ chat'.u = u
        /\ chat' \in Chats
    BY <2>1, <2>2, <2>3 DEF NoChat, Chats, OptUnits
  <2>5. ChatTypes'
    BY <1>1, <1>3, <2>4 DEF ChatInv, ChatTypes
  <2>6. InLoop' /\ NotYet' /\ HasFound' /\ Held' /\ OwnNumber'
    BY <1>1, <1>3, <2>2, <2>3, <2>4 DEF InLoop, NotYet, HasFound, Held, OwnNumber
  <2>7. LoginInv' /\ Clear' /\ CellsFollow'
    BY <1>1, HandlerStays
  <2> QED
    BY <2>5, <2>6, <2>7 DEF ChatInv
<1> QED
  BY <1>2, <1>3 DEF WalkFreed

\* GetUnique: the number in a unit that has the token is its account's.
LEMMA TakeNumberKeeps ==
  ASSUME ChatInv, TakeNumber
  PROVE  ChatInv'
<1>1. PICK u : u = chat.u
  OBVIOUS
<1>2. /\ chat.pc = "number" /\ chat' = [chat EXCEPT !.pc = "name", !.num = number[u]]
      /\ seen' = seen \cup (IF At("number") /\ game.u = u THEN {"unfinished"} ELSE {})
      /\ UNCHANGED <<vars, cells>>
  BY <1>1 DEF TakeNumber
<1>3. u \in Units /\ chat.tok # 0 /\ chat \in Chats /\ number[u] \in OptTokens
  BY <1>1, <1>2 DEF ChatInv, HasFound, ChatTypes, LoginInv, TypeOK
<1>4. /\ chat'.pc = "name" /\ chat'.num = number[u] /\ chat'.u = u /\ chat'.tok = chat.tok
      /\ chat' \in Chats
  BY <1>1, <1>2, <1>3 DEF Chats
<1>5. sid' = sid /\ crossed' = crossed /\ misread' = misread /\ cells' = cells
  BY <1>2 DEF vars, unitVars, unitData
<1>6. ChatTypes'
  BY <1>2, <1>4, <1>5 DEF ChatInv, ChatTypes, Seen
<1>7. InLoop' /\ NotYet' /\ HasFound'
  BY <1>3, <1>4 DEF InLoop, NotYet, HasFound
<1>8. Held'
  BY <1>1, <1>2, <1>4, <1>5 DEF ChatInv, Held
<1>9. OwnNumber'
  <2> SUFFICES ASSUME chat.tok \notin crossed \cup misread,
                      seen' \cap {"realloc", "left", "unfinished"} = {}
               PROVE  number[u] \in {0, chat.tok}
    BY <1>4, <1>5 DEF OwnNumber
  <2>1. ~(At("number") /\ game.u = u) /\ seen \cap {"realloc", "left"} = {}
    BY <1>2
  <2>2. sid[u] = chat.tok
    BY <1>1, <1>2, <2>1 DEF ChatInv, Held
  <2> QED
    BY <1>3, <2>1, <2>2, UnitOfToken DEF ChatInv
<1>10. LoginInv' /\ Clear' /\ CellsFollow'
  BY <1>2, HandlerStays
<1> QED
  BY <1>6, <1>7, <1>8, <1>9, <1>10 DEF ChatInv

-----------------------------------------------------------------------------
\* The invariant holds at the start.
LEMMA ChatInvInit == ChatInit => ChatInv
<1> SUFFICES ASSUME ChatInit PROVE ChatInv
  OBVIOUS
<1>1. LoginInv
  BY LoginInit DEF ChatInit
<1>2. Clear
  BY DEF ChatInit, Init, Clear, FreeIsClear, OpenHasToken, NotYetNamed, At, Drained
<1>3. /\ chat = NoChat /\ chat.pc = "idle" /\ seen = {} /\ cells = <<>> /\ users = <<>>
  BY DEF ChatInit, Init, NoChat
<1>4. ChatTypes
  BY <1>3, EmptySeq, BoundAssumption DEF ChatTypes, NoChat, Chats, OptTokens, OptUnits
<1>5. CellsFollow /\ InLoop /\ NotYet /\ HasFound /\ Held /\ OwnNumber
  BY <1>3 DEF CellsFollow, InLoop, NotYet, HasFound, Held, OwnNumber
<1> QED
  BY <1>1, <1>2, <1>4, <1>5 DEF ChatInv

\* Every step keeps it.
LEMMA ChatInvStep == ChatInv /\ [ChatNext]_allVars => ChatInv'
<1> SUFFICES ASSUME ChatInv, [ChatNext]_allVars
             PROVE  ChatInv'
  OBVIOUS
<1>1. CASE Next /\ MemoryFollows /\ UNCHANGED <<chat, chats>>
  BY <1>1, GameKeeps
<1>2. ASSUME NEW s \in Sessions, HandleChat(s)
      PROVE  ChatInv'
  BY <1>2, HandleChatKeeps
<1>3. CASE Drop \/ BroadCast
  BY <1>3, EndKeeps DEF Drop, BroadCast
<1>4. CASE Walk \/ WalkFreed \/ TakeNumber
  BY <1>4, WalkKeeps, FreedKeeps, TakeNumberKeeps
<1>5. CASE UNCHANGED allVars
  <2>1. UNCHANGED <<vars, cells, chat, seen>>
    BY <1>5 DEF allVars
  <2>2. /\ chat' = chat /\ cells' = cells /\ seen' = seen /\ users' = users /\ sid' = sid
        /\ crossed' = crossed /\ misread' = misread
    BY <2>1 DEF vars, unitVars, unitData
  <2>3. ChatTypes' /\ InLoop' /\ NotYet' /\ HasFound' /\ Held' /\ OwnNumber'
    BY <2>2 DEF ChatInv, ChatTypes, InLoop, NotYet, HasFound, Held, OwnNumber
  <2> QED
    BY <2>1, <2>3, HandlerStays DEF ChatInv
<1> QED
  BY <1>1, <1>2, <1>3, <1>4, <1>5 DEF ChatNext, ChatStep

\* In every behaviour of the login with handlers of chat among it.
THEOREM ChatInvariant == ChatSpec => []ChatInv
BY ChatInvInit, ChatInvStep, PTL DEF ChatSpec

\* FindUserById without the lock misses a user it began with only if m_Users was
\* reallocated under it or ReleasePC moved the user to a place it had passed
\* (GameManager.cpp:93-102).
THEOREM ChatFinds == ChatSpec => []ChatFindsUser
<1>1. ChatInv => ChatFindsUser
  <2> SUFFICES ASSUME ChatInv, chat.pc = "walk", chat.i > chat.end, seen = {},
                      NEW j \in 1 .. Len(users), j <= chat.end
               PROVE  sid[users[j]] # chat.tok
    BY DEF ChatFindsUser
  <2>1. chat.i \in Nat /\ chat.end \in Nat /\ Len(users) \in Nat
    BY DEF ChatInv, ChatTypes, Chats, LoginInv, TypeOK
  <2> QED
    BY <2>1 DEF ChatInv, NotYet
<1> QED
  BY <1>1, ChatInvariant, PTL

\* A line goes out under its sender's name and account number, or none, in a unit
\* that stayed his and was complete, in memory that was not freed, and when no login
\* of another connection was entered for him and his own was not overwritten before
\* it was read (GamePacketHandler.cpp:49-59, 75-91).
THEOREM ChatNames == ChatSpec => []ChatNamesSender
<1>1. ChatInv => ChatNamesSender
  <2> SUFFICES ASSUME ChatInv, chat.pc = "name",
                      chat.tok \notin crossed \cup misread,
                      seen \cap {"realloc", "left", "unfinished"} = {}
               PROVE  name[chat.u] = chat.tok /\ chat.num \in {0, chat.tok}
    BY DEF ChatNamesSender
  <2>1. PICK u : u = chat.u
    OBVIOUS
  <2>2. u \in Units /\ chat.tok # 0 /\ sid[u] = chat.tok
    BY <2>1 DEF ChatInv, HasFound, Held
  <2>3. name[u] = chat.tok
    BY <2>2, UnitOfToken DEF ChatInv
  <2> QED
    BY <2>1, <2>3 DEF ChatInv, OwnNumber
<1> QED
  BY <1>1, ChatInvariant, PTL

\* With handlers of chat among them, a user still has the name and number of his own
\* login, but for the exceptions OwnAccount names (GamePacketHandler.cpp:71-91).
THEOREM AccountsStayOwn == ChatSpec => []OwnAccount
<1>1. ChatInv => OwnAccount
  BY DEF ChatInv, LoginInv, Numbers
<1> QED
  BY <1>1, ChatInvariant, PTL
=============================================================================
