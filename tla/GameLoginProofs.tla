----------------------------- MODULE GameLoginProofs -----------------------------
(***************************************************************************)
(* Proofs about the game server's login, for any number of objects,        *)
(* connections, logins and units: types, the units and their index, the    *)
(* Logout on its way, and whose number and name a unit holds.              *)
(***************************************************************************)
EXTENDS GameLogin, FiniteSetTheorems, SequenceTheorems, TLAPS

\* The logins among the jobs of a queue.
LoginsOf(q) == {i \in 1 .. Len(q) : q[i].kind = "login"}

\* m_EmptyUnits is filled up once per login at most: k times so far, and logins
\* under way have not done it yet.
Refills ==
  \E k \in Nat :
    /\ made = PoolSize + k * PoolExtra
    /\ k + Len(mq) + Cardinality(LoginsOf(jobs)) + (IF At("unit") THEN 1 ELSE 0) <= logins

\* What is made is all there is.
UnitsMade ==
  /\ \A i \in 1 .. Len(users) : users[i] <= made
  /\ \A i \in 1 .. Len(empty) : empty[i] <= made

\* The unit of the login under way is in m_Users, and in the index not before the
\* end.
GameUser ==
  /\ At("drain") \/ At("unit") <=> game.u = 0
  /\ ~At("drain") => game.s \in Sessions
  /\ game.u # 0 => InUse(game.u)
  /\ At("session") \/ At("number") \/ At("index") => \A t \in OptTokens : byId[t] # game.u

\* A check that read its own packet gives the number of the account or none.
OwnJob(j)   == j.tok \in misread \/ j.acct \in {0, j.tok}
JobsOwn     == \A i \in 1 .. Len(jobs) : OwnJob(jobs[i])

\* How far the unit of the login under way is filled in.
Building ==
  /\ OwnJob(game.job)
  /\ game.u # 0 => game.job.tok \in misread \/ name[game.u] = game.job.tok
  /\ At("number") \/ At("index") \/ At("reply") =>
       sid[game.u] \in crossed \cup {0, game.job.tok}
  /\ At("index") \/ At("reply") => number[game.u] = game.job.acct

Stockroom == OneUnit /\ UnitsMade
Index     == IndexOfUsers /\ GameUser
Numbers   == OwnAccount /\ Building

LoginInv ==
  /\ TypeOK
  /\ Refills
  /\ Stockroom
  /\ Index
  /\ JobsOwn
  /\ Numbers
  /\ LogoutOnItsWay

-----------------------------------------------------------------------------
(* Queues. *)

\* A job or a unit is put behind the others.
LEMMA AppendStep ==
  ASSUME NEW S, NEW q \in Seq(S), NEW e \in S, NEW r, r = Append(q, e)
  PROVE  /\ r \in Seq(S) /\ Len(q) \in Nat /\ Len(r) = Len(q) + 1
         /\ \A i \in 1 .. Len(q) : r[i] = q[i] /\ i \in 1 .. Len(r)
         /\ r[Len(q) + 1] = e /\ Len(q) + 1 \in 1 .. Len(r)
         /\ \A i \in 1 .. Len(r) : i \in 1 .. Len(q) \/ i = Len(q) + 1
<1>1. Len(q) \in Nat
  OBVIOUS
<1>2. /\ r \in Seq(S) /\ Len(r) = Len(q) + 1
      /\ \A i \in 1 .. Len(q) : r[i] = q[i]
      /\ r[Len(q) + 1] = e
  BY AppendProperties
<1> QED
  BY <1>1, <1>2

\* The head of a queue is taken.
LEMMA TailStep ==
  ASSUME NEW S, NEW q \in Seq(S), q # <<>>, NEW r, r = Tail(q)
  PROVE  /\ Head(q) \in S /\ Head(q) = q[1] /\ 1 \in 1 .. Len(q)
         /\ r \in Seq(S) /\ Len(q) \in Nat \ {0} /\ Len(r) = Len(q) - 1
         /\ \A i \in 1 .. Len(r) : i + 1 \in 1 .. Len(q) /\ r[i] = q[i + 1]
         /\ \A i \in 1 .. Len(q) : i = 1 \/ (i - 1 \in 1 .. Len(r) /\ r[i - 1] = q[i])
<1>1. Len(q) \in Nat \ {0}
  BY EmptySeq
<1>2. /\ Head(q) \in S /\ r \in Seq(S) /\ Len(r) = Len(q) - 1
      /\ \A i \in 1 .. Len(r) : r[i] = q[i + 1]
  BY HeadTailProperties
<1>3. Head(q) = q[1]
  BY <1>1
<1>4. \A i \in 1 .. Len(q) : i = 1 \/ (i - 1 \in 1 .. Len(r) /\ i - 1 + 1 = i)
  BY <1>1, <1>2
<1> QED
  BY <1>1, <1>2, <1>3, <1>4

\* A task out of the middle of the queue is done.
LEMMA WithoutStep ==
  ASSUME NEW S, NEW q \in Seq(S), NEW i \in 1 .. Len(q)
  PROVE  Without(q, i) \in Seq(S) /\ Len(Without(q, i)) = Len(q) - 1
<1>1. Len(q) \in Nat /\ \A j \in 1 .. Len(q) : q[j] \in S
  BY ElementOfSeq
<1> DEFINE a == SubSeq(q, 1, i - 1)
           b == SubSeq(q, i + 1, Len(q))
<1>2. 1 \in Int /\ i - 1 \in Int /\ i + 1 \in Int /\ Len(q) \in Int
  BY <1>1
<1>3. a \in Seq(S) /\ Len(a) = i - 1
  <2>1. \A j \in 1 .. i - 1 : q[j] \in S
    BY <1>1
  <2>2. a \in Seq(S) /\ Len(a) = IF 1 <= i - 1 THEN (i - 1) - 1 + 1 ELSE 0
    BY <1>2, <2>1, SubSeqProperties
  <2> QED
    BY <1>1, <2>2
<1>4. b \in Seq(S) /\ Len(b) = Len(q) - i
  <2>1. \A j \in i + 1 .. Len(q) : q[j] \in S
    BY <1>1
  <2>2. b \in Seq(S) /\ Len(b) = IF i + 1 <= Len(q) THEN Len(q) - (i + 1) + 1 ELSE 0
    BY <1>2, <2>1, SubSeqProperties
  <2> QED
    BY <1>1, <2>2
<1> HIDE DEF a, b
<1>5. a \o b \in Seq(S) /\ Len(a \o b) = Len(a) + Len(b)
  BY <1>3, <1>4, ConcatProperties
<1>6. Without(q, i) = a \o b
  BY DEF Without, a, b
<1>7. Len(a) + Len(b) = Len(q) - 1
  BY <1>1, <1>3, <1>4
<1> QED
  BY <1>5, <1>6, <1>7

\* How the logins of a queue are counted.
LEMMA LoginsFinite ==
  ASSUME NEW q \in Seq(Jobs)
  PROVE  IsFiniteSet(LoginsOf(q)) /\ Cardinality(LoginsOf(q)) \in Nat
<1>1. Len(q) \in Int /\ 1 \in Int
  OBVIOUS
<1>2. IsFiniteSet(1 .. Len(q))
  BY <1>1, FS_Interval
<1>3. LoginsOf(q) \in SUBSET (1 .. Len(q))
  BY DEF LoginsOf
<1>4. IsFiniteSet(LoginsOf(q))
  BY <1>2, <1>3, FS_Subset
<1> QED
  BY <1>4, FS_CardinalityType

\* A posted job adds at most one login to the queue, another job none.
LEMMA LoginsAppend ==
  ASSUME NEW q \in Seq(Jobs), NEW j \in Jobs, NEW r, r = Append(q, j)
  PROVE  /\ Cardinality(LoginsOf(r)) <= Cardinality(LoginsOf(q)) + 1
         /\ j.kind # "login" => Cardinality(LoginsOf(r)) = Cardinality(LoginsOf(q))
<1>1. /\ r \in Seq(Jobs) /\ Len(q) \in Nat /\ Len(r) = Len(q) + 1
      /\ \A i \in 1 .. Len(q) : r[i] = q[i] /\ i \in 1 .. Len(r)
      /\ r[Len(q) + 1] = j
      /\ \A i \in 1 .. Len(r) : i \in 1 .. Len(q) \/ i = Len(q) + 1
  BY AppendStep
<1>2. IsFiniteSet(LoginsOf(q)) /\ Cardinality(LoginsOf(q)) \in Nat
  BY LoginsFinite
<1>3. CASE j.kind = "login"
  <2>1. LoginsOf(r) = LoginsOf(q) \cup {Len(q) + 1}
    BY <1>1, <1>3 DEF LoginsOf
  <2> DEFINE last == Len(q) + 1
             c    == Cardinality(LoginsOf(q))
  <2>2. Cardinality(LoginsOf(q) \cup {last}) = IF last \in LoginsOf(q) THEN c ELSE c + 1
    BY <1>2, FS_AddElement
  <2>3. Cardinality(LoginsOf(q) \cup {last}) <= c + 1
    BY <1>2, <2>2
  <2> QED
    BY <1>3, <2>1, <2>3
<1>4. CASE j.kind # "login"
  <2>1. LoginsOf(r) = LoginsOf(q)
    BY <1>1, <1>4 DEF LoginsOf
  <2> QED
    BY <1>2, <1>4, <2>1
<1> QED
  BY <1>3, <1>4

\* A login taken from the queue is one less in it.
LEMMA LoginsTail ==
  ASSUME NEW q \in Seq(Jobs), q # <<>>, NEW r, r = Tail(q)
  PROVE  Cardinality(LoginsOf(r)) + (IF Head(q).kind = "login" THEN 1 ELSE 0)
           <= Cardinality(LoginsOf(q))
<1>1. /\ Head(q) = q[1] /\ 1 \in 1 .. Len(q) /\ r \in Seq(Jobs)
      /\ \A i \in 1 .. Len(r) : i + 1 \in 1 .. Len(q) /\ r[i] = q[i + 1]
  BY TailStep
<1>2. /\ IsFiniteSet(LoginsOf(q)) /\ Cardinality(LoginsOf(q)) \in Nat
      /\ Cardinality(LoginsOf(r)) \in Nat
  BY <1>1, LoginsFinite
<1> DEFINE rest == LoginsOf(q) \ {1}
           f    == [i \in LoginsOf(r) |-> i + 1]
<1>3. /\ IsFiniteSet(rest)
      /\ Cardinality(rest) = IF 1 \in LoginsOf(q) THEN Cardinality(LoginsOf(q)) - 1
                             ELSE Cardinality(LoginsOf(q))
  BY <1>2, FS_RemoveElement
<1>4. f \in Injection(LoginsOf(r), rest)
  <2>1. \A i \in LoginsOf(r) : i \in 1 .. Len(r) /\ i \in Nat \ {0} /\ i + 1 \in rest
    BY <1>1 DEF LoginsOf
  <2> QED
    BY <2>1 DEF Injection, IsInjective
<1>5. Cardinality(LoginsOf(r)) <= Cardinality(rest)
  BY <1>3, <1>4, FS_Injection
<1>6. 1 \in LoginsOf(q) <=> Head(q).kind = "login"
  BY <1>1 DEF LoginsOf
<1> QED
  BY <1>2, <1>3, <1>5, <1>6

-----------------------------------------------------------------------------
(* What a step leaves alone. *)

\* Units, index and the login under way.
LEMMA UnitsStay ==
  ASSUME LoginInv,
         UNCHANGED <<users, empty, made, sid, number, name, byId, game, crossed>>,
         misread \subseteq misread'
  PROVE  Stockroom' /\ Index' /\ Numbers'
<1>0. /\ users' = users /\ empty' = empty /\ made' = made /\ sid' = sid
      /\ number' = number /\ name' = name /\ byId' = byId /\ game' = game
      /\ crossed' = crossed
  OBVIOUS
<1>1. Stockroom'
  BY <1>0 DEF LoginInv, Stockroom, OneUnit, UnitsMade, InUse, IsFree
<1>2. Index'
  BY <1>0 DEF LoginInv, Index, IndexOfUsers, GameUser, InUse, At
<1>3. Numbers'
  BY <1>0 DEF LoginInv, Numbers, OwnAccount, Building, OwnJob, At
<1> QED
  BY <1>1, <1>2, <1>3

\* The Logout of an indexed token stays on its way.
LEMMA LogoutStays ==
  ASSUME LoginInv, UNCHANGED <<byId, late>>,
         \A t \in Tokens : LogoutQueued(t) => LogoutQueued(t)',
         \A t \in Tokens, s \in Sessions :
           WillNotify(s, t) => WillNotify(s, t)' \/ LogoutQueued(t)'
  PROVE  LogoutOnItsWay'
BY DEF LoginInv, LogoutOnItsWay

\* A queued Logout stays queued when a job comes behind it.
LEMMA QueuedStays ==
  ASSUME NEW j \in Jobs, jobs \in Seq(Jobs), jobs' = Append(jobs, j)
  PROVE  /\ \A t : LogoutQueued(t) => LogoutQueued(t)'
         /\ \A t : j = LogoutOf(t) => LogoutQueued(t)'
<1>1. /\ Len(jobs') = Len(jobs) + 1
      /\ \A i \in 1 .. Len(jobs) : jobs'[i] = jobs[i] /\ i \in 1 .. Len(jobs')
      /\ jobs'[Len(jobs) + 1] = j /\ Len(jobs) + 1 \in 1 .. Len(jobs')
  BY AppendStep
<1> QED
  BY <1>1 DEF LogoutQueued, LogoutOf

\* A job behind the others is one that keeps its number.
LEMMA JobAdded ==
  ASSUME LoginInv, NEW j \in Jobs, OwnJob(j)', misread \subseteq misread',
         jobs' = Append(jobs, j)
  PROVE  jobs' \in Seq(Jobs) /\ JobsOwn'
<1>1. jobs \in Seq(Jobs) /\ \A i \in 1 .. Len(jobs) : OwnJob(jobs[i])
  BY DEF LoginInv, TypeOK, JobsOwn
<1>2. /\ jobs' \in Seq(Jobs)
      /\ \A i \in 1 .. Len(jobs) : jobs'[i] = jobs[i]
      /\ jobs'[Len(jobs) + 1] = j
      /\ \A i \in 1 .. Len(jobs') : i \in 1 .. Len(jobs) \/ i = Len(jobs) + 1
  BY <1>1, AppendStep
<1>3. ASSUME NEW i \in 1 .. Len(jobs')
      PROVE  jobs'[i].tok \in misread' \/ jobs'[i].acct \in {0, jobs'[i].tok}
  BY <1>1, <1>2 DEF OwnJob
<1> QED
  BY <1>2, <1>3 DEF JobsOwn, OwnJob

-----------------------------------------------------------------------------
(* The sessions. *)

\* A new connection: the object was in the pool and could notify nobody.
LEMMA AcceptKeeps ==
  ASSUME LoginInv, NEW s \in Sessions, Accept(s)
  PROVE  LoginInv'
<1>1. /\ phase[s] = "pooled" /\ conns < MaxConns /\ conns' = conns + 1
      /\ id' = [id EXCEPT ![s] = conns + 1] /\ phase' = [phase EXCEPT ![s] = "open"]
      /\ UNCHANGED <<callback, users, empty, made, sid, number, name, byId, mq, jobs,
                     game, logins, settled, late, crossed, misread>>
  BY DEF Accept, elsewhere, unitVars, unitData
<1>2. conns + 1 \in OptTokens
  BY <1>1, BoundAssumption DEF LoginInv, TypeOK, OptTokens
<1>3. TypeOK'
  BY <1>1, <1>2 DEF LoginInv, TypeOK, Phases
<1>4. Refills' /\ JobsOwn'
  BY <1>1 DEF LoginInv, Refills, JobsOwn, OwnJob, LoginsOf, At
<1>5. LogoutOnItsWay'
  <2>1. \A t \in Tokens : LogoutQueued(t)' <=> LogoutQueued(t)
    BY <1>1 DEF LogoutQueued
  <2>2. phase \in [Sessions -> Phases] /\ id \in [Sessions -> OptTokens]
    BY DEF LoginInv, TypeOK
  <2>3. \A t \in Tokens, x \in Sessions : WillNotify(x, t) => WillNotify(x, t)'
    BY <1>1, <2>2 DEF WillNotify
  <2> QED
    BY <1>1, <2>1, <2>3, LogoutStays
<1> QED
  BY <1>1, <1>3, <1>4, <1>5, UnitsStay DEF LoginInv

\* Disconnect wins, and later steps of it that tell nobody.
LEMMA CloseKeeps ==
  ASSUME LoginInv, NEW s \in Sessions, Disconnect(s) \/ UnregisterActive(s) \/ Release(s)
  PROVE  LoginInv'
<1>1. /\ phase[s] \in {"open", "unregister", "release"}
      /\ phase' = [phase EXCEPT ![s] = CASE phase[s] = "open" -> "notify"
                                         [] phase[s] = "unregister" -> "release"
                                         [] phase[s] = "release" -> "pooled"]
      /\ id' = IF phase[s] = "release" THEN [id EXCEPT ![s] = 0] ELSE id
      /\ UNCHANGED <<callback, conns, users, empty, made, sid, number, name, byId, mq,
                     jobs, game, logins, settled, late, crossed, misread>>
  BY DEF Disconnect, UnregisterActive, Release, elsewhere, unitVars, unitData
<1>2. phase \in [Sessions -> Phases] /\ id \in [Sessions -> OptTokens]
  BY DEF LoginInv, TypeOK
<1>3. 0 \in OptTokens
  BY BoundAssumption DEF OptTokens
<1>4. phase' \in [Sessions -> Phases] /\ id' \in [Sessions -> OptTokens]
  BY <1>1, <1>2, <1>3 DEF Phases, ClosePhases
<1>5. TypeOK'
  BY <1>1, <1>4 DEF LoginInv, TypeOK
<1>6. Refills' /\ JobsOwn'
  BY <1>1 DEF LoginInv, Refills, JobsOwn, OwnJob, LoginsOf, At
<1>7. LogoutOnItsWay'
  <2>1. \A t \in Tokens : LogoutQueued(t)' <=> LogoutQueued(t)
    BY <1>1 DEF LogoutQueued
  <2>2. \A t \in Tokens, x \in Sessions : WillNotify(x, t) => WillNotify(x, t)'
    BY <1>1, <1>2 DEF WillNotify
  <2> QED
    BY <1>1, <2>1, <2>2, LogoutStays
<1> QED
  BY <1>1, <1>5, <1>6, <1>7, UnitsStay DEF LoginInv

\* The callback queues the Logout of the token the object has.
LEMMA NotifyKeeps ==
  ASSUME LoginInv, NEW s \in Sessions, Notify(s)
  PROVE  LoginInv'
<1>1. /\ phase[s] = "notify" /\ phase' = [phase EXCEPT ![s] = "unregister"]
      /\ callback' = [callback EXCEPT ![s] = FALSE]
      /\ UNCHANGED <<id, conns, users, empty, made, sid, number, name, byId, mq,
                     game, logins, settled, late, crossed, misread>>
  BY DEF Notify, unitVars, unitData
<1>2. /\ phase \in [Sessions -> Phases] /\ id \in [Sessions -> OptTokens]
      /\ callback \in [Sessions -> BOOLEAN] /\ jobs \in Seq(Jobs)
  BY DEF LoginInv, TypeOK
<1>3. LogoutOf(id[s]) \in Jobs /\ LogoutOf(id[s]).acct = 0
      /\ LogoutOf(id[s]).kind # "login"
  BY <1>2, BoundAssumption DEF LogoutOf, Jobs, OptTokens
<1>4. callback' \in [Sessions -> BOOLEAN]
  BY <1>1, <1>2, Zenon
<1>5. /\ jobs' \in Seq(Jobs) /\ JobsOwn'
      /\ Cardinality(LoginsOf(jobs')) = Cardinality(LoginsOf(jobs))
      /\ \A t \in Tokens : LogoutQueued(t) => LogoutQueued(t)'
      /\ callback[s] => \A t \in Tokens : id[s] = t => LogoutQueued(t)'
  <2>1. CASE callback[s]
    <3>1. jobs' = Append(jobs, LogoutOf(id[s]))
      BY <2>1 DEF Notify
    <3>2. /\ \A t \in Tokens : id[s] = t => LogoutQueued(t)'
          /\ \A t \in Tokens : LogoutQueued(t) => LogoutQueued(t)'
      BY <1>2, <1>3, <3>1, QueuedStays
    <3>3. Cardinality(LoginsOf(jobs')) = Cardinality(LoginsOf(jobs))
      BY <1>2, <1>3, <3>1, LoginsAppend
    <3>4. jobs' \in Seq(Jobs) /\ JobsOwn'
      <4>1. OwnJob(LogoutOf(id[s]))'
        BY <1>1, <1>3, <3>1 DEF OwnJob, LogoutOf
      <4> QED
        BY <1>1, <1>3, <3>1, <4>1, JobAdded
    <3> QED
      BY <3>2, <3>3, <3>4
  <2>2. CASE ~callback[s]
    <3>1. jobs' = jobs
      BY <2>2 DEF Notify
    <3> QED
      BY <1>1, <1>2, <2>2, <3>1 DEF LoginInv, JobsOwn, OwnJob, LogoutQueued
  <2> QED
    BY <2>1, <2>2
<1>6. TypeOK'
  BY <1>1, <1>2, <1>4, <1>5 DEF LoginInv, TypeOK, Phases, ClosePhases
<1>7. Refills'
  BY <1>1, <1>5 DEF LoginInv, Refills, At
<1>8. LogoutOnItsWay'
  <2>1. \A t \in Tokens, x \in Sessions :
          x # s /\ WillNotify(x, t) => WillNotify(x, t)'
    <3> SUFFICES ASSUME NEW t \in Tokens, NEW x \in Sessions, x # s, WillNotify(x, t)
                 PROVE  WillNotify(x, t)'
      OBVIOUS
    <3>1. phase'[x] = phase[x] /\ callback'[x] = callback[x] /\ id'[x] = id[x]
      BY <1>1, <1>2
    <3> QED
      BY <3>1, Zenon DEF WillNotify
  <2>2. \A t \in Tokens : WillNotify(s, t) => LogoutQueued(t)'
    BY <1>5, Zenon DEF WillNotify
  <2> QED
    BY <1>1, <1>5, <2>1, <2>2, LogoutStays
<1> QED
  BY <1>1, <1>5, <1>6, <1>7, <1>8, UnitsStay DEF LoginInv

\* CM_LOGIN: one task more, one login more.
LEMMA HandleKeeps ==
  ASSUME LoginInv, NEW s \in Sessions, HandleLogin(s)
  PROVE  LoginInv'
<1>1. /\ logins < MaxLogins /\ logins' = logins + 1 /\ mq' = Append(mq, id[s])
      /\ UNCHANGED <<phase, id, callback, conns, users, empty, made, sid, number, name,
                     byId, jobs, game, settled, late, crossed, misread>>
  BY DEF HandleLogin, sessionVars, unitVars, unitData
<1>2. mq \in Seq(OptTokens) /\ id[s] \in OptTokens /\ logins \in 0 .. MaxLogins
  BY DEF LoginInv, TypeOK
<1>3. mq' \in Seq(OptTokens) /\ Len(mq) \in Nat /\ Len(mq') = Len(mq) + 1
  BY <1>1, <1>2, AppendStep
<1>4. logins' \in 0 .. MaxLogins
  BY <1>1, <1>2, BoundAssumption
<1>5. TypeOK'
  BY <1>1, <1>3, <1>4 DEF LoginInv, TypeOK
<1>6. Refills'
  <2>1. PICK k \in Nat :
          /\ made = PoolSize + k * PoolExtra
          /\ k + Len(mq) + Cardinality(LoginsOf(jobs)) + (IF At("unit") THEN 1 ELSE 0)
               <= logins
    BY DEF LoginInv, Refills
  <2>2. jobs \in Seq(Jobs)
    BY DEF LoginInv, TypeOK
  <2>3. Cardinality(LoginsOf(jobs)) \in Nat
    BY <2>2, LoginsFinite
  <2>4. /\ made' = PoolSize + k * PoolExtra
        /\ k + Len(mq') + Cardinality(LoginsOf(jobs')) + (IF At("unit")' THEN 1 ELSE 0)
             <= logins'
    BY <1>1, <1>2, <1>3, <2>1, <2>3 DEF At
  <2> QED
    BY <2>4 DEF Refills
<1>7. JobsOwn' /\ LogoutOnItsWay'
  BY <1>1 DEF LoginInv, JobsOwn, OwnJob, LogoutOnItsWay, LogoutQueued, WillNotify
<1> QED
  BY <1>1, <1>5, <1>6, <1>7, UnitsStay DEF LoginInv

-----------------------------------------------------------------------------
(* The account check. *)

\* What is found where pMsg points, and that a login not its own is one misread.
LEMMA FoundFacts ==
  ASSUME LoginInv, NEW t \in OptTokens, NEW found \in Found(t), Reads(t, found)
  PROVE  /\ found \in OptTokens
         /\ misread' \subseteq OptTokens /\ misread \subseteq misread'
         /\ t \in misread' \/ found = t
<1>1. conns \in OptTokens /\ misread \subseteq OptTokens
  BY DEF LoginInv, TypeOK
<1>2. found \in OptTokens
  BY <1>1, BoundAssumption DEF Found, OptTokens
<1> QED
  BY <1>1, <1>2 DEF Reads

\* A check is done: its login is queued, or its exception ended it.
LEMMA CheckKeeps ==
  ASSUME LoginInv, NEW i \in Nat \ {0}, CheckAccount(i)
  PROVE  LoginInv'
<1>1. /\ i <= Len(mq) /\ mq' = Without(mq, i)
      /\ UNCHANGED <<phase, id, callback, conns, users, empty, made, sid, number, name,
                     byId, game, logins, late, crossed>>
  BY DEF CheckAccount, sessionVars, unitVars, unitData
<1>2. /\ mq \in Seq(OptTokens) /\ jobs \in Seq(Jobs) /\ Len(mq) \in Nat
      /\ settled \subseteq OptTokens /\ logins \in Nat
  BY BoundAssumption DEF LoginInv, TypeOK
<1>3. i \in 1 .. Len(mq)
  BY <1>1, <1>2
<1>4. mq' \in Seq(OptTokens) /\ Len(mq') = Len(mq) - 1
  BY <1>1, <1>2, <1>3, WithoutStep
<1>5. mq[i] \in OptTokens
  BY <1>2, <1>3, ElementOfSeq
<1> DEFINE before == Cardinality(LoginsOf(jobs))
           after  == Cardinality(LoginsOf(jobs'))
<1>6. /\ jobs' \in Seq(Jobs) /\ JobsOwn' /\ after <= before + 1
      /\ settled' \subseteq OptTokens
      /\ misread' \subseteq OptTokens /\ misread \subseteq misread'
      /\ \A t \in Tokens : LogoutQueued(t) => LogoutQueued(t)'
  <2>1. CASE /\ \E found \in Found(mq[i]) : \E acct \in {found, 0} :
                  jobs' = Append(jobs, LoginOf(mq[i], acct)) /\ Reads(mq[i], found)
             /\ settled' = settled
    <3>0. PICK found \in Found(mq[i]) : \E acct \in {found, 0} :
            jobs' = Append(jobs, LoginOf(mq[i], acct)) /\ Reads(mq[i], found)
      BY <2>1
    <3>1. PICK acct \in {found, 0} :
            jobs' = Append(jobs, LoginOf(mq[i], acct)) /\ Reads(mq[i], found)
      BY <3>0
    <3>2. /\ found \in OptTokens /\ acct \in OptTokens
          /\ misread' \subseteq OptTokens /\ misread \subseteq misread'
          /\ mq[i] \in misread' \/ found = mq[i]
      <4>1. /\ found \in OptTokens
            /\ misread' \subseteq OptTokens /\ misread \subseteq misread'
            /\ mq[i] \in misread' \/ found = mq[i]
        BY <1>5, <3>1, FoundFacts
      <4> QED
        BY <4>1, BoundAssumption DEF OptTokens
    <3>j. PICK j : j = LoginOf(mq[i], acct)
      OBVIOUS
    <3>3. j \in Jobs /\ OwnJob(j)'
      <4>1. j.tok = mq[i] /\ j.acct = acct /\ j \in Jobs
        BY <1>5, <3>2, <3>j DEF LoginOf, Jobs
      <4>2. j.tok \in misread' \/ j.acct \in {0, j.tok}
        BY <3>2, <4>1
      <4> QED
        BY <4>1, <4>2 DEF OwnJob
    <3>4. jobs' = Append(jobs, j)
      BY <3>1, <3>j
    <3>5. jobs' \in Seq(Jobs) /\ JobsOwn'
      BY <3>2, <3>3, <3>4, JobAdded
    <3>6. after <= before + 1
      <4>1. after <= before + 1 /\ (j.kind # "login" => after = before)
        BY <1>2, <3>3, <3>4, LoginsAppend
      <4> QED
        BY <4>1
    <3>7. \A t \in Tokens : LogoutQueued(t) => LogoutQueued(t)'
      BY <1>2, <3>3, <3>4, QueuedStays
    <3> QED
      BY <1>2, <2>1, <3>2, <3>5, <3>6, <3>7
  <2>2. CASE settled' = settled \cup {mq[i]} /\ jobs' = jobs /\ misread' = misread
    <3>1. before \in Nat
      BY <1>2, LoginsFinite
    <3> QED
      BY <1>2, <1>5, <2>2, <3>1 DEF LoginInv, TypeOK, JobsOwn, OwnJob, LogoutQueued
  <2> QED
    BY <2>1, <2>2 DEF CheckAccount
<1>7. TypeOK'
  BY <1>1, <1>4, <1>6 DEF LoginInv, TypeOK
<1>8. Refills'
  <2>1. PICK k \in Nat :
          /\ made = PoolSize + k * PoolExtra
          /\ k + Len(mq) + before + (IF At("unit") THEN 1 ELSE 0) <= logins
    BY DEF LoginInv, Refills
  <2>2. before \in Nat /\ after \in Nat
    BY <1>2, <1>6, LoginsFinite
  <2> HIDE DEF before, after
  <2>3. /\ made' = PoolSize + k * PoolExtra
        /\ k + Len(mq') + after + (IF At("unit")' THEN 1 ELSE 0) <= logins'
    BY <1>1, <1>2, <1>4, <1>6, <2>1, <2>2 DEF At
  <2> QED
    BY <2>3 DEF Refills, after
<1>9. LogoutOnItsWay'
  <2>1. \A t \in Tokens, x \in Sessions : WillNotify(x, t) => WillNotify(x, t)'
    BY <1>1 DEF WillNotify
  <2> QED
    BY <1>1, <1>6, <2>1, LogoutStays
<1> QED
  BY <1>1, <1>6, <1>7, <1>8, <1>9, UnitsStay DEF LoginInv

-----------------------------------------------------------------------------
(* The game thread. *)

\* A job is taken: those behind it stay as they are.
LEMMA JobTaken ==
  ASSUME LoginInv, jobs # <<>>, jobs' = Tail(jobs), UNCHANGED misread
  PROVE  /\ Head(jobs) \in Jobs /\ OwnJob(Head(jobs))
         /\ jobs' \in Seq(Jobs) /\ JobsOwn'
         /\ \A t \in Tokens : Head(jobs) # LogoutOf(t) /\ LogoutQueued(t) => LogoutQueued(t)'
<1>1. jobs \in Seq(Jobs) /\ \A i \in 1 .. Len(jobs) : OwnJob(jobs[i])
  BY DEF LoginInv, TypeOK, JobsOwn
<1>2. /\ Head(jobs) \in Jobs /\ Head(jobs) = jobs[1] /\ 1 \in 1 .. Len(jobs)
      /\ jobs' \in Seq(Jobs)
      /\ \A i \in 1 .. Len(jobs') : i + 1 \in 1 .. Len(jobs) /\ jobs'[i] = jobs[i + 1]
      /\ \A i \in 1 .. Len(jobs) : i = 1 \/ (i - 1 \in 1 .. Len(jobs') /\ jobs'[i - 1] = jobs[i])
  BY <1>1, TailStep
<1>3. OwnJob(Head(jobs))
  BY <1>1, <1>2, Zenon
<1>4. ASSUME NEW i \in 1 .. Len(jobs')
      PROVE  jobs'[i].tok \in misread' \/ jobs'[i].acct \in {0, jobs'[i].tok}
  BY <1>1, <1>2 DEF OwnJob
<1>5. JobsOwn'
  BY <1>4 DEF JobsOwn, OwnJob
<1>6. ASSUME NEW t \in Tokens, Head(jobs) # LogoutOf(t), LogoutQueued(t)
      PROVE  LogoutQueued(t)'
  <2>1. PICK i \in 1 .. Len(jobs) : jobs[i] = LogoutOf(t)
    BY <1>6 DEF LogoutQueued
  <2>2. i # 1
    BY <1>2, <1>6, <2>1
  <2>3. i - 1 \in 1 .. Len(jobs') /\ jobs'[i - 1] = LogoutOf(t)
    BY <1>2, <2>1, <2>2
  <2> QED
    BY <2>3 DEF LogoutQueued, LogoutOf
<1> QED
  BY <1>2, <1>3, <1>5, <1>6

\* The result of a check is taken up, or dropped when nobody is found.
LEMMA TakeKeeps ==
  ASSUME LoginInv, TakeLogin
  PROVE  LoginInv'
<1>1. /\ game.pc = "drain" /\ jobs # <<>> /\ Head(jobs).kind = "login"
      /\ jobs' = Tail(jobs)
      /\ UNCHANGED <<phase, id, callback, conns, users, empty, made, sid, number, name,
                     byId, mq, logins, settled, late, crossed, misread>>
  BY DEF TakeLogin, sessionVars, unitVars, unitData
<1>2. /\ Head(jobs) \in Jobs /\ OwnJob(Head(jobs))
      /\ jobs' \in Seq(Jobs) /\ JobsOwn'
      /\ \A t \in Tokens : LogoutQueued(t) => LogoutQueued(t)'
  <2>1. \A t \in Tokens : Head(jobs) # LogoutOf(t)
    BY <1>1 DEF LogoutOf
  <2> QED
    BY <1>1, <2>1, JobTaken
<1>3. game' = game \/ \E s \in Sessions :
        game' = [pc |-> "unit", job |-> Head(jobs), s |-> s, u |-> 0]
  BY DEF TakeLogin, FindByToken
<1>4. /\ game' \in GameStates /\ game'.u = 0 /\ game'.pc \in {"drain", "unit"}
      /\ game'.pc = "unit" => game'.s \in Sessions
      /\ OwnJob(game'.job)
  <2>1. game \in GameStates /\ game.u = 0 /\ OwnJob(game.job)
    BY <1>1 DEF LoginInv, TypeOK, Index, GameUser, Numbers, Building, At
  <2>2. CASE game' = game
    BY <1>1, <2>1, <2>2
  <2>3. CASE game' # game
    <3>1. PICK s \in Sessions :
            game' = [pc |-> "unit", job |-> Head(jobs), s |-> s, u |-> 0]
      BY <1>3, <2>3
    <3> QED
      BY <1>2, <3>1 DEF GameStates, OptUnits
  <2> QED
    BY <2>2, <2>3
<1>5. TypeOK'
  BY <1>1, <1>2, <1>4 DEF LoginInv, TypeOK
<1>6. Refills'
  <2>1. PICK k \in Nat :
          /\ made = PoolSize + k * PoolExtra
          /\ k + Len(mq) + Cardinality(LoginsOf(jobs)) + (IF At("unit") THEN 1 ELSE 0)
               <= logins
    BY DEF LoginInv, Refills
  <2>2. jobs \in Seq(Jobs) /\ Len(mq) \in Nat /\ logins \in Nat
    BY BoundAssumption DEF LoginInv, TypeOK
  <2>3. /\ Cardinality(LoginsOf(jobs)) \in Nat /\ Cardinality(LoginsOf(jobs')) \in Nat
        /\ Cardinality(LoginsOf(jobs')) + 1 <= Cardinality(LoginsOf(jobs))
    BY <1>1, <1>2, <2>2, LoginsFinite, LoginsTail
  <2>4. ~At("unit")
    BY <1>1 DEF At
  <2>5. /\ made' = PoolSize + k * PoolExtra
        /\ k + Len(mq') + Cardinality(LoginsOf(jobs')) + (IF At("unit")' THEN 1 ELSE 0)
             <= logins'
    BY <1>1, <2>1, <2>2, <2>3, <2>4
  <2> QED
    BY <2>5 DEF Refills
<1>7. Stockroom' /\ IndexOfUsers'
  BY <1>1 DEF LoginInv, Stockroom, OneUnit, UnitsMade, Index, IndexOfUsers, InUse, IsFree
<1>8. GameUser'
  BY <1>4 DEF GameUser, At
<1>9. Numbers'
  <2>1. game.u = 0
    BY <1>1 DEF LoginInv, Index, GameUser, At
  <2>2. OwnAccount'
    BY <1>1, <1>4, <2>1 DEF LoginInv, Numbers, OwnAccount
  <2>3. Building'
    BY <1>1, <1>4 DEF Building, OwnJob, At
  <2> QED
    BY <2>2, <2>3 DEF Numbers
<1>10. LogoutOnItsWay'
  <2>1. \A t \in Tokens, x \in Sessions : WillNotify(x, t) => WillNotify(x, t)'
    BY <1>1 DEF WillNotify
  <2> QED
    BY <1>1, <1>2, <2>1, LogoutStays
<1> QED
  BY <1>2, <1>5, <1>6, <1>7, <1>8, <1>9, <1>10 DEF LoginInv, Index

\* ReleasePC of a unit in use: the last user takes its place, and the unit is free.
LEMMA ReleaseStep ==
  ASSUME LoginInv, NEW u \in Units, InUse(u), ReleasePC(u)
  PROVE  \E k \in 1 .. Len(users) :
           /\ users[k] = u
           /\ users' \in Seq(Units) /\ Len(users') = Len(users) - 1
           /\ \A i \in 1 .. Len(users') : users'[i] = IF i = k THEN users[Len(users)]
                                                      ELSE users[i]
           /\ empty' = Append(empty, u) /\ sid' = [sid EXCEPT ![u] = 0]
           /\ name' = [name EXCEPT ![u] = 0] /\ number' = number
<1> DEFINE n  == Len(users)
           at == {i \in 1 .. n : users[i] = u}
<1>1. PICK k \in 1 .. n : users[k] = u
  BY DEF InUse
<1>2. at = {k}
  BY <1>1 DEF LoginInv, Stockroom, OneUnit
<1> DEFINE first == CHOOSE i \in at : \A j \in at : i <= j
           g     == [users EXCEPT ![k] = users[n]]
<1>3. users \in Seq(Units) /\ n \in Nat \ {0} /\ k \in Nat /\ k <= n
  <2>1. users \in Seq(Units) /\ n \in Nat
    BY DEF LoginInv, TypeOK
  <2> QED
    BY <1>1, <2>1
<1>4. first = k
  <2>1. \E i \in at : \A j \in at : i <= j
    BY <1>2, <1>3
  <2> QED
    BY <1>2, <2>1
<1>5. /\ users' = SubSeq([users EXCEPT ![first] = users[n]], 1, n - 1)
      /\ empty' = Append(empty, u) /\ sid' = [sid EXCEPT ![u] = 0]
      /\ name' = [name EXCEPT ![u] = 0] /\ number' = number
  <2>1. at # {}
    BY <1>2
  <2>2. IF at = {} THEN UNCHANGED <<users, empty, unitData>>
        ELSE /\ users' = SubSeq([users EXCEPT ![first] = users[n]], 1, n - 1)
             /\ empty' = Append(empty, u)
             /\ sid' = [sid EXCEPT ![u] = 0] /\ name' = [name EXCEPT ![u] = 0]
             /\ UNCHANGED number
    BY Zenon DEF ReleasePC
  <2> HIDE DEF at, first
  <2> QED
    BY <2>1, <2>2
<1>6. users' = SubSeq(g, 1, n - 1)
  BY <1>4, <1>5
<1> HIDE DEF first
<1>7. users[n] \in Units
  BY <1>3, ElementOfSeq
<1>8. /\ g \in Seq(Units) /\ Len(g) = n
      /\ \A j \in 1 .. n : g[j] = IF j = k THEN users[n] ELSE users[j]
  BY <1>1, <1>3, <1>7, ExceptSeq
<1> HIDE DEF g
<1>9. \A i \in 1 .. n - 1 : g[i] \in Units /\ i \in 1 .. n
  BY <1>3, <1>8, ElementOfSeq
<1>10. /\ users' \in Seq(Units) /\ Len(users') = n - 1
       /\ \A i \in 1 .. n - 1 : users'[i] = g[i]
  <2>1. 1 \in Int /\ n - 1 \in Int
    BY <1>3
  <2>2. /\ SubSeq(g, 1, n - 1) \in Seq(Units)
        /\ Len(SubSeq(g, 1, n - 1)) = IF 1 <= n - 1 THEN (n - 1) - 1 + 1 ELSE 0
        /\ \A i \in 1 .. (n - 1) - 1 + 1 : SubSeq(g, 1, n - 1)[i] = g[1 + i - 1]
    BY <1>9, <2>1, SubSeqProperties
  <2> DEFINE h == SubSeq(g, 1, n - 1)
  <2> HIDE DEF h, n
  <2>3. /\ Len(h) = IF 1 <= n - 1 THEN (n - 1) - 1 + 1 ELSE 0
        /\ \A i \in 1 .. (n - 1) - 1 + 1 : h[i] = g[1 + i - 1]
    BY <2>2 DEF h
  <2>4. Len(h) = n - 1 /\ \A i \in 1 .. n - 1 : h[i] = g[i]
    BY <1>3, <2>3
  <2> QED
    BY <1>6, <2>2, <2>4 DEF h
<1> QED
  BY <1>1, <1>5, <1>8, <1>9, <1>10

\* What is in use and what is free after ReleasePC.
LEMMA ReleaseUses ==
  ASSUME LoginInv, NEW u \in Units, InUse(u), ReleasePC(u), made' = made
  PROVE  /\ users' \in Seq(Units) /\ empty' \in Seq(Units)
         /\ sid' \in [Units -> OptTokens] /\ name' \in [Units -> OptTokens]
         /\ number' = number
         /\ sid'[u] = 0
         /\ \A v \in Units : v # u => sid'[v] = sid[v] /\ name'[v] = name[v]
         /\ \A v \in Units : InUse(v)' <=> InUse(v) /\ v # u
         /\ \A i \in 1 .. Len(users') : \E j \in 1 .. Len(users) :
              users'[i] = users[j] /\ users[j] # u
         /\ Stockroom'
<1>1. PICK k \in 1 .. Len(users) :
        /\ users[k] = u
        /\ users' \in Seq(Units) /\ Len(users') = Len(users) - 1
        /\ \A i \in 1 .. Len(users') : users'[i] = IF i = k THEN users[Len(users)]
                                                   ELSE users[i]
        /\ empty' = Append(empty, u) /\ sid' = [sid EXCEPT ![u] = 0]
        /\ name' = [name EXCEPT ![u] = 0] /\ number' = number
  BY ReleaseStep
<1>2. /\ users \in Seq(Units) /\ empty \in Seq(Units) /\ Len(users) \in Nat
      /\ sid \in [Units -> OptTokens] /\ name \in [Units -> OptTokens] /\ 0 \in OptTokens
  BY BoundAssumption DEF LoginInv, TypeOK, OptTokens
<1>3. OneUnit /\ UnitsMade
  BY DEF LoginInv, Stockroom
<1>4. /\ \A i, j \in 1 .. Len(users) : users[i] = users[j] => i = j
      /\ \A i, j \in 1 .. Len(empty) : empty[i] = empty[j] => i = j
      /\ \A v \in Units : IsFree(v) => ~InUse(v)
  BY <1>3 DEF OneUnit
<1>5. /\ empty' \in Seq(Units) /\ Len(empty) \in Nat /\ Len(empty') = Len(empty) + 1
      /\ \A i \in 1 .. Len(empty) : empty'[i] = empty[i]
      /\ empty'[Len(empty) + 1] = u
      /\ \A i \in 1 .. Len(empty') : i \in 1 .. Len(empty) \/ i = Len(empty) + 1
  BY <1>1, <1>2, AppendStep
\* Place i of the new m_Users holds what place From(i) of the old one held.
<1> DEFINE From(i) == IF i = k THEN Len(users) ELSE i
<1>6. /\ \A i \in 1 .. Len(users') : /\ From(i) \in 1 .. Len(users) /\ From(i) # k
                                     /\ users'[i] = users[From(i)]
      /\ \A i, j \in 1 .. Len(users') : From(i) = From(j) => i = j
      /\ \A j \in 1 .. Len(users) : j # k =>
           \E i \in 1 .. Len(users') : From(i) = j
  <2>1. \A i \in 1 .. Len(users') : i \in Nat /\ i < Len(users) /\ i >= 1
    BY <1>1, <1>2
  <2>2. ASSUME NEW j \in 1 .. Len(users), j # k
        PROVE  \E i \in 1 .. Len(users') : From(i) = j
    <3>1. CASE j = Len(users)
      <4>1. k \in 1 .. Len(users') /\ From(k) = j
        BY <1>1, <1>2, <2>2, <3>1
      <4> QED
        BY <4>1
    <3>2. CASE j # Len(users)
      <4>1. j \in 1 .. Len(users') /\ From(j) = j
        BY <1>1, <1>2, <2>2, <3>2
      <4> QED
        BY <4>1
    <3> QED
      BY <3>1, <3>2
  <2> QED
    BY <1>1, <1>2, <2>1, <2>2
<1> HIDE DEF From
<1>7. \A i \in 1 .. Len(users') : \E j \in 1 .. Len(users) :
        users'[i] = users[j] /\ users[j] # u
  BY <1>1, <1>4, <1>6
<1>8. ASSUME NEW v \in Units
      PROVE  InUse(v)' <=> InUse(v) /\ v # u
  <2>1. InUse(v)' => InUse(v) /\ v # u
    BY <1>7 DEF InUse
  <2>2. ASSUME InUse(v), v # u PROVE InUse(v)'
    <3>1. PICK j \in 1 .. Len(users) : users[j] = v
      BY <2>2 DEF InUse
    <3>2. PICK i \in 1 .. Len(users') : From(i) = j
      BY <1>1, <1>6, <2>2, <3>1
    <3> QED
      BY <1>6, <3>1, <3>2 DEF InUse
  <2> QED
    BY <2>1, <2>2
<1>9. OneUnit'
  <2>1. \A i, j \in 1 .. Len(users') : users'[i] = users'[j] => i = j
    BY <1>4, <1>6
  <2>2. ~IsFree(u)
    BY <1>1, <1>4 DEF InUse
  <2>3. \A i, j \in 1 .. Len(empty') : empty'[i] = empty'[j] => i = j
    BY <1>4, <1>5, <2>2 DEF IsFree
  <2>4. ASSUME NEW v \in Units, IsFree(v)'
        PROVE  ~InUse(v)'
    <3>1. IsFree(v) \/ v = u
      BY <1>5, <2>4 DEF IsFree
    <3> QED
      BY <1>4, <1>8, <3>1
  <2> QED
    BY <2>1, <2>3, <2>4 DEF OneUnit
<1>10. UnitsMade'
  BY <1>1, <1>3, <1>5, <1>7 DEF UnitsMade
<1>11. \A v \in Units : v # u => sid'[v] = sid[v] /\ name'[v] = name[v]
  BY <1>1, <1>2
<1>12. sid' \in [Units -> OptTokens] /\ name' \in [Units -> OptTokens] /\ sid'[u] = 0
  BY <1>1, <1>2
<1> QED
  BY <1>1, <1>5, <1>7, <1>8, <1>9, <1>10, <1>11, <1>12 DEF Stockroom

\* Logout: the index forgets the token, and its unit, which no other token has, is
\* given back.
LEMMA LogoutKeeps ==
  ASSUME LoginInv, Logout
  PROVE  LoginInv'
<1> DEFINE t == Head(jobs).tok
<1>1. /\ game.pc = "drain" /\ jobs # <<>> /\ Head(jobs).kind = "logout"
      /\ jobs' = Tail(jobs)
      /\ UNCHANGED <<phase, id, callback, conns, mq, game, logins, settled, late, crossed,
                     misread>>
  BY DEF Logout, sessionVars
<1>2. IF byId[t] = 0 THEN UNCHANGED unitVars
      ELSE byId' = [byId EXCEPT ![t] = 0] /\ ReleasePC(byId[t]) /\ UNCHANGED made
  BY DEF Logout
<1>3. /\ Head(jobs) \in Jobs
      /\ jobs' \in Seq(Jobs) /\ JobsOwn'
      /\ \A v \in Tokens : v # t /\ LogoutQueued(v) => LogoutQueued(v)'
  <2>1. \A v \in Tokens : v # t => Head(jobs) # LogoutOf(v)
    BY DEF LogoutOf
  <2> QED
    BY <1>1, <2>1, JobTaken
<1>4. t \in OptTokens
  BY <1>3 DEF Jobs
<1> HIDE DEF t
<1>5. /\ byId \in [OptTokens -> OptUnits] /\ game.u = 0 /\ game \in GameStates
      /\ IndexOfUsers /\ Stockroom /\ OwnAccount
  BY <1>1 DEF LoginInv, TypeOK, Index, GameUser, At, Numbers
<1>6. /\ byId' \in [OptTokens -> OptUnits] /\ byId'[t] = 0
      /\ \A v \in OptTokens : v # t => byId'[v] = byId[v]
      /\ users' \in Seq(Units) /\ empty' \in Seq(Units) /\ made' = made
      /\ sid' \in [Units -> OptTokens] /\ name' \in [Units -> OptTokens]
      /\ number' = number
      /\ Stockroom' /\ IndexOfUsers' /\ OwnAccount'
  <2>1. CASE byId[t] = 0
    <3>1. UNCHANGED <<users, empty, made, sid, number, name, byId>>
      BY <1>2, <2>1 DEF unitVars, unitData
    <3>2. /\ users \in Seq(Units) /\ empty \in Seq(Units)
          /\ sid \in [Units -> OptTokens] /\ name \in [Units -> OptTokens]
      BY DEF LoginInv, TypeOK
    <3>3. Stockroom'
      BY <1>5, <3>1 DEF Stockroom, OneUnit, UnitsMade, InUse, IsFree
    <3>4. IndexOfUsers'
      BY <1>5, <3>1 DEF IndexOfUsers, InUse
    <3>5. OwnAccount'
      BY <1>1, <1>5, <3>1 DEF OwnAccount
    <3> QED
      BY <1>5, <2>1, <3>1, <3>2, <3>3, <3>4, <3>5
  <2>2. CASE byId[t] # 0
    <3> DEFINE u == byId[t]
    <3>1. u \in Units /\ InUse(u)
      BY <1>4, <1>5, <2>2 DEF OptUnits, IndexOfUsers
    <3>2. byId' = [byId EXCEPT ![t] = 0] /\ ReleasePC(u) /\ made' = made
      BY <1>2, <2>2
    <3>3. byId' \in [OptTokens -> OptUnits] /\ byId'[t] = 0
          /\ \A v \in OptTokens : v # t => byId'[v] = byId[v]
      BY <1>4, <1>5, <3>2 DEF OptUnits
    <3>4. \A v \in OptTokens : v # t => byId[v] # u
      BY <1>4, <1>5, <2>2 DEF IndexOfUsers
    <3> HIDE DEF u
    <3>5. /\ users' \in Seq(Units) /\ empty' \in Seq(Units)
          /\ sid' \in [Units -> OptTokens] /\ name' \in [Units -> OptTokens]
          /\ number' = number
          /\ \A v \in Units : v # u => sid'[v] = sid[v] /\ name'[v] = name[v]
          /\ \A v \in Units : InUse(v)' <=> InUse(v) /\ v # u
          /\ \A i \in 1 .. Len(users') : \E j \in 1 .. Len(users) :
               users'[i] = users[j] /\ users[j] # u
          /\ Stockroom'
      BY <3>1, <3>2, ReleaseUses
    <3>6. IndexOfUsers'
      <4>1. ASSUME NEW v \in OptTokens, NEW w, w = byId'[v], w # 0
            PROVE  InUse(w)'
        <5>1. v # t /\ w = byId[v]
          BY <3>3, <4>1
        <5>2. w \in Units /\ InUse(w) /\ w # u
          BY <1>5, <3>4, <4>1, <5>1 DEF IndexOfUsers, OptUnits
        <5> QED
          BY <3>5, <5>2
      <4>2. ASSUME NEW v \in OptTokens, NEW w \in OptTokens,
                   byId'[v] = byId'[w], byId'[v] # 0
            PROVE  v = w
        <5>1. byId'[v] = byId[v] /\ byId'[w] = byId[w]
          BY <3>3, <4>2
        <5> QED
          BY <1>5, <4>2, <5>1 DEF IndexOfUsers
      <4> QED
        BY <4>1, <4>2 DEF IndexOfUsers, InUse
    <3>7. OwnAccount'
      <4>1. ASSUME NEW i \in 1 .. Len(users'), NEW v, v = users'[i],
                   sid'[v] \notin crossed \cup misread \cup {0}
            PROVE  name'[v] = sid'[v] /\ number'[v] \in {0, sid'[v]}
        <5>1. PICK j \in 1 .. Len(users) : v = users[j] /\ v # u
          BY <3>5, <4>1
        <5>2. v \in Units
          BY <5>1, ElementOfSeq DEF LoginInv, TypeOK
        <5>3. sid'[v] = sid[v] /\ name'[v] = name[v] /\ number' = number
          BY <3>5, <5>1, <5>2
        <5>4. game.u # v
          BY <1>5, <5>2 DEF Units
        <5> QED
          BY <1>5, <4>1, <5>1, <5>3, <5>4 DEF OwnAccount
      <4> QED
        BY <1>1, <4>1 DEF OwnAccount
    <3> QED
      BY <3>2, <3>3, <3>5, <3>6, <3>7
  <2> QED
    BY <2>1, <2>2
<1>7. TypeOK'
  BY <1>1, <1>3, <1>6 DEF LoginInv, TypeOK
<1>8. Refills'
  <2>1. PICK k \in Nat :
          /\ made = PoolSize + k * PoolExtra
          /\ k + Len(mq) + Cardinality(LoginsOf(jobs)) + (IF At("unit") THEN 1 ELSE 0)
               <= logins
    BY DEF LoginInv, Refills
  <2>2. jobs \in Seq(Jobs) /\ Len(mq) \in Nat /\ logins \in Nat
    BY BoundAssumption DEF LoginInv, TypeOK
  <2>3. /\ Cardinality(LoginsOf(jobs)) \in Nat /\ Cardinality(LoginsOf(jobs')) \in Nat
        /\ Cardinality(LoginsOf(jobs')) <= Cardinality(LoginsOf(jobs))
    <3>1. Cardinality(LoginsOf(jobs)) \in Nat /\ Cardinality(LoginsOf(jobs')) \in Nat
      BY <1>3, <2>2, LoginsFinite
    <3>2. Cardinality(LoginsOf(jobs')) + (IF Head(jobs).kind = "login" THEN 1 ELSE 0)
            <= Cardinality(LoginsOf(jobs))
      BY <1>1, <2>2, LoginsTail
    <3> QED
      BY <1>1, <3>1, <3>2
  <2>4. /\ made' = PoolSize + k * PoolExtra
        /\ k + Len(mq') + Cardinality(LoginsOf(jobs')) + (IF At("unit")' THEN 1 ELSE 0)
             <= logins'
    BY <1>1, <1>6, <2>1, <2>2, <2>3 DEF At
  <2> QED
    BY <2>4 DEF Refills
<1>9. GameUser' /\ Building'
  BY <1>1, <1>5 DEF LoginInv, Index, Numbers, GameUser, Building, OwnJob, At
<1>10. LogoutOnItsWay'
  <2>1. \A v \in Tokens, x \in Sessions : WillNotify(x, v)' <=> WillNotify(x, v)
    BY <1>1 DEF WillNotify
  <2>2. \A v \in Tokens : byId'[v] # 0 => v # t /\ byId[v] # 0
    BY <1>6 DEF Tokens, OptTokens
  <2>3. ASSUME NEW v \in Tokens, byId'[v] # 0, v \notin late'
        PROVE  LogoutQueued(v)' \/ \E s \in Sessions : WillNotify(s, v)'
    <3>1. LogoutQueued(v) \/ \E s \in Sessions : WillNotify(s, v)
      BY <1>1, <2>2, <2>3 DEF LoginInv, LogoutOnItsWay
    <3> QED
      BY <1>3, <2>1, <2>2, <2>3, <3>1
  <2> QED
    BY <2>3 DEF LogoutOnItsWay
<1> QED
  BY <1>3, <1>6, <1>7, <1>8, <1>9, <1>10 DEF LoginInv, Index, Numbers

\* Units are numbered from 1.
LEMMA UnitFacts == \A u \in Units : u \in Nat /\ u # 0
BY DEF Units

\* m_EmptyUnits as GetEmptyPC finds it: none of its units is in use or twice in it.
LEMMA StockStep ==
  ASSUME LoginInv, At("unit"), NEW more, more = IF empty = <<>> THEN PoolExtra ELSE 0
  PROVE  /\ Stock \in Seq(Units) /\ Len(Stock) \in Nat \ {0}
         /\ made + more \in {0} \cup Units /\ made \in Nat /\ made + more >= made
         /\ \E k \in Nat : /\ made + more = PoolSize + k * PoolExtra
                           /\ k + Len(mq) + Cardinality(LoginsOf(jobs)) <= logins
         /\ \A i \in 1 .. Len(Stock) : Stock[i] <= made + more /\ ~InUse(Stock[i])
         /\ \A i, j \in 1 .. Len(Stock) : Stock[i] = Stock[j] => i = j
<1>1. PICK k \in Nat :
        /\ made = PoolSize + k * PoolExtra
        /\ k + Len(mq) + Cardinality(LoginsOf(jobs)) + (IF At("unit") THEN 1 ELSE 0)
             <= logins
  BY DEF LoginInv, Refills
<1>2. /\ PoolSize \in Nat /\ PoolExtra \in Nat \ {0} /\ MaxLogins \in Nat
      /\ logins \in 0 .. MaxLogins /\ Len(mq) \in Nat /\ empty \in Seq(Units)
      /\ users \in Seq(Units) /\ jobs \in Seq(Jobs)
  BY BoundAssumption DEF LoginInv, TypeOK
<1>3. Cardinality(LoginsOf(jobs)) \in Nat
  BY <1>2, LoginsFinite
<1>4. k + 1 + Len(mq) + Cardinality(LoginsOf(jobs)) <= logins
  BY <1>1, <1>2, <1>3
<1>5. k + 1 <= MaxLogins
  BY <1>2, <1>3, <1>4
<1>6. /\ (k + 1) * PoolExtra = k * PoolExtra + PoolExtra /\ k * PoolExtra \in Nat
      /\ (k + 1) * PoolExtra <= MaxLogins * PoolExtra /\ MaxLogins * PoolExtra \in Nat
  BY <1>2, <1>5
<1>7. made \in Nat /\ \A m \in 1 .. PoolExtra : made + m \in Units
  BY <1>1, <1>2, <1>6 DEF Units
<1>8. OneUnit /\ UnitsMade
  BY DEF LoginInv, Stockroom
<1>9. CASE empty # <<>>
  <2>1. Stock = empty /\ more = 0
    BY <1>9 DEF Stock
  <2>2. Len(empty) \in Nat \ {0}
    BY <1>2, <1>9, EmptySeq
  <2>3. \A i \in 1 .. Len(empty) : empty[i] \in Units /\ IsFree(empty[i])
    BY <1>2, ElementOfSeq DEF IsFree
  <2>4. \A i \in 1 .. Len(empty) : empty[i] <= made /\ ~InUse(empty[i])
    BY <1>8, <2>3 DEF OneUnit, UnitsMade
  <2>5. made \in {0} \cup Units
    BY DEF LoginInv, TypeOK
  <2>6. k + Len(mq) + Cardinality(LoginsOf(jobs)) <= logins
    BY <1>2, <1>3, <1>4
  <2> QED
    BY <1>1, <1>2, <1>7, <1>8, <2>1, <2>2, <2>4, <2>5, <2>6 DEF OneUnit
<1>10. CASE empty = <<>>
  <2>1. Stock = [i \in 1 .. PoolExtra |-> made + i] /\ more = PoolExtra
    BY <1>10 DEF Stock
  <2>2. Stock \in [1 .. PoolExtra -> Units]
    BY <1>7, <2>1
  <2>3. Stock \in Seq(Units) /\ Len(Stock) = PoolExtra
    BY <1>2, <2>2
  <2>4. \A i \in 1 .. PoolExtra : Stock[i] = made + i
    BY <2>1
  <2>5. \A i \in 1 .. Len(users) : users[i] \in Nat /\ users[i] <= made
    BY <1>2, <1>8, ElementOfSeq DEF UnitsMade, Units
  <2>6. \A i \in 1 .. PoolExtra : Stock[i] <= made + more /\ ~InUse(Stock[i])
    BY <1>2, <1>7, <2>1, <2>4, <2>5 DEF InUse
  <2>7. \A i, j \in 1 .. PoolExtra : Stock[i] = Stock[j] => i = j
    BY <1>2, <1>7, <2>4
  <2>8. made + more = PoolSize + (k + 1) * PoolExtra /\ k + 1 \in Nat
    BY <1>1, <1>2, <1>6, <2>1
  <2>9. made + more \in Units /\ made + more >= made
    <3>1. PoolExtra \in 1 .. PoolExtra
      BY <1>2
    <3>2. made + PoolExtra \in Units
      BY <1>7, <3>1
    <3> QED
      BY <1>2, <1>7, <2>1, <3>2
  <2>10. \E m \in Nat : /\ made + more = PoolSize + m * PoolExtra
                        /\ m + Len(mq) + Cardinality(LoginsOf(jobs)) <= logins
    BY <1>4, <2>8
  <2> QED
    BY <1>2, <1>7, <2>3, <2>6, <2>7, <2>9, <2>10
<1> QED
  BY <1>9, <1>10

\* A step of the login under way: what its new record holds.
LEMMA GameStepTypes ==
  ASSUME LoginInv, NEW pc \in {"unit", "session", "number", "index", "reply"},
         game' = [game EXCEPT !.pc = pc]
  PROVE  /\ game' \in GameStates /\ game'.pc = pc /\ game'.job = game.job
         /\ game'.s = game.s /\ game'.u = game.u
<1>1. game \in GameStates
  BY DEF LoginInv, TypeOK
<1> QED
  BY <1>1 DEF GameStates

\* GetEmptyPC: a unit nobody has becomes the user's; the rest stays free.
LEMMA UnitKeeps ==
  ASSUME LoginInv, LoginUnit
  PROVE  LoginInv'
<1> DEFINE n    == Len(Stock)
           more == IF empty = <<>> THEN PoolExtra ELSE 0
<1>0. PICK u : u = Stock[n]
  OBVIOUS
<1>1. /\ At("unit") /\ empty' = SubSeq(Stock, 1, n - 1) /\ users' = Append(users, u)
      /\ \E found \in Found(game.job.tok) :
           name' = [name EXCEPT ![u] = found] /\ Reads(game.job.tok, found)
      /\ game' = [game EXCEPT !.pc = "session", !.u = u] /\ made' = made + more
      /\ UNCHANGED <<phase, id, callback, conns, sid, number, byId, mq, jobs, logins,
                     settled, late, crossed>>
  BY <1>0 DEF LoginUnit, LoginUser, sessionVars
<1>2. /\ Stock \in Seq(Units) /\ n \in Nat \ {0}
      /\ made + more \in {0} \cup Units /\ made \in Nat /\ made + more >= made
      /\ \E k \in Nat : /\ made + more = PoolSize + k * PoolExtra
                        /\ k + Len(mq) + Cardinality(LoginsOf(jobs)) <= logins
      /\ \A i \in 1 .. n : Stock[i] <= made + more /\ ~InUse(Stock[i])
      /\ \A i, j \in 1 .. n : Stock[i] = Stock[j] => i = j
  BY <1>1, StockStep
<1> HIDE DEF more
<1>3. \A i \in 1 .. n : Stock[i] \in Units
  BY <1>2, ElementOfSeq
<1>4. n \in 1 .. n /\ u \in Units /\ ~InUse(u) /\ u <= made + more
  <2>1. n \in 1 .. n
    BY <1>2
  <2> QED
    BY <1>0, <1>2, <1>3, <2>1
<1>5. /\ empty' \in Seq(Units) /\ Len(empty') = n - 1
      /\ \A i \in 1 .. n - 1 : empty'[i] = Stock[i] /\ i \in 1 .. n
  <2>1. 1 \in Int /\ n - 1 \in Int /\ \A i \in 1 .. n - 1 : i \in 1 .. n
    BY <1>2
  <2> DEFINE e == SubSeq(Stock, 1, n - 1)
  <2>2. /\ e \in Seq(Units)
        /\ Len(e) = IF 1 <= n - 1 THEN (n - 1) - 1 + 1 ELSE 0
        /\ \A i \in 1 .. (n - 1) - 1 + 1 : e[i] = Stock[1 + i - 1]
    BY <1>3, <2>1, SubSeqProperties
  <2>3. empty' = e
    BY <1>1
  <2> HIDE DEF e, n
  <2>4. Len(e) = n - 1 /\ \A i \in 1 .. n - 1 : e[i] = Stock[i]
    BY <1>2, <2>2
  <2> QED
    BY <2>1, <2>2, <2>3, <2>4
<1> HIDE DEF n
<1>6. users \in Seq(Units) /\ game \in GameStates /\ name \in [Units -> OptTokens]
      /\ game.job \in Jobs /\ game.job.tok \in OptTokens
  BY DEF LoginInv, TypeOK, GameStates, Jobs
<1>7. /\ users' \in Seq(Units) /\ Len(users) \in Nat /\ Len(users') = Len(users) + 1
      /\ \A i \in 1 .. Len(users) : users'[i] = users[i] /\ i \in 1 .. Len(users')
      /\ users'[Len(users) + 1] = u /\ Len(users) + 1 \in 1 .. Len(users')
      /\ \A i \in 1 .. Len(users') : i \in 1 .. Len(users) \/ i = Len(users) + 1
  BY <1>1, <1>4, <1>6, AppendStep
<1>8. \A v : InUse(v)' <=> InUse(v) \/ v = u
  BY <1>7 DEF InUse
<1>9. /\ game' \in GameStates /\ game'.pc = "session" /\ game'.u = u
      /\ game'.s = game.s /\ game'.job = game.job
  BY <1>1, <1>4, <1>6 DEF GameStates, OptUnits
<1>10. PICK found \in Found(game.job.tok) :
         name' = [name EXCEPT ![u] = found] /\ Reads(game.job.tok, found)
  BY <1>1
<1>11. /\ found \in OptTokens
       /\ misread' \subseteq OptTokens /\ misread \subseteq misread'
       /\ game.job.tok \in misread' \/ found = game.job.tok
  BY <1>6, <1>10, FoundFacts
<1>12. /\ name' \in [Units -> OptTokens] /\ name'[u] = found
       /\ \A v \in Units : v # u => name'[v] = name[v]
  BY <1>4, <1>6, <1>10, <1>11
<1>13. TypeOK'
  BY <1>1, <1>2, <1>5, <1>7, <1>9, <1>11, <1>12 DEF LoginInv, TypeOK
<1>14. Refills'
  <2>1. PICK k \in Nat : /\ made + more = PoolSize + k * PoolExtra
                         /\ k + Len(mq) + Cardinality(LoginsOf(jobs)) <= logins
    BY <1>2
  <2>2. Len(mq) \in Nat /\ jobs \in Seq(Jobs)
    BY DEF LoginInv, TypeOK
  <2>3. Cardinality(LoginsOf(jobs)) \in Nat
    BY <2>2, LoginsFinite
  <2>4. k + Len(mq) + Cardinality(LoginsOf(jobs)) + 0 <= logins
    BY <2>1, <2>2, <2>3
  <2>5. ~At("unit")'
    BY <1>9 DEF At
  <2>6. /\ made' = PoolSize + k * PoolExtra
        /\ k + Len(mq') + Cardinality(LoginsOf(jobs')) + (IF At("unit")' THEN 1 ELSE 0)
             <= logins'
    BY <1>1, <2>1, <2>4, <2>5
  <2> QED
    BY <2>6 DEF Refills
<1>15. OneUnit'
  <2>1. \A i, j \in 1 .. Len(users') : users'[i] = users'[j] => i = j
    BY <1>4, <1>7 DEF LoginInv, Stockroom, OneUnit, InUse
  <2>2. \A i, j \in 1 .. Len(empty') : empty'[i] = empty'[j] => i = j
    BY <1>2, <1>5
  <2>3. ASSUME NEW i \in 1 .. Len(empty'), NEW v, v = empty'[i]
        PROVE  ~InUse(v)'
    <3>1. i \in 1 .. n /\ i \in 1 .. n - 1 /\ i # n /\ v = Stock[i]
      BY <1>2, <1>5, <2>3
    <3>2. v # u
      BY <1>0, <1>2, <1>4, <3>1
    <3> QED
      BY <1>2, <1>8, <3>1, <3>2
  <2> QED
    BY <2>1, <2>2, <2>3 DEF OneUnit, IsFree
<1>16. UnitsMade'
  <2>1. \A i \in 1 .. Len(users) : users[i] <= made /\ users[i] \in Nat
    <3>1. \A i \in 1 .. Len(users) : users[i] \in Units
      BY <1>6, ElementOfSeq
    <3> QED
      BY <3>1, UnitFacts DEF LoginInv, Stockroom, UnitsMade
  <2>2. made + more \in Nat
    BY <1>2, UnitFacts
  <2>3. \A i \in 1 .. Len(users') : users'[i] <= made + more
    BY <1>2, <1>4, <1>7, <2>1, <2>2
  <2>4. \A i \in 1 .. Len(empty') : empty'[i] <= made + more
    BY <1>2, <1>5
  <2> QED
    BY <1>1, <2>3, <2>4 DEF UnitsMade
<1>17. IndexOfUsers'
  <2>1. byId' = byId /\ IndexOfUsers
    BY <1>1 DEF LoginInv, Index
  <2>2. ASSUME NEW t \in OptTokens, NEW v, v = byId[t], v # 0
        PROVE  InUse(v)'
    BY <1>8, <2>1, <2>2 DEF IndexOfUsers
  <2> QED
    BY <2>1, <2>2 DEF IndexOfUsers, InUse
<1>18. GameUser'
  <2>1. byId' = byId /\ byId \in [OptTokens -> OptUnits] /\ game.s \in Sessions
    BY <1>1 DEF LoginInv, TypeOK, Index, GameUser, At
  <2>2. u # 0
    BY <1>4, UnitFacts
  <2>3. \A t \in OptTokens : byId[t] # u
    BY <1>4, <2>2 DEF LoginInv, Index, IndexOfUsers
  <2>4. InUse(u)'
    BY <1>8
  <2> QED
    BY <1>9, <2>1, <2>2, <2>3, <2>4 DEF GameUser, At, InUse
<1>19. OwnAccount'
  <2>1. game.u = 0
    BY <1>1 DEF LoginInv, Index, GameUser
  <2>2. ASSUME NEW i \in 1 .. Len(users'), NEW v, v = users'[i], v # u,
               sid[v] \notin crossed \cup misread \cup {0}
        PROVE  name'[v] = sid[v] /\ number[v] \in {0, sid[v]}
    <3>1. i \in 1 .. Len(users) /\ v = users[i]
      BY <1>7, <2>2
    <3>2. v \in Units
      BY <1>6, <3>1, ElementOfSeq
    <3>3. name'[v] = name[v]
      BY <1>12, <2>2, <3>2
    <3>4. v # 0
      BY <3>2, UnitFacts
    <3> QED
      BY <2>1, <2>2, <3>1, <3>3, <3>4 DEF LoginInv, Numbers, OwnAccount
  <2> QED
    BY <1>1, <1>9, <1>11, <2>2 DEF OwnAccount
<1>20. Building'
  <2>1. OwnJob(game.job)
    BY DEF LoginInv, Numbers, Building
  <2> QED
    BY <1>9, <1>11, <1>12, <2>1 DEF Building, OwnJob, At
<1>21. JobsOwn' /\ LogoutOnItsWay'
  BY <1>1, <1>11 DEF LoginInv, JobsOwn, OwnJob, LogoutOnItsWay, LogoutQueued, WillNotify
<1> QED
  BY <1>13, <1>14, <1>15, <1>16, <1>17, <1>18, <1>19, <1>20, <1>21
  DEF LoginInv, Stockroom, Index, Numbers

\* What the later steps of a login leave alone.
LEMMA LaterSteps ==
  ASSUME LoginInv, ~At("unit"), ~At("unit")',
         UNCHANGED <<users, empty, made, mq, jobs, logins, misread>>
  PROVE  Stockroom' /\ Refills' /\ JobsOwn'
<1>1. /\ users' = users /\ empty' = empty /\ made' = made /\ mq' = mq /\ jobs' = jobs
      /\ logins' = logins /\ misread' = misread
  OBVIOUS
<1>2. Stockroom'
  BY <1>1 DEF LoginInv, Stockroom, OneUnit, UnitsMade, InUse, IsFree
<1>3. Refills'
  BY <1>1 DEF LoginInv, Refills, LoginsOf
<1>4. JobsOwn'
  BY <1>1 DEF LoginInv, JobsOwn, OwnJob
<1> QED
  BY <1>2, <1>3, <1>4

\* The unit and the object of the login under way.
LEMMA GameFacts ==
  ASSUME LoginInv, NEW u, u = game.u, At("session") \/ At("number") \/ At("index")
  PROVE  /\ u \in Units /\ u # 0 /\ InUse(u) /\ game.s \in Sessions
         /\ game.job \in Jobs /\ game.job.tok \in OptTokens /\ game.job.acct \in OptTokens
         /\ \A t \in OptTokens : byId[t] # u
<1>1. game \in GameStates
  BY DEF LoginInv, TypeOK
<1>2. u # 0 /\ InUse(u) /\ game.s \in Sessions /\ \A t \in OptTokens : byId[t] # u
  BY DEF LoginInv, Index, GameUser, At
<1> QED
  BY <1>1, <1>2 DEF GameStates, Jobs, OptUnits

\* SetSessionId: a token of another connection is one crossed.
LEMMA SessionKeeps ==
  ASSUME LoginInv, LoginSession
  PROVE  LoginInv'
<1>1. PICK u, t : u = game.u /\ t = id[game.s]
  OBVIOUS
<1>2. /\ At("session") /\ game' = [game EXCEPT !.pc = "number"]
      /\ sid' = [sid EXCEPT ![u] = t]
      /\ crossed' = IF t = game.job.tok THEN crossed ELSE crossed \cup {t}
      /\ UNCHANGED <<phase, id, callback, conns, users, empty, made, number, name, byId,
                     mq, jobs, logins, settled, late, misread>>
  BY <1>1 DEF LoginSession, Then, sessionVars
<1>3. /\ u \in Units /\ u # 0 /\ InUse(u) /\ game.s \in Sessions
      /\ game.job \in Jobs /\ game.job.tok \in OptTokens
  BY <1>1, <1>2, GameFacts
<1>4. /\ game' \in GameStates /\ game'.pc = "number" /\ game'.job = game.job
      /\ game'.s = game.s /\ game'.u = u
  BY <1>1, <1>2, GameStepTypes
<1>5. /\ t \in OptTokens /\ sid \in [Units -> OptTokens] /\ crossed \subseteq OptTokens
      /\ users \in Seq(Units)
  BY <1>1, <1>3 DEF LoginInv, TypeOK
<1>6. /\ sid' \in [Units -> OptTokens] /\ sid'[u] = t
      /\ \A v \in Units : v # u => sid'[v] = sid[v]
  BY <1>2, <1>3, <1>5
<1>7. crossed' \subseteq OptTokens /\ crossed \subseteq crossed'
      /\ t \in crossed' \cup {game.job.tok}
  BY <1>2, <1>5
<1>8. TypeOK'
  BY <1>2, <1>4, <1>6, <1>7 DEF LoginInv, TypeOK
<1>9. Stockroom' /\ Refills' /\ JobsOwn'
  BY <1>2, <1>4, LaterSteps DEF At
<1>10. Index'
  <2>1. IndexOfUsers'
    BY <1>2 DEF LoginInv, Index, IndexOfUsers, InUse
  <2>2. GameUser'
    BY <1>1, <1>2, <1>3, <1>4 DEF LoginInv, Index, GameUser, InUse, At
  <2> QED
    BY <2>1, <2>2 DEF Index
<1>11. OwnAccount'
  <2>1. ASSUME NEW i \in 1 .. Len(users), NEW v, v = users[i], v # u,
               sid'[v] \notin crossed' \cup misread \cup {0}
        PROVE  name[v] = sid'[v] /\ number[v] \in {0, sid'[v]}
    <3>1. v \in Units
      BY <1>5, <2>1, ElementOfSeq
    <3>2. sid'[v] = sid[v] /\ sid[v] \notin crossed \cup misread \cup {0}
      BY <1>6, <1>7, <2>1, <3>1
    <3> QED
      BY <1>1, <2>1, <3>2 DEF LoginInv, Numbers, OwnAccount
  <2> QED
    BY <1>2, <1>4, <2>1 DEF OwnAccount
<1>12. Building'
  BY <1>1, <1>2, <1>3, <1>4, <1>6, <1>7
  DEF LoginInv, Numbers, Building, OwnJob, At
<1>13. LogoutOnItsWay'
  BY <1>2 DEF LoginInv, LogoutOnItsWay, LogoutQueued, WillNotify
<1> QED
  BY <1>8, <1>9, <1>10, <1>11, <1>12, <1>13 DEF LoginInv, Numbers

\* SetUnique and SetOnDisconnect.
LEMMA NumberKeeps ==
  ASSUME LoginInv, LoginNumber
  PROVE  LoginInv'
<1>1. PICK u, s : u = game.u /\ s = game.s
  OBVIOUS
<1>2. /\ At("number") /\ game' = [game EXCEPT !.pc = "index"]
      /\ number' = [number EXCEPT ![u] = game.job.acct]
      /\ callback' = [callback EXCEPT ![s] = TRUE]
      /\ UNCHANGED <<phase, id, conns, users, empty, made, sid, name, byId,
                     mq, jobs, logins, settled, late, crossed, misread>>
  BY <1>1 DEF LoginNumber, Then
<1>3. /\ u \in Units /\ u # 0 /\ InUse(u) /\ s \in Sessions
      /\ game.job \in Jobs /\ game.job.acct \in OptTokens
  BY <1>1, <1>2, GameFacts
<1>4. /\ game' \in GameStates /\ game'.pc = "index" /\ game'.job = game.job
      /\ game'.s = s /\ game'.u = u
  BY <1>1, <1>2, GameStepTypes
<1>5. /\ number \in [Units -> OptTokens] /\ callback \in [Sessions -> BOOLEAN]
      /\ users \in Seq(Units)
  BY DEF LoginInv, TypeOK
<1>6. /\ number' \in [Units -> OptTokens] /\ number'[u] = game.job.acct
      /\ \A v \in Units : v # u => number'[v] = number[v]
  BY <1>2, <1>3, <1>5
<1>7. callback' \in [Sessions -> BOOLEAN]
  BY <1>2, <1>5, Zenon
<1>8. TypeOK'
  BY <1>2, <1>4, <1>6, <1>7 DEF LoginInv, TypeOK
<1>9. Stockroom' /\ Refills' /\ JobsOwn'
  BY <1>2, <1>4, LaterSteps DEF At
<1>10. Index'
  <2>1. IndexOfUsers'
    BY <1>2 DEF LoginInv, Index, IndexOfUsers, InUse
  <2>2. GameUser'
    BY <1>1, <1>2, <1>3, <1>4 DEF LoginInv, Index, GameUser, InUse, At
  <2> QED
    BY <2>1, <2>2 DEF Index
<1>11. OwnAccount'
  <2>1. ASSUME NEW i \in 1 .. Len(users), NEW v, v = users[i], v # u,
               sid[v] \notin crossed \cup misread \cup {0}
        PROVE  name[v] = sid[v] /\ number'[v] \in {0, sid[v]}
    <3>1. v \in Units
      BY <1>5, <2>1, ElementOfSeq
    <3>2. number'[v] = number[v]
      BY <1>6, <2>1, <3>1
    <3> QED
      BY <1>1, <2>1, <3>2 DEF LoginInv, Numbers, OwnAccount
  <2> QED
    BY <1>2, <1>4, <2>1 DEF OwnAccount
<1>12. Building'
  BY <1>1, <1>2, <1>3, <1>4, <1>6
  DEF LoginInv, Numbers, Building, OwnJob, At
<1>13. LogoutOnItsWay'
  <2>1. \A t \in Tokens : LogoutQueued(t) => LogoutQueued(t)'
    BY <1>2 DEF LogoutQueued
  <2>2. ASSUME NEW t \in Tokens, NEW x \in Sessions, WillNotify(x, t)
        PROVE  WillNotify(x, t)'
    <3>1. callback[x] /\ id[x] = t /\ phase[x] \in {"open", "notify"}
      BY <2>2 DEF WillNotify
    <3>2. callback'[x]
      BY <1>2, <1>5, <3>1, Zenon
    <3> QED
      BY <1>2, <3>1, <3>2 DEF WillNotify
  <2> QED
    BY <1>2, <2>1, <2>2, LogoutStays
<1> QED
  BY <1>8, <1>9, <1>10, <1>11, <1>12, <1>13 DEF LoginInv, Numbers

\* The index gets a unit in use that no token has; it is late if nobody will tell.
LEMMA IndexKeeps ==
  ASSUME LoginInv, LoginIndex
  PROVE  LoginInv'
<1>1. PICK u, s, t : u = game.u /\ s = game.s /\ t = id[game.s]
  OBVIOUS
<1>2. /\ At("index") /\ game' = [game EXCEPT !.pc = "reply"]
      /\ byId' = [byId EXCEPT ![t] = u]
      /\ late' = IF WillNotify(s, t) \/ LogoutQueued(t) THEN late \ {t} ELSE late \cup {t}
      /\ UNCHANGED <<phase, id, callback, conns, users, empty, made, sid, number, name,
                     mq, jobs, logins, settled, crossed, misread>>
  BY <1>1 DEF LoginIndex, Then, sessionVars, unitData
<1>3. /\ u \in Units /\ u # 0 /\ InUse(u) /\ s \in Sessions
      /\ \A v \in OptTokens : byId[v] # u
  BY <1>1, <1>2, GameFacts
<1>4. /\ game' \in GameStates /\ game'.pc = "reply" /\ game'.job = game.job
      /\ game'.s = s /\ game'.u = u
  BY <1>1, <1>2, GameStepTypes
<1>5. t \in OptTokens /\ byId \in [OptTokens -> OptUnits] /\ late \subseteq OptTokens
  BY <1>1, <1>3 DEF LoginInv, TypeOK
<1>6. /\ byId' \in [OptTokens -> OptUnits] /\ byId'[t] = u
      /\ \A v \in OptTokens : v # t => byId'[v] = byId[v]
  BY <1>2, <1>3, <1>5 DEF OptUnits
<1>7. late' \subseteq OptTokens /\ \A v \in Tokens : v # t => (v \in late' <=> v \in late)
  BY <1>2, <1>5
<1>8. TypeOK'
  BY <1>2, <1>4, <1>6, <1>7 DEF LoginInv, TypeOK
<1>9. Stockroom' /\ Refills' /\ JobsOwn'
  BY <1>2, <1>4, LaterSteps DEF At
<1>10. Index'
  <2>1. \A v : InUse(v)' <=> InUse(v)
    BY <1>2 DEF InUse
  <2>2. ASSUME NEW v \in OptTokens, NEW w, w = byId'[v], w # 0
        PROVE  InUse(w)'
    BY <1>3, <1>6, <2>1, <2>2 DEF LoginInv, Index, IndexOfUsers
  <2>3. ASSUME NEW v \in OptTokens, NEW w \in OptTokens, byId'[v] = byId'[w], byId'[v] # 0
        PROVE  v = w
    BY <1>3, <1>6, <2>3 DEF LoginInv, Index, IndexOfUsers
  <2>4. IndexOfUsers'
    BY <2>2, <2>3 DEF IndexOfUsers, InUse
  <2>5. GameUser'
    BY <1>2, <1>3, <1>4, <2>1 DEF GameUser, InUse, At
  <2> QED
    BY <2>4, <2>5 DEF Index
<1>11. OwnAccount'
  BY <1>1, <1>2, <1>4 DEF LoginInv, Numbers, OwnAccount
<1>12. Building'
  BY <1>1, <1>2, <1>4 DEF LoginInv, Numbers, Building, OwnJob, At
<1>13. LogoutOnItsWay'
  <2>1. /\ \A v \in Tokens : LogoutQueued(v)' <=> LogoutQueued(v)
        /\ \A v \in Tokens, x \in Sessions : WillNotify(x, v)' <=> WillNotify(x, v)
    BY <1>2 DEF LogoutQueued, WillNotify
  <2>2. ASSUME NEW v \in Tokens, byId'[v] # 0, v \notin late'
        PROVE  LogoutQueued(v)' \/ \E x \in Sessions : WillNotify(x, v)'
    <3>1. v \in OptTokens
      BY DEF Tokens, OptTokens
    <3>2. CASE v = t
      BY <1>2, <1>3, <2>1, <2>2, <3>2
    <3>3. CASE v # t
      <4>1. LogoutQueued(v) \/ \E x \in Sessions : WillNotify(x, v)
        BY <1>6, <1>7, <2>2, <3>1, <3>3 DEF LoginInv, LogoutOnItsWay
      <4> QED
        BY <2>1, <4>1
    <3> QED
      BY <3>2, <3>3
  <2> QED
    BY <2>2 DEF LogoutOnItsWay
<1> QED
  BY <1>8, <1>9, <1>10, <1>11, <1>12, <1>13 DEF LoginInv, Numbers

\* SP_LOGIN ends the login: the unit holds what was read with it.
LEMMA ReplyKeeps ==
  ASSUME LoginInv, Reply
  PROVE  LoginInv'
<1>1. /\ At("reply") /\ game' = Drained /\ settled' = settled \cup {id[game.s]}
      /\ UNCHANGED <<phase, id, callback, conns, users, empty, made, sid, number, name,
                     byId, mq, jobs, logins, late, crossed, misread>>
  BY DEF Reply, sessionVars, unitVars, unitData
<1>2. /\ game' \in GameStates /\ game'.pc = "drain" /\ game'.u = 0 /\ OwnJob(game'.job)
  BY <1>1, BoundAssumption DEF Drained, GameStates, NoJob, Jobs, OptTokens, OptUnits, OwnJob
<1>3. id[game.s] \in OptTokens
  <2>1. game.s \in Sessions
    BY <1>1 DEF LoginInv, Index, GameUser, At
  <2> QED
    BY <2>1 DEF LoginInv, TypeOK
<1>4. TypeOK'
  BY <1>1, <1>2, <1>3 DEF LoginInv, TypeOK
<1>5. Stockroom' /\ Refills' /\ JobsOwn'
  BY <1>1, <1>2, LaterSteps DEF At
<1>6. Index'
  <2>1. IndexOfUsers'
    BY <1>1 DEF LoginInv, Index, IndexOfUsers, InUse
  <2>2. GameUser'
    BY <1>2 DEF GameUser, At
  <2> QED
    BY <2>1, <2>2 DEF Index
<1>7. OwnAccount'
  <2>1. ASSUME NEW i \in 1 .. Len(users), NEW v, v = users[i], sid[v] \notin crossed \cup misread \cup {0}
        PROVE  name[v] = sid[v] /\ number[v] \in {0, sid[v]}
    <3>1. CASE v # game.u
      BY <2>1, <3>1 DEF LoginInv, Numbers, OwnAccount
    <3>2. CASE v = game.u
      <4>1. game.u # 0
        BY <1>1 DEF LoginInv, Index, GameUser, At
      <4>2. /\ game.job.tok \in misread \/ name[v] = game.job.tok
            /\ sid[v] \in crossed \cup {0, game.job.tok}
            /\ number[v] = game.job.acct /\ OwnJob(game.job)
        BY <1>1, <3>2, <4>1 DEF LoginInv, Numbers, Building
      <4>3. sid[v] = game.job.tok
        BY <2>1, <4>2
      <4> QED
        BY <2>1, <4>2, <4>3 DEF OwnJob
    <3> QED
      BY <3>1, <3>2
  <2> QED
    BY <1>1, <2>1 DEF OwnAccount
<1>8. Building'
  BY <1>1, <1>2 DEF Building, OwnJob, At
<1>9. LogoutOnItsWay'
  BY <1>1 DEF LoginInv, LogoutOnItsWay, LogoutQueued, WillNotify
<1> QED
  BY <1>4, <1>5, <1>6, <1>7, <1>8, <1>9 DEF LoginInv, Numbers

-----------------------------------------------------------------------------
\* The invariant holds at the start.
LEMMA LoginInit == Init => LoginInv
<1> SUFFICES ASSUME Init PROVE LoginInv
  OBVIOUS
<1>1. /\ PoolSize \in Nat /\ PoolExtra \in Nat \ {0} /\ MaxLogins \in Nat
      /\ MaxLogins * PoolExtra \in Nat /\ MaxConns \in Nat
  BY BoundAssumption
<1>2. PoolSize \in {0} \cup Units /\ \A i \in 1 .. PoolSize : i \in Units
  BY <1>1 DEF Units
<1>3. empty = [i \in 1 .. PoolSize |-> i]
  BY DEF Init
<1>4. empty \in [1 .. PoolSize -> Units]
  BY <1>2, <1>3
<1>5. empty \in Seq(Units) /\ Len(empty) = PoolSize
  BY <1>1, <1>4
<1>6. \A i \in 1 .. PoolSize : empty[i] = i
  BY <1>3
<1>7. Drained \in GameStates
  BY <1>1 DEF Drained, GameStates, NoJob, Jobs, OptTokens, OptUnits
<1>8. users = <<>> /\ Len(users) = 0 /\ users \in Seq(Units)
  BY EmptySeq DEF Init
<1>9. TypeOK
  <2>1. mq \in Seq(OptTokens) /\ jobs \in Seq(Jobs)
    BY EmptySeq DEF Init
  <2>2. 0 \in OptTokens /\ 0 \in OptUnits /\ 0 \in 0 .. MaxLogins
    BY <1>1 DEF OptTokens, OptUnits
  <2> QED
    BY <1>2, <1>5, <1>7, <1>8, <2>1, <2>2 DEF Init, TypeOK, Phases
<1>10. Refills
  <2>1. LoginsOf(jobs) = {}
    BY DEF Init, LoginsOf
  <2>2. Cardinality(LoginsOf(jobs)) = 0
    BY <2>1, FS_EmptySet
  <2>3. Len(mq) = 0 /\ made = PoolSize /\ logins = 0 /\ ~At("unit")
    BY DEF Init, Drained, At
  <2>4. PoolSize = PoolSize + 0 * PoolExtra /\ 0 \in Nat
    BY <1>1
  <2> QED
    BY <2>2, <2>3, <2>4 DEF Refills
<1>11. Stockroom
  BY <1>1, <1>5, <1>6, <1>8 DEF Init, Stockroom, OneUnit, UnitsMade, InUse, IsFree
<1>12. Index
  BY DEF Init, Index, IndexOfUsers, GameUser, Drained, At
<1>13. JobsOwn
  BY DEF Init, JobsOwn
<1>14. Numbers
  BY <1>8 DEF Init, Numbers, OwnAccount, Building, OwnJob, Drained, NoJob, At
<1>15. LogoutOnItsWay
  BY DEF Init, LogoutOnItsWay, Tokens, OptTokens
<1> QED
  BY <1>9, <1>10, <1>11, <1>12, <1>13, <1>14, <1>15 DEF LoginInv

\* Every step keeps it.
LEMMA LoginStep == LoginInv /\ [Next]_vars => LoginInv'
<1> SUFFICES ASSUME LoginInv, [Next]_vars
             PROVE  LoginInv'
  OBVIOUS
<1>1. ASSUME NEW s \in Sessions,
             Accept(s) \/ Disconnect(s) \/ CloseStep(s) \/ HandleLogin(s)
      PROVE  LoginInv'
  BY <1>1, AcceptKeeps, CloseKeeps, NotifyKeeps, HandleKeeps DEF CloseStep
<1>2. ASSUME NEW i \in 1 .. DbWorkers, CheckAccount(i)
      PROVE  LoginInv'
  <2>1. i \in Nat \ {0}
    BY BoundAssumption
  <2> QED
    BY <1>2, <2>1, CheckKeeps
<1>3. CASE GameStep
  BY <1>3, LogoutKeeps, TakeKeeps, UnitKeeps, SessionKeeps, NumberKeeps, IndexKeeps,
     ReplyKeeps DEF GameStep
<1>4. CASE UNCHANGED vars
  <2>1. UNCHANGED <<phase, id, callback, conns, users, empty, made, sid, number, name,
                    byId, mq, jobs, game, logins, settled, late, crossed, misread>>
    BY <1>4 DEF vars, sessionVars, unitVars, unitData
  <2>2. TypeOK'
    BY <2>1 DEF LoginInv, TypeOK
  <2>3. Refills' /\ JobsOwn'
    BY <2>1 DEF LoginInv, Refills, JobsOwn, OwnJob, LoginsOf, At
  <2>4. LogoutOnItsWay'
    BY <2>1 DEF LoginInv, LogoutOnItsWay, LogoutQueued, WillNotify
  <2> QED
    BY <2>1, <2>2, <2>3, <2>4, UnitsStay DEF LoginInv
<1> QED
  BY <1>1, <1>2, <1>3, <1>4 DEF Next

\* In every behaviour of the sessions, the workers and the game thread.
THEOREM LoginInvariant == Spec => []LoginInv
BY LoginInit, LoginStep, PTL DEF Spec

\* Types; the units made stay within the pool and one refill per login
\* (GameManager.cpp:60-64, 115-130).
THEOREM TypesHold == Spec => []TypeOK
<1>1. LoginInv => TypeOK
  BY DEF LoginInv
<1> QED
  BY <1>1, LoginInvariant, PTL

\* A unit belongs to one user or is free once, and the index names units in use,
\* each under one token: a Logout never gives back the unit of another user
\* (GameManager.cpp:60-91, 132-150).
THEOREM UsersStayConsistent == Spec => []UsersConsistent
<1>1. LoginInv => UsersConsistent
  BY DEF LoginInv, Stockroom, Index, UsersConsistent
<1> QED
  BY <1>1, LoginInvariant, PTL

\* An indexed user's Logout is queued or will be, unless Login made the entry after
\* Disconnect had looked for the callback (GameManager.cpp:66-91, ServerCoreLibrary/
\* Session.cpp:165-170).
THEOREM LogoutStaysOnItsWay == Spec => []LogoutOnItsWay
<1>1. LoginInv => LogoutOnItsWay
  BY DEF LoginInv
<1> QED
  BY <1>1, LoginInvariant, PTL

\* A user's unit holds the name and number of his own login, never what an earlier
\* user left in it, unless a login of another connection was entered for him, his
\* CM_LOGIN was overwritten before it was read, or Login is just entering him
\* (GamePacketHandler.cpp:71-91, GameManager.cpp:60-72, 132-150).
THEOREM AccountsAreOwn == Spec => []OwnAccount
<1>1. LoginInv => OwnAccount
  BY DEF LoginInv, Numbers
<1> QED
  BY <1>1, LoginInvariant, PTL
=============================================================================
