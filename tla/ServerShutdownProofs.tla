------------------------- MODULE ServerShutdownProofs -------------------------
(***************************************************************************)
(* Proofs about the threads of the game server, for any number of port     *)
(* workers, connections and tasks: types, the leases of the connection     *)
(* pool, the order of Finalize, that neither Push nor Release loses a      *)
(* wake-up, and that StopLoop leaves no job behind.                        *)
(***************************************************************************)
EXTENDS ServerShutdown, FiniteSetTheorems, SequenceTheorems, TLAPS

\* A worker on its way to a connection, or with one, has a task.
Busy == \A w \in Workers : dpc[w] \in {"acquire", "poolwait", "run"} => task[w] # 0

\* m_running is down from FinalizeLowers on, no thread ends before that, and
\* all have ended when the pool is destroyed.
Stopping ==
  /\ running <=> fin = "up"
  /\ running => \A t \in Takers : dpc[t] # "done"
  /\ fin = "down" => \A t \in Takers : dpc[t] = "done"

\* A worker falls asleep on an empty queue: it has kept mq_mtx since it looked.
SleepsOnEmpty == \A w \in Workers : dpc[w] = "block" => mq = <<>>

DbInv ==
  /\ DbTypeOK
  /\ LeasesApart
  /\ Busy
  /\ Stopping
  /\ SleepsOnEmpty
  /\ NoTaskStranded

-----------------------------------------------------------------------------
\* Threads: the health thread is none of the workers.
LEMMA ThreadFacts ==
  /\ Workers \subseteq Takers /\ Health \in Takers /\ Health \notin Workers
  /\ \A t \in Takers : t = Health \/ t \in Workers
  /\ 1 \in Workers
BY PoolAssumption DEF Workers, Takers, Health

\* A step of one thread to another label.
LEMMA DbGotoStep ==
  ASSUME DbTypeOK, NEW t \in Takers, NEW label, DbGoto(t, label),
         t = Health => label \in HealthPCs, t # Health => label \in WorkerPCs
  PROVE  /\ dpc' \in [Takers -> WorkerPCs \cup HealthPCs]
         /\ dpc'[Health] \in HealthPCs /\ \A w \in Workers : dpc'[w] \in WorkerPCs
         /\ dpc'[t] = label
         /\ \A u \in Takers : u # t => dpc'[u] = dpc[u]
<1>1. dpc \in [Takers -> WorkerPCs \cup HealthPCs]
  BY DEF DbTypeOK
<1>2. dpc' = [dpc EXCEPT ![t] = label]
  BY DEF DbGoto
<1>3. dpc'[t] = label /\ \A u \in Takers : u # t => dpc'[u] = dpc[u]
  BY <1>1, <1>2
<1>4. dpc' \in [Takers -> WorkerPCs \cup HealthPCs]
  BY <1>1, <1>2
<1>5. dpc'[Health] \in HealthPCs
  BY <1>3, ThreadFacts DEF DbTypeOK
<1>6. \A w \in Workers : dpc'[w] \in WorkerPCs
  BY <1>3, ThreadFacts DEF DbTypeOK
<1> QED
  BY <1>3, <1>4, <1>5, <1>6

\* Steps that leave the leases alone keep them apart.
LEMMA LeasesKept ==
  ASSUME LeasesApart, free' = free, lease' = lease,
         \A t \in Takers : dpc'[t] \in {"run", "release"} <=> dpc[t] \in {"run", "release"}
  PROVE  LeasesApart'
BY DEF LeasesApart, HasConn, IsFree

\* The top of m_free is taken off.
LEMMA PopStep ==
  ASSUME NEW f \in Seq(Conns), f # <<>>, NEW g, g = SubSeq(f, 1, Len(f) - 1)
  PROVE  /\ g \in Seq(Conns) /\ Len(g) = Len(f) - 1 /\ Len(f) \in Nat \ {0}
         /\ f[Len(f)] \in Conns
         /\ \A i \in 1 .. Len(g) : g[i] = f[i]
<1>1. Len(f) \in Nat \ {0}
  BY EmptySeq
<1>2. \A i \in 1 .. Len(f) : f[i] \in Conns
  BY ElementOfSeq
<1> DEFINE n == Len(f) - 1
<1>3. n \in Nat /\ 1 \in Int /\ n \in Int /\ \A i \in 1 .. n : f[i] \in Conns
  BY <1>1, <1>2
<1>4. /\ SubSeq(f, 1, n) \in Seq(Conns)
      /\ Len(SubSeq(f, 1, n)) = IF 1 <= n THEN n - 1 + 1 ELSE 0
      /\ \A i \in 1 .. n - 1 + 1 : SubSeq(f, 1, n)[i] = f[1 + i - 1]
  <2> HIDE DEF n
  <2> QED
    BY <1>3, SubSeqProperties
<1>5. g = SubSeq(f, 1, n)
  OBVIOUS
<1> HIDE DEF n
<1>6. g \in Seq(Conns) /\ Len(g) = n
  BY <1>3, <1>4, <1>5
<1>7. ASSUME NEW i \in 1 .. n PROVE g[i] = f[i]
  <2>1. i \in 1 .. n - 1 + 1 /\ 1 + i - 1 = i
    BY <1>3
  <2> QED
    BY <1>4, <1>5, <2>1, Zenon
<1>8. n = Len(f) - 1
  BY DEF n
<1> QED
  BY <1>1, <1>2, <1>6, <1>7, <1>8

-----------------------------------------------------------------------------
\* One thread goes on; queue, tasks and leases stay as they are.
LEMMA ControlStep ==
  ASSUME DbInv, NEW t \in Takers, NEW label, DbGoto(t, label),
         t = Health => label \in HealthPCs, t # Health => label \in WorkerPCs,
         UNCHANGED <<running, mq, task, free, lease, fin, ended, missed>>,
         dpc[t] # "done", label \notin {"block", "run", "release"},
         dpc[t] \notin {"run", "release"},
         t # Health /\ label \in {"acquire", "poolwait"}
           => dpc[t] \in {"acquire", "poolwait"},
         label = "wait" => dpc[t] = "block", label = "done" => ~running
  PROVE  DbInv'
<1>1. /\ dpc' \in [Takers -> WorkerPCs \cup HealthPCs]
      /\ dpc'[Health] \in HealthPCs /\ \A w \in Workers : dpc'[w] \in WorkerPCs
      /\ dpc'[t] = label
      /\ \A u \in Takers : u # t => dpc'[u] = dpc[u]
  BY DbGotoStep DEF DbInv
<1>2. DbTypeOK'
  BY <1>1 DEF DbInv, DbTypeOK
<1>3. LeasesApart'
  <2>1. \A u \in Takers : dpc'[u] \in {"run", "release"} <=> dpc[u] \in {"run", "release"}
    BY <1>1
  <2> QED
    BY <2>1, LeasesKept DEF DbInv
<1>4. Busy'
  BY <1>1, ThreadFacts DEF DbInv, Busy
<1>5. Stopping'
  BY <1>1 DEF DbInv, Stopping
<1>6. SleepsOnEmpty'
  BY <1>1, ThreadFacts DEF DbInv, SleepsOnEmpty
<1>7. NoTaskStranded'
  <2> SUFFICES ASSUME running, mq # <<>>
               PROVE  \E w \in Workers : dpc'[w] \notin {"wait", "block", "done"}
    BY DEF NoTaskStranded
  <2>1. PICK w \in Workers : dpc[w] \notin {"wait", "block", "done"}
    BY DEF DbInv, NoTaskStranded
  <2>2. CASE w = t
    <3>1. label \notin {"wait", "block", "done"}
      BY <2>1, <2>2
    <3> QED
      BY <1>1, <2>2, <3>1
  <2>3. CASE w # t
    BY <1>1, <2>1, <2>3, ThreadFacts
  <2> QED
    BY <2>2, <2>3
<1> QED
  BY <1>2, <1>3, <1>4, <1>5, <1>6, <1>7 DEF DbInv

\* The outer loop looks at m_running with nothing in its hands.
LEMMA LoopStep ==
  ASSUME DbInv, NEW t \in Takers, Loop(t)
  PROVE  DbInv'
<1> DEFINE label == IF ~running THEN "done" ELSE IF t = Health THEN "acquire" ELSE "check"
<1>1. DbGoto(t, label) /\ dpc[t] = "loop"
      /\ UNCHANGED <<running, mq, task, free, lease, fin, ended, missed>>
  BY DEF Loop
<1>2. /\ t = Health => label \in HealthPCs
      /\ t # Health => label \in WorkerPCs
      /\ label \in {"done", "acquire", "check"}
      /\ t # Health => label # "acquire"
      /\ label = "done" => ~running
  BY DEF HealthPCs, WorkerPCs
<1> HIDE DEF label
<1> QED
  BY <1>1, <1>2, ControlStep

\* A worker falls asleep on mq_cv.
LEMMA SleepStep ==
  ASSUME DbInv, NEW w \in Workers, Sleep(w)
  PROVE  DbInv'
<1>1. w \in Takers /\ w # Health /\ "wait" \in WorkerPCs
  BY ThreadFacts DEF WorkerPCs
<1> QED
  BY <1>1, ControlStep DEF Sleep

\* A sleeper of either condition variable wakes, spuriously or not.
LEMMA WakeUpStep ==
  ASSUME DbInv, NEW t \in Takers, WakeUp(t)
  PROVE  DbInv'
<1> DEFINE label == IF dpc[t] = "wait" THEN "check" ELSE "acquire"
<1>1. /\ t = Health => dpc[t] # "wait"
      /\ DbGoto(t, label) /\ dpc[t] \in {"wait", "poolwait"}
      /\ UNCHANGED <<running, mq, task, free, lease, fin, ended, missed>>
  BY DEF WakeUp, DbInv, DbTypeOK, HealthPCs
<1>2. /\ t = Health => label \in HealthPCs
      /\ t # Health => label \in WorkerPCs
      /\ label \in {"acquire", "check"}
      /\ label = "acquire" => dpc[t] = "poolwait"
  BY <1>1 DEF HealthPCs, WorkerPCs
<1> HIDE DEF label
<1> QED
  BY <1>1, <1>2, ControlStep

\* The health thread ends its pause.
LEMMA PauseStep ==
  ASSUME DbInv, HealthPause
  PROVE  DbInv'
<1>1. "loop" \in HealthPCs /\ Health \in Takers
  BY ThreadFacts DEF HealthPCs
<1> QED
  BY <1>1, ControlStep DEF HealthPause

\* Push appends a task and wakes a worker, if one sleeps.
LEMMA PushStep ==
  ASSUME DbInv, NEW n \in Tasks, Push(n)
  PROVE  DbInv'
<1>1. /\ mq' \in Seq(Tasks) /\ \A w \in Workers : dpc[w] # "block"
      /\ UNCHANGED <<running, task, free, lease, fin, ended, missed>>
  BY DEF Push, QueueFree, DbInv, DbTypeOK
<1>2. \/ dpc' = dpc /\ \A w \in Workers : dpc[w] # "wait"
      \/ \E w \in Workers : dpc[w] = "wait" /\ DbGoto(w, "check")
  BY DEF Push
<1>3. CASE dpc' = dpc /\ \A w \in Workers : dpc[w] # "wait"
  <2>1. DbTypeOK' /\ Busy' /\ Stopping' /\ SleepsOnEmpty'
    BY <1>1, <1>3 DEF DbInv, DbTypeOK, Busy, Stopping, SleepsOnEmpty
  <2>2. LeasesApart'
    BY <1>1, <1>3, LeasesKept DEF DbInv
  <2>3. NoTaskStranded'
    <3>1. dpc[1] \notin {"wait", "block"}
      BY <1>1, <1>3, ThreadFacts
    <3>2. running => dpc[1] # "done"
      BY ThreadFacts DEF DbInv, Stopping
    <3> QED
      BY <1>1, <1>3, <3>1, <3>2, ThreadFacts DEF NoTaskStranded
  <2> QED
    BY <2>1, <2>2, <2>3 DEF DbInv
<1>4. ASSUME NEW w \in Workers, dpc[w] = "wait", DbGoto(w, "check")
      PROVE  DbInv'
  <2>1. /\ dpc' \in [Takers -> WorkerPCs \cup HealthPCs]
        /\ dpc'[Health] \in HealthPCs /\ \A v \in Workers : dpc'[v] \in WorkerPCs
        /\ dpc'[w] = "check"
        /\ \A u \in Takers : u # w => dpc'[u] = dpc[u]
    <3>1. w \in Takers /\ w # Health /\ "check" \in WorkerPCs
      BY ThreadFacts DEF WorkerPCs
    <3> QED
      BY <1>4, <3>1, DbGotoStep DEF DbInv
  <2>2. DbTypeOK'
    BY <1>1, <2>1 DEF DbInv, DbTypeOK
  <2>3. LeasesApart'
    <3>1. \A u \in Takers : dpc'[u] \in {"run", "release"} <=> dpc[u] \in {"run", "release"}
      BY <1>4, <2>1
    <3> QED
      BY <1>1, <3>1, LeasesKept DEF DbInv
  <2>4. Busy'
    BY <1>1, <1>4, <2>1, ThreadFacts DEF DbInv, Busy
  <2>5. Stopping'
    BY <1>1, <1>4, <2>1, ThreadFacts DEF DbInv, Stopping
  <2>6. SleepsOnEmpty'
    BY <1>1, <2>1, ThreadFacts DEF SleepsOnEmpty
  <2>7. NoTaskStranded'
    BY <2>1 DEF NoTaskStranded
  <2> QED
    BY <2>2, <2>3, <2>4, <2>5, <2>6, <2>7 DEF DbInv
<1> QED
  BY <1>2, <1>3, <1>4

\* A worker takes a task, goes to sleep, or ends.
LEMMA CheckStep ==
  ASSUME DbInv, NEW w \in Workers, Check(w)
  PROVE  DbInv'
<1>0. w \in Takers /\ w # Health /\ dpc[w] = "check"
  BY ThreadFacts DEF Check
<1>1. CASE mq = <<>>
  <2> DEFINE label == IF running THEN "block" ELSE "done"
  <2>1. DbGoto(w, label) /\ UNCHANGED <<running, mq, task, free, lease, fin, ended, missed>>
    BY <1>1 DEF Check
  <2>2. /\ label \in {"block", "done"} /\ label \in WorkerPCs
        /\ label = "done" => ~running
    BY DEF WorkerPCs
  <2> HIDE DEF label
  <2>3. /\ dpc' \in [Takers -> WorkerPCs \cup HealthPCs]
        /\ dpc'[Health] \in HealthPCs /\ \A v \in Workers : dpc'[v] \in WorkerPCs
        /\ dpc'[w] = label
        /\ \A u \in Takers : u # w => dpc'[u] = dpc[u]
    BY <1>0, <2>1, <2>2, DbGotoStep DEF DbInv
  <2>4. DbTypeOK'
    BY <2>1, <2>3 DEF DbInv, DbTypeOK
  <2>5. LeasesApart'
    <3>1. \A u \in Takers : dpc'[u] \in {"run", "release"} <=> dpc[u] \in {"run", "release"}
      BY <1>0, <2>2, <2>3
    <3> QED
      BY <2>1, <3>1, LeasesKept DEF DbInv
  <2>6. Busy'
    BY <2>1, <2>2, <2>3, ThreadFacts DEF DbInv, Busy
  <2>7. Stopping'
    BY <1>0, <2>1, <2>2, <2>3 DEF DbInv, Stopping
  <2>8. SleepsOnEmpty' /\ NoTaskStranded'
    BY <1>1, <2>1 DEF SleepsOnEmpty, NoTaskStranded
  <2> QED
    BY <2>4, <2>5, <2>6, <2>7, <2>8 DEF DbInv
<1>2. CASE mq # <<>>
  <2>1. /\ DbGoto(w, "acquire") /\ mq' = Tail(mq)
        /\ task' = [task EXCEPT ![w] = Head(mq)]
        /\ UNCHANGED <<running, free, lease, fin, ended, missed>>
        /\ QueueFree
    BY <1>2 DEF Check
  <2>2. mq' \in Seq(Tasks) /\ Head(mq) \in Tasks
    BY <1>2, <2>1 DEF DbInv, DbTypeOK
  <2>3. /\ task' \in [Workers -> {0} \cup Tasks] /\ task'[w] # 0
        /\ \A v \in Workers : v # w => task'[v] = task[v]
    BY <2>1, <2>2 DEF DbInv, DbTypeOK, Tasks
  <2>4. /\ dpc' \in [Takers -> WorkerPCs \cup HealthPCs]
        /\ dpc'[Health] \in HealthPCs /\ \A v \in Workers : dpc'[v] \in WorkerPCs
        /\ dpc'[w] = "acquire"
        /\ \A u \in Takers : u # w => dpc'[u] = dpc[u]
    <3>1. "acquire" \in WorkerPCs
      BY DEF WorkerPCs
    <3> QED
      BY <1>0, <2>1, <3>1, DbGotoStep DEF DbInv
  <2>5. DbTypeOK'
    BY <2>1, <2>2, <2>3, <2>4 DEF DbInv, DbTypeOK
  <2>6. LeasesApart'
    <3>1. \A u \in Takers : dpc'[u] \in {"run", "release"} <=> dpc[u] \in {"run", "release"}
      BY <1>0, <2>4
    <3> QED
      BY <2>1, <3>1, LeasesKept DEF DbInv
  <2>7. Busy'
    BY <2>3, <2>4, ThreadFacts DEF DbInv, Busy
  <2>8. Stopping'
    BY <1>0, <2>1, <2>4 DEF DbInv, Stopping
  <2>9. SleepsOnEmpty' /\ NoTaskStranded'
    BY <2>1, <2>4, ThreadFacts DEF SleepsOnEmpty, NoTaskStranded, QueueFree
  <2> QED
    BY <2>5, <2>6, <2>7, <2>8, <2>9 DEF DbInv
<1> QED
  BY <1>1, <1>2

-----------------------------------------------------------------------------
\* Steps of a thread that has or gets a connection: everything but the leases.
LEMMA RestKept ==
  ASSUME DbInv, NEW t \in Takers, NEW label,
         dpc' \in [Takers -> WorkerPCs \cup HealthPCs],
         dpc'[t] = label, dpc[t] # "done",
         label \notin {"wait", "block", "done"}, dpc[t] \notin {"wait", "block"},
         \A u \in Takers : u # t => \/ dpc'[u] = dpc[u]
                                    \/ dpc[u] = "poolwait" /\ dpc'[u] = "acquire",
         UNCHANGED <<running, mq, fin>>
  PROVE  Stopping' /\ SleepsOnEmpty' /\ NoTaskStranded'
<1>1. Stopping'
  BY DEF DbInv, Stopping
<1>2. SleepsOnEmpty'
  BY ThreadFacts DEF DbInv, SleepsOnEmpty
<1>3. NoTaskStranded'
  <2> SUFFICES ASSUME running, mq # <<>>
               PROVE  \E w \in Workers : dpc'[w] \notin {"wait", "block", "done"}
    BY DEF NoTaskStranded
  <2>1. PICK w \in Workers : dpc[w] \notin {"wait", "block", "done"}
    BY DEF DbInv, NoTaskStranded
  <2>2. dpc'[w] \notin {"wait", "block", "done"}
    BY <2>1, ThreadFacts
  <2> QED
    BY <2>2
<1> QED
  BY <1>1, <1>2, <1>3

\* Acquire takes a free connection or waits for one.
LEMMA AcquireStep ==
  ASSUME DbInv, NEW t \in Takers, Acquire(t)
  PROVE  DbInv'
<1>1. CASE free = <<>>
  <2>1. /\ DbGoto(t, "poolwait") /\ dpc[t] = "acquire"
        /\ UNCHANGED <<running, mq, task, free, lease, fin, ended, missed>>
    BY <1>1 DEF Acquire
  <2>2. "poolwait" \in HealthPCs /\ "poolwait" \in WorkerPCs
    BY DEF HealthPCs, WorkerPCs
  <2> QED
    BY <2>1, <2>2, ControlStep
<1>2. CASE free # <<>>
  <2> DEFINE c == free[Len(free)]
  <2>1. /\ DbGoto(t, "run") /\ dpc[t] = "acquire"
        /\ lease' = [lease EXCEPT ![t] = c] /\ free' = SubSeq(free, 1, Len(free) - 1)
        /\ UNCHANGED <<running, mq, task, fin, ended, missed>>
    BY <1>2 DEF Acquire
  <2>2. /\ free' \in Seq(Conns) /\ Len(free') = Len(free) - 1
        /\ Len(free) \in Nat \ {0} /\ c \in Conns
        /\ \A i \in 1 .. Len(free') : free'[i] = free[i]
    BY <1>2, <2>1, PopStep DEF DbInv, DbTypeOK
  <2>3. /\ dpc' \in [Takers -> WorkerPCs \cup HealthPCs]
        /\ dpc'[Health] \in HealthPCs /\ \A v \in Workers : dpc'[v] \in WorkerPCs
        /\ dpc'[t] = "run"
        /\ \A u \in Takers : u # t => dpc'[u] = dpc[u]
    <3>1. "run" \in HealthPCs /\ "run" \in WorkerPCs
      BY DEF HealthPCs, WorkerPCs
    <3> QED
      BY <2>1, <3>1, DbGotoStep DEF DbInv
  <2>4. /\ lease' \in [Takers -> {0} \cup Conns] /\ lease'[t] = c /\ c # 0
        /\ \A u \in Takers : u # t => lease'[u] = lease[u]
    BY <2>1, <2>2 DEF DbInv, DbTypeOK, Conns
  <2>5. IsFree(c) /\ c = free[Len(free)] /\ \A u \in Takers : lease[u] # c
    BY <2>2 DEF DbInv, LeasesApart, IsFree
  <2> HIDE DEF c
  <2>6. DbTypeOK'
    BY <2>1, <2>2, <2>3, <2>4 DEF DbInv, DbTypeOK
  <2>7. LeasesApart'
    <3>1. \A i, j \in 1 .. Len(free') : free'[i] = free'[j] => i = j
      BY <2>2 DEF DbInv, LeasesApart
    <3>2. \A u \in Takers : lease'[u] # 0 <=> dpc'[u] \in {"run", "release"}
      BY <2>3, <2>4 DEF DbInv, LeasesApart, HasConn
    <3>3. \A u, v \in Takers : lease'[u] = lease'[v] /\ lease'[u] # 0 => u = v
      BY <2>4, <2>5 DEF DbInv, LeasesApart
    <3>4. ASSUME NEW d \in Conns
          PROVE  (\E i \in 1 .. Len(free') : free'[i] = d)
                   <=> (\A u \in Takers : lease'[u] # d)
      <4>1. CASE d = c
        <5>1. \A i \in 1 .. Len(free') : free'[i] # c
          BY <2>2, <2>5 DEF DbInv, LeasesApart
        <5> QED
          BY <2>4, <4>1, <5>1
      <4>2. CASE d # c
        <5>1. (\E i \in 1 .. Len(free') : free'[i] = d)
                <=> (\E i \in 1 .. Len(free) : free[i] = d)
          BY <2>2, <2>5, <4>2
        <5>2. (\E i \in 1 .. Len(free) : free[i] = d) <=> (\A u \in Takers : lease[u] # d)
          BY DEF DbInv, LeasesApart, IsFree
        <5>3. lease[t] = 0 /\ d # 0
          BY <2>1, <2>4 DEF DbInv, LeasesApart, HasConn, Conns
        <5>4. (\A u \in Takers : lease[u] # d) <=> (\A u \in Takers : lease'[u] # d)
          BY <2>4, <4>2, <5>3
        <5> QED
          BY <5>1, <5>2, <5>4
      <4> QED
        BY <4>1, <4>2
    <3> QED
      BY <3>1, <3>2, <3>3, <3>4 DEF LeasesApart, HasConn, IsFree
  <2>8. Busy'
    BY <2>1, <2>3, ThreadFacts DEF DbInv, Busy
  <2>9. Stopping' /\ SleepsOnEmpty' /\ NoTaskStranded'
    BY <2>1, <2>3, RestKept
  <2> QED
    BY <2>6, <2>7, <2>8, <2>9 DEF DbInv
<1> QED
  BY <1>1, <1>2

\* A task, or a health check, runs and may throw.
LEMMA RunStep ==
  ASSUME DbInv, NEW t \in Takers, Run(t)
  PROVE  DbInv'
<1>1. /\ DbGoto(t, "release") /\ dpc[t] = "run"
      /\ UNCHANGED <<running, mq, free, lease, fin, missed>>
  BY DEF Run
<1>2. /\ dpc' \in [Takers -> WorkerPCs \cup HealthPCs]
      /\ dpc'[Health] \in HealthPCs /\ \A v \in Workers : dpc'[v] \in WorkerPCs
      /\ dpc'[t] = "release"
      /\ \A u \in Takers : u # t => dpc'[u] = dpc[u]
  <2>1. "release" \in HealthPCs /\ "release" \in WorkerPCs
    BY DEF HealthPCs, WorkerPCs
  <2> QED
    BY <1>1, <2>1, DbGotoStep DEF DbInv
<1>3. /\ task' = [w \in Workers |-> IF w = t THEN 0 ELSE task[w]]
      /\ task \in [Workers -> {0} \cup Tasks]
  BY DEF Run, DbInv, DbTypeOK
<1>4. ended' \subseteq Tasks
  <2>1. ended' = IF t = Health THEN ended ELSE ended \cup {task[t]}
    BY DEF Run
  <2>2. t # Health => t \in Workers /\ task[t] # 0
    BY <1>1, ThreadFacts DEF DbInv, Busy
  <2> QED
    BY <1>3, <2>1, <2>2 DEF DbInv, DbTypeOK
<1>5. DbTypeOK'
  BY <1>1, <1>2, <1>3, <1>4 DEF DbInv, DbTypeOK
<1>6. LeasesApart'
  <2>1. \A u \in Takers : dpc'[u] \in {"run", "release"} <=> dpc[u] \in {"run", "release"}
    BY <1>1, <1>2
  <2> QED
    BY <1>1, <2>1, LeasesKept DEF DbInv
<1>7. Busy'
  BY <1>2, <1>3, ThreadFacts DEF DbInv, Busy
<1>8. Stopping' /\ SleepsOnEmpty' /\ NoTaskStranded'
  BY <1>1, <1>2, RestKept
<1> QED
  BY <1>5, <1>6, <1>7, <1>8 DEF DbInv

\* Release gives the connection back and wakes a taker.
LEMMA ReleaseStep ==
  ASSUME DbInv, NEW t \in Takers, Release(t)
  PROVE  DbInv'
<1> DEFINE label == AfterRelease(t)
<1> DEFINE c == lease[t]
<1>1. /\ dpc[t] = "release"
      /\ free' = Append(free, c) /\ lease' = [lease EXCEPT ![t] = 0]
      /\ UNCHANGED <<running, mq, task, fin, ended, missed>>
  BY DEF Release
<1>2. /\ label \in {"loop", "sleep"}
      /\ t = Health => label \in HealthPCs
      /\ t # Health => label \in WorkerPCs
  BY DEF AfterRelease, HealthPCs, WorkerPCs
<1>3. c \in Conns /\ c # 0
  BY <1>1, ThreadFacts DEF DbInv, DbTypeOK, LeasesApart, HasConn
<1>4. \/ dpc' = [dpc EXCEPT ![t] = label]
      \/ \E u \in Takers : dpc[u] = "poolwait"
           /\ dpc' = [dpc EXCEPT ![t] = label, ![u] = "acquire"]
  BY DEF Release, DbGoto
<1> HIDE DEF label, c
<1>5. /\ dpc' \in [Takers -> WorkerPCs \cup HealthPCs]
      /\ dpc'[t] = label
      /\ \A u \in Takers : u # t => \/ dpc'[u] = dpc[u]
                                    \/ dpc[u] = "poolwait" /\ dpc'[u] = "acquire"
  <2>1. dpc \in [Takers -> WorkerPCs \cup HealthPCs] /\ label \in WorkerPCs \cup HealthPCs
        /\ "acquire" \in WorkerPCs
    BY <1>2 DEF DbInv, DbTypeOK, WorkerPCs
  <2>2. CASE dpc' = [dpc EXCEPT ![t] = label]
    BY <2>1, <2>2
  <2>3. ASSUME NEW u \in Takers, dpc[u] = "poolwait",
               dpc' = [dpc EXCEPT ![t] = label, ![u] = "acquire"]
        PROVE  /\ dpc' \in [Takers -> WorkerPCs \cup HealthPCs]
               /\ dpc'[t] = label
               /\ \A v \in Takers : v # t => \/ dpc'[v] = dpc[v]
                                             \/ dpc[v] = "poolwait" /\ dpc'[v] = "acquire"
    <3>1. u # t
      BY <1>1, <2>3
    <3> QED
      BY <2>1, <2>3, <3>1
  <2> QED
    BY <1>4, <2>2, <2>3
<1>6. dpc'[Health] \in HealthPCs /\ \A v \in Workers : dpc'[v] \in WorkerPCs
  <2>1. "acquire" \in WorkerPCs /\ "acquire" \in HealthPCs
    BY DEF WorkerPCs, HealthPCs
  <2> QED
    BY <1>2, <1>5, <2>1, ThreadFacts DEF DbInv, DbTypeOK
<1>7. /\ free' \in Seq(Conns) /\ Len(free') = Len(free) + 1 /\ Len(free) \in Nat
      /\ \A i \in 1 .. Len(free) : free'[i] = free[i]
      /\ free'[Len(free) + 1] = c
  BY <1>1, <1>3, AppendProperties DEF DbInv, DbTypeOK
<1>8. /\ lease' \in [Takers -> {0} \cup Conns] /\ lease'[t] = 0 /\ lease[t] = c
      /\ \A u \in Takers : u # t => lease'[u] = lease[u]
  BY <1>1 DEF DbInv, DbTypeOK, c
<1>9. DbTypeOK'
  BY <1>1, <1>5, <1>6, <1>7, <1>8 DEF DbInv, DbTypeOK
<1>10. LeasesApart'
  <2>0. \A i \in 1 .. Len(free) : free[i] # c
    BY <1>3, <1>8 DEF DbInv, LeasesApart, IsFree
  <2>1. \A i, j \in 1 .. Len(free') : free'[i] = free'[j] => i = j
    <3>1. \A i, j \in 1 .. Len(free) : free[i] = free[j] => i = j
      BY DEF DbInv, LeasesApart
    <3> QED
      BY <1>7, <2>0, <3>1
  <2>2. \A u \in Takers : lease'[u] # 0 <=> dpc'[u] \in {"run", "release"}
    BY <1>2, <1>5, <1>8 DEF DbInv, LeasesApart, HasConn
  <2>3. \A u, v \in Takers : lease'[u] = lease'[v] /\ lease'[u] # 0 => u = v
    BY <1>8 DEF DbInv, LeasesApart
  <2>4. ASSUME NEW d \in Conns
        PROVE  (\E i \in 1 .. Len(free') : free'[i] = d)
                 <=> (\A u \in Takers : lease'[u] # d)
    <3>1. CASE d = c
      <4>1. \E i \in 1 .. Len(free') : free'[i] = d
        BY <1>7, <3>1
      <4>2. \A u \in Takers : lease'[u] # d
        BY <1>3, <1>8, <3>1 DEF DbInv, LeasesApart
      <4> QED
        BY <4>1, <4>2
    <3>2. CASE d # c
      <4>1. (\E i \in 1 .. Len(free') : free'[i] = d)
              <=> (\E i \in 1 .. Len(free) : free[i] = d)
        BY <1>7, <3>2
      <4>2. (\E i \in 1 .. Len(free) : free[i] = d) <=> (\A u \in Takers : lease[u] # d)
        BY DEF DbInv, LeasesApart, IsFree
      <4>3. (\A u \in Takers : lease[u] # d) <=> (\A u \in Takers : lease'[u] # d)
        <5>1. d # 0
          BY DEF Conns
        <5> QED
          BY <1>8, <3>2, <5>1
      <4> QED
        BY <4>1, <4>2, <4>3
    <3> QED
      BY <3>1, <3>2
  <2> QED
    BY <2>1, <2>2, <2>3, <2>4 DEF LeasesApart, HasConn, IsFree
<1>11. Busy'
  BY <1>1, <1>2, <1>5, ThreadFacts DEF DbInv, Busy
<1>12. Stopping' /\ SleepsOnEmpty' /\ NoTaskStranded'
  BY <1>1, <1>2, <1>5, RestKept
<1> QED
  BY <1>9, <1>10, <1>11, <1>12 DEF DbInv

-----------------------------------------------------------------------------
\* Finalize lowers m_running, notifies, joins, and destroys the pool.
LEMMA FinalizeStep ==
  ASSUME DbInv, FinalizeLowers \/ FinalizeNotifies \/ FinalizeJoins
  PROVE  DbInv'
<1>1. CASE FinalizeLowers
  <2>1. /\ running' = FALSE /\ fin' = "lowered" /\ fin = "up"
        /\ UNCHANGED <<mq, dpc, task, free, lease, ended, missed>>
    BY <1>1 DEF FinalizeLowers
  <2>2. DbTypeOK' /\ Busy' /\ SleepsOnEmpty'
    BY <2>1 DEF DbInv, DbTypeOK, Busy, SleepsOnEmpty
  <2>3. LeasesApart'
    BY <2>1, LeasesKept DEF DbInv
  <2>4. Stopping' /\ NoTaskStranded'
    BY <2>1 DEF Stopping, NoTaskStranded
  <2> QED
    BY <2>2, <2>3, <2>4 DEF DbInv
<1>2. CASE FinalizeNotifies
  <2>1. /\ fin = "lowered" /\ fin' = "join"
        /\ dpc' = [t \in Takers |-> IF dpc[t] = "wait" THEN "check" ELSE dpc[t]]
        /\ missed' = {w \in Workers : dpc[w] = "block"}
        /\ UNCHANGED <<running, mq, task, free, lease, ended>>
    BY <1>2 DEF FinalizeNotifies
  <2>2. ~running
    BY <2>1 DEF DbInv, Stopping
  <2>3. \A t \in Takers : dpc'[t] = IF dpc[t] = "wait" THEN "check" ELSE dpc[t]
    BY <2>1
  <2>4. DbTypeOK'
    <3>1. \A w \in Workers : dpc'[w] \in WorkerPCs
      BY <2>3, ThreadFacts DEF DbInv, DbTypeOK, WorkerPCs
    <3>2. dpc'[Health] \in HealthPCs
      BY <2>3, ThreadFacts DEF DbInv, DbTypeOK, HealthPCs
    <3>3. dpc' \in [Takers -> WorkerPCs \cup HealthPCs]
      BY <2>1, <3>1, <3>2, ThreadFacts
    <3> QED
      BY <2>1, <3>1, <3>2, <3>3 DEF DbInv, DbTypeOK
  <2>5. LeasesApart'
    <3>1. \A u \in Takers : dpc'[u] \in {"run", "release"} <=> dpc[u] \in {"run", "release"}
      BY <2>3
    <3> QED
      BY <2>1, <3>1, LeasesKept DEF DbInv
  <2>6. Busy' /\ SleepsOnEmpty'
    BY <2>1, <2>3, ThreadFacts DEF DbInv, Busy, SleepsOnEmpty
  <2>7. Stopping' /\ NoTaskStranded'
    BY <2>1, <2>2 DEF Stopping, NoTaskStranded
  <2> QED
    BY <2>4, <2>5, <2>6, <2>7 DEF DbInv
<1>3. CASE FinalizeJoins
  <2>1. /\ fin = "join" /\ fin' = "down" /\ \A t \in Takers : dpc[t] = "done"
        /\ UNCHANGED <<running, mq, dpc, task, free, lease, ended, missed>>
    BY <1>3 DEF FinalizeJoins
  <2>2. DbTypeOK' /\ Busy' /\ SleepsOnEmpty'
    BY <2>1 DEF DbInv, DbTypeOK, Busy, SleepsOnEmpty
  <2>3. LeasesApart'
    BY <2>1, LeasesKept DEF DbInv
  <2>4. Stopping' /\ NoTaskStranded'
    BY <2>1 DEF DbInv, Stopping, NoTaskStranded
  <2> QED
    BY <2>2, <2>3, <2>4 DEF DbInv
<1> QED
  BY <1>1, <1>2, <1>3

\* The manager starts with its invariant.
LEMMA DbInitial == DbInit => DbInv
<1> SUFFICES ASSUME DbInit PROVE DbInv
  OBVIOUS
<1>1. /\ running = TRUE /\ mq = <<>> /\ fin = "up" /\ ended = {} /\ missed = {}
      /\ dpc = [t \in Takers |-> "loop"] /\ task = [w \in Workers |-> 0]
      /\ free = [i \in 1 .. PoolSize |-> i] /\ lease = [t \in Takers |-> 0]
  BY DEF DbInit
<1>2. \A t \in Takers : dpc[t] = "loop" /\ lease[t] = 0
  BY <1>1
<1>3. free \in Seq(Conns) /\ Len(free) = PoolSize /\ \A i \in 1 .. PoolSize : free[i] = i
  BY <1>1, PoolAssumption DEF Conns
<1>4. DbTypeOK
  <2>1. dpc \in [Takers -> WorkerPCs \cup HealthPCs]
        /\ dpc[Health] \in HealthPCs /\ \A w \in Workers : dpc[w] \in WorkerPCs
    BY <1>1, ThreadFacts DEF WorkerPCs, HealthPCs
  <2> QED
    BY <1>1, <1>3, <2>1 DEF DbTypeOK
<1>5. LeasesApart
  BY <1>2, <1>3 DEF LeasesApart, HasConn, IsFree, Conns
<1>6. Busy /\ Stopping /\ SleepsOnEmpty /\ NoTaskStranded
  BY <1>1, <1>2, ThreadFacts DEF Busy, Stopping, SleepsOnEmpty, NoTaskStranded
<1> QED
  BY <1>4, <1>5, <1>6 DEF DbInv

-----------------------------------------------------------------------------
\* A port worker at its handler has a login.
Inv ==
  /\ DbInv
  /\ TypeOK
  /\ \A p \in Ports : ppc[p] = "handle" => login[p] # 0

\* Steps of the server that leave the manager alone keep it.
LEMMA DbKept ==
  ASSUME DbInv, UNCHANGED dbVars
  PROVE  DbInv'
<1>1. DbTypeOK' /\ Busy' /\ Stopping' /\ SleepsOnEmpty' /\ NoTaskStranded'
  BY DEF DbInv, dbVars, DbTypeOK, Busy, Stopping, SleepsOnEmpty, NoTaskStranded
<1>2. LeasesApart'
  BY LeasesKept DEF DbInv, dbVars
<1> QED
  BY <1>1, <1>2 DEF DbInv

\* Every step is one of DBManager's, or leaves its variables alone.
LEMMA DbPart ==
  ASSUME Inv, [Next]_vars
  PROVE  DbInv'
<1>0. DbInv
  BY DEF Inv
<1>1. CASE UNCHANGED vars
  BY <1>0, <1>1, DbKept DEF vars
<1>2. CASE Arrive \/ StopLoop \/ StopLoopJoins \/ ShutDown \/ PostQuit \/ ShutDownJoins
  BY <1>0, <1>2, DbKept
     DEF Arrive, StopLoop, StopLoopJoins, ShutDown, PostQuit, ShutDownJoins, MainVarsKept,
         dbVars
<1>3. CASE GameStep
  BY <1>0, <1>3, DbKept DEF GameStep, GameLoop, GameJob, GameDrained, GameVarsKept, dbVars
<1>4. CASE Finalize
  BY <1>0, <1>4, FinalizeStep DEF Finalize
<1>5. ASSUME NEW p \in Ports, PortStep(p) PROVE DbInv'
  <2>1. CASE PortLoop(p) \/ PortGets(p)
    BY <1>0, <2>1, DbKept DEF PortLoop, PortGets, dbVars
  <2>2. CASE PortHandles(p)
    <3>1. Push(login[p]) /\ login[p] \in Tasks
      BY <2>2 DEF PortHandles, Inv, TypeOK
    <3> QED
      BY <1>0, <3>1, PushStep
  <2> QED
    BY <1>5, <2>1, <2>2 DEF PortStep
<1>6. ASSUME NEW w \in Workers, WorkerRuns(w) \/ DbCheck(w) PROVE DbInv'
  <2>1. w \in Takers
    BY ThreadFacts
  <2> QED
    BY <1>0, <1>6, <2>1, RunStep, CheckStep DEF WorkerRuns, DbCheck
<1>7. ASSUME NEW t \in Takers, DbStep(t) \/ DbWakeUp(t) PROVE DbInv'
  <2>1. CASE Loop(t) \/ Acquire(t) \/ Release(t) \/ Run(t) \/ WakeUp(t)
    BY <1>0, <2>1, LoopStep, AcquireStep, ReleaseStep, RunStep, WakeUpStep
  <2>2. CASE HealthPause
    BY <1>0, <2>2, PauseStep
  <2>3. CASE t # Health /\ Sleep(t)
    BY <1>0, <2>3, SleepStep, ThreadFacts
  <2> QED
    BY <1>7, <2>1, <2>2, <2>3 DEF DbStep, DbWakeUp
<1> QED
  BY <1>1, <1>2, <1>3, <1>4, <1>5, <1>6, <1>7 DEF Next, Exiting

\* The types of the variables that are not DBManager's, and the port worker's
\* login.
ServerTypeOK ==
  /\ port \in Seq({Quit} \cup Tasks) /\ iocpRunning \in BOOLEAN
  /\ ppc \in [Ports -> {"loop", "get", "handle", "done"}]
  /\ login \in [Ports -> {0} \cup Tasks]
  /\ gameRunning \in BOOLEAN /\ gpc \in {"loop", "drain", "last", "done"}
  /\ batch \in 0 .. FrameJobs /\ jobs \in Seq([task : Tasks, late : BOOLEAN])
  /\ main \in {"serve", "joingame", "shutdown", "post", "joinports", "finalize"}
  /\ quits \in 0 .. Cardinality(Ports) /\ arrived \in {0} \cup Tasks
  /\ \A p \in Ports : ppc[p] = "handle" => login[p] # 0

\* The invariant in its two parts.
LEMMA InvParts == Inv <=> DbInv /\ ServerTypeOK
BY DEF Inv, TypeOK, ServerTypeOK, DbInv

\* Every step keeps the types of the port workers, the game thread and main.
LEMMA ServerPart ==
  ASSUME Inv, [Next]_vars
  PROVE  ServerTypeOK'
<1>0. ServerTypeOK /\ DbInv
  BY InvParts
<1> USE <1>0
<1>1. CASE UNCHANGED serverVars
  BY <1>1 DEF ServerTypeOK, serverVars
<1>2. CASE Arrive
  <2>1. /\ arrived < MaxTasks /\ arrived' = arrived + 1 /\ port' = Append(port, arrived + 1)
        /\ UNCHANGED <<iocpRunning, ppc, login, gameRunning, gpc, batch, jobs, main, quits>>
    BY <1>2 DEF Arrive
  <2>2. arrived + 1 \in Tasks
    BY <2>1, PoolAssumption DEF ServerTypeOK, Tasks
  <2>3. port' \in Seq({Quit} \cup Tasks)
    BY <2>1, <2>2, AppendProperties DEF ServerTypeOK
  <2> QED
    BY <2>1, <2>2, <2>3 DEF ServerTypeOK
<1>3. ASSUME NEW p \in Ports, PortLoop(p)
      PROVE  ServerTypeOK'
  <2>1. /\ ppc' \in [Ports -> {"loop", "get", "handle", "done"}]
        /\ \A q \in Ports : ppc'[q] = "handle" => ppc[q] = "handle"
        /\ UNCHANGED <<port, iocpRunning, login, gameRunning, gpc, batch, jobs, main, quits, arrived>>
    BY <1>3 DEF PortLoop, PortGoto, ServerTypeOK
  <2> QED
    BY <2>1 DEF ServerTypeOK
<1>4. ASSUME NEW p \in Ports, PortGets(p)
      PROVE  ServerTypeOK'
  <2>1. /\ port # <<>> /\ port' = Tail(port)
        /\ UNCHANGED <<iocpRunning, gameRunning, gpc, batch, jobs, main, quits, arrived>>
    BY <1>4 DEF PortGets
  <2>2. port' \in Seq({Quit} \cup Tasks) /\ Head(port) \in {Quit} \cup Tasks
    BY <2>1 DEF ServerTypeOK
  <2>3. CASE UNCHANGED login /\ \E label \in {"done", "loop"} : PortGoto(p, label)
    <3>1. /\ ppc' \in [Ports -> {"loop", "get", "handle", "done"}]
          /\ \A q \in Ports : ppc'[q] = "handle" => ppc[q] = "handle"
      BY <2>3 DEF PortGoto, ServerTypeOK
    <3> QED
      BY <2>1, <2>2, <2>3, <3>1 DEF ServerTypeOK
  <2>4. CASE Head(port) # Quit /\ PortGoto(p, "handle") /\ login' = [login EXCEPT ![p] = Head(port)]
    <3>1. Head(port) \in Tasks /\ Head(port) # 0
      BY <2>2, <2>4 DEF Quit
    <3>2. /\ ppc' \in [Ports -> {"loop", "get", "handle", "done"}]
          /\ login' \in [Ports -> {0} \cup Tasks]
          /\ \A q \in Ports : ppc'[q] = "handle" => login'[q] # 0
      BY <2>4, <3>1 DEF PortGoto, ServerTypeOK
    <3> QED
      BY <2>1, <2>2, <3>2 DEF ServerTypeOK
  <2> QED
    BY <1>4, <2>3, <2>4 DEF PortGets
<1>5. ASSUME NEW p \in Ports, PortHandles(p)
      PROVE  ServerTypeOK'
  <2>1. /\ PortGoto(p, "loop") /\ login' = [login EXCEPT ![p] = 0]
        /\ UNCHANGED <<port, iocpRunning, gameRunning, gpc, batch, jobs, main, quits, arrived>>
    BY <1>5 DEF PortHandles
  <2>2. /\ ppc' \in [Ports -> {"loop", "get", "handle", "done"}]
        /\ login' \in [Ports -> {0} \cup Tasks]
        /\ \A q \in Ports : ppc'[q] = "handle" => login'[q] # 0
    BY <2>1 DEF PortGoto, ServerTypeOK
  <2> QED
    BY <2>1, <2>2 DEF ServerTypeOK
<1>6. ASSUME NEW w \in Workers, WorkerRuns(w)
      PROVE  ServerTypeOK'
  <2>1. /\ \/ jobs' = Append(jobs, [task |-> task[w], late |-> ~gameRunning])
           \/ jobs' = jobs
        /\ dpc[w] = "run"
        /\ UNCHANGED <<port, iocpRunning, ppc, login, gameRunning, gpc, batch, main,
                       quits, arrived>>
    BY <1>6 DEF WorkerRuns, Run
  <2>2. task[w] \in Tasks
    BY <2>1 DEF DbInv, Busy, DbTypeOK
  <2>3. (~gameRunning) \in BOOLEAN
    OBVIOUS
  <2>4. [task |-> task[w], late |-> ~gameRunning] \in [task : Tasks, late : BOOLEAN]
    BY <2>2, <2>3, Zenon
  <2>5. jobs' \in Seq([task : Tasks, late : BOOLEAN])
    <3> DEFINE S == [task : Tasks, late : BOOLEAN]
    <3>1. PICK j \in S : jobs' = Append(jobs, j) \/ jobs' = jobs
      BY <2>1, <2>4, Zenon
    <3>2. jobs \in Seq(S)
      BY DEF ServerTypeOK
    <3> HIDE DEF S
    <3>3. jobs' \in Seq(S)
      BY <3>1, <3>2, AppendProperties
    <3> QED
      BY <3>3 DEF S
  <2> QED
    BY <2>1, <2>5 DEF ServerTypeOK
<1>7. CASE GameStep
  <2>1. UNCHANGED <<port, iocpRunning, ppc, login, gameRunning, main, quits, arrived>>
    BY <1>7 DEF GameStep, GameLoop, GameJob, GameDrained, GameVarsKept
  <2>2. jobs' \in Seq([task : Tasks, late : BOOLEAN])
    <3> DEFINE S == [task : Tasks, late : BOOLEAN]
    <3>1. jobs \in Seq(S)
      BY DEF ServerTypeOK
    <3>2. jobs' = jobs \/ (jobs # <<>> /\ jobs' = Tail(jobs))
      BY <1>7 DEF GameStep, GameLoop, GameJob, GameDrained
    <3> HIDE DEF S
    <3>3. jobs' \in Seq(S)
      BY <3>1, <3>2
    <3> QED
      BY <3>3 DEF S
  <2>3. gpc' \in {"loop", "drain", "last", "done"}
    BY <1>7 DEF GameStep, GameLoop, GameJob, GameDrained, ServerTypeOK
  <2>4. batch' \in 0 .. FrameJobs
    BY <1>7, PortAssumption DEF GameStep, GameLoop, GameJob, GameDrained, ServerTypeOK
  <2> QED
    BY <2>1, <2>2, <2>3, <2>4 DEF ServerTypeOK
<1>8. CASE StopLoop \/ StopLoopJoins \/ ShutDown \/ ShutDownJoins
  BY <1>8 DEF StopLoop, StopLoopJoins, ShutDown, ShutDownJoins, MainVarsKept, ServerTypeOK
<1>9. CASE PostQuit
  <2>1. /\ UNCHANGED <<iocpRunning, ppc, login, gameRunning, gpc, batch, jobs, arrived>>
        /\ \/ quits < Cardinality(Ports) /\ quits' = quits + 1
              /\ port' = Append(port, Quit) /\ main' = main
           \/ main' = "joinports" /\ UNCHANGED <<quits, port>>
    BY <1>9 DEF PostQuit, MainVarsKept
  <2>2. Cardinality(Ports) \in Nat
    BY FS_CardinalityType, PortAssumption
  <2>3. quits' \in 0 .. Cardinality(Ports)
    BY <2>1, <2>2 DEF ServerTypeOK
  <2>4. port' \in Seq({Quit} \cup Tasks)
    BY <2>1, AppendProperties DEF ServerTypeOK
  <2>5. main' \in {"serve", "joingame", "shutdown", "post", "joinports", "finalize"}
    BY <2>1 DEF ServerTypeOK
  <2> QED
    BY <2>1, <2>3, <2>4, <2>5 DEF ServerTypeOK
<1>10. CASE UNCHANGED vars
  BY <1>1, <1>10 DEF vars
<1>11. ASSUME NEW w \in Workers, DbCheck(w) PROVE ServerTypeOK'
  BY <1>1, <1>11 DEF DbCheck
<1>12. ASSUME NEW t \in Takers, DbStep(t) \/ DbWakeUp(t) PROVE ServerTypeOK'
  BY <1>1, <1>12 DEF DbStep, DbWakeUp
<1>13. CASE Finalize
  BY <1>1, <1>13 DEF Finalize
<1> QED
  BY <1>2, <1>3, <1>4, <1>5, <1>6, <1>7, <1>8, <1>9, <1>10, <1>11, <1>12, <1>13
     DEF Next, Exiting, PortStep

\* The server starts with the invariant ...
LEMMA Initial == Init => Inv
<1> SUFFICES ASSUME Init PROVE Inv
  OBVIOUS
<1>1. DbInv
  BY DbInitial DEF Init
<1>2. Cardinality(Ports) \in Nat
  BY FS_CardinalityType, PortAssumption
<1>3. ServerTypeOK
  BY <1>2, PortAssumption DEF Init, ServerTypeOK
<1> QED
  BY <1>1, <1>3, InvParts

\* ... and keeps it.
LEMMA Invariant == Spec => []Inv
<1>1. Inv /\ [Next]_vars => Inv'
  <2>1. ASSUME Inv, [Next]_vars PROVE Inv'
    <3>1. DbInv' /\ ServerTypeOK'
      BY <2>1, DbPart, ServerPart
    <3>2. TypeOK'
      BY <3>1 DEF TypeOK, ServerTypeOK, DbInv
    <3>3. (\A p \in Ports : ppc[p] = "handle" => login[p] # 0)'
      BY <3>1 DEF ServerTypeOK
    <3> QED
      BY <3>1, <3>2, <3>3 DEF Inv
  <2> QED
    BY <2>1
<1> QED
  BY <1>1, Initial, PTL DEF Spec

-----------------------------------------------------------------------------
\* Types, for any number of port workers, connections and tasks.
THEOREM TypeCorrect == Spec => []TypeOK
<1>1. Inv => TypeOK
  BY DEF Inv
<1> QED
  BY <1>1, Invariant, PTL

\* Acquire and Release give a connection of the pool to one thread at a time
\* and lose none, whatever tasks throw and however workers and the health
\* thread interleave, shutdown included.
THEOREM LeasesStayApart == Spec => []LeasesApart
<1>1. Inv => LeasesApart
  BY DEF Inv, DbInv
<1> QED
  BY <1>1, Invariant, PTL

\* Finalize destroys the pool when no worker, and no health thread, can come
\* back to it.
THEOREM PoolDestroyedLast == Spec => []PoolOutlivesThreads
<1>1. Inv => PoolOutlivesThreads
  BY DEF Inv, DbInv, Stopping, PoolOutlivesThreads
<1> QED
  BY <1>1, Invariant, PTL

\* Push loses no wake-up: while the manager runs, a waiting task has a worker
\* that is awake.  (It is Finalize's notify_all that can be lost.)
THEOREM PushWakes == Spec => []NoTaskStranded
<1>1. Inv => NoTaskStranded
  BY DEF Inv, DbInv
<1> QED
  BY <1>1, Invariant, PTL

-----------------------------------------------------------------------------
\* Threads on their way to a connection.
Comers == {t \in Takers : dpc[t] = "acquire"}

\* The threads are finitely many, and so are those on their way.
LEMMA ComersFacts ==
  /\ IsFiniteSet(Takers)
  /\ IsFiniteSet(Comers) /\ Cardinality(Comers) \in Nat
<1>1. IsFiniteSet(Workers)
  BY FS_Interval, PoolAssumption DEF Workers
<1>2. IsFiniteSet(Takers)
  <2>1. Takers = Workers \cup {Health}
    BY DEF Takers
  <2> QED
    BY <1>1, <2>1, FS_AddElement
<1>3. Comers \subseteq Takers
  BY DEF Comers
<1> QED
  BY <1>2, <1>3, FS_Subset, FS_CardinalityType

\* Steps that leave the connections alone, wake sleepers only towards m_free
\* and turn nobody back.
LEMMA ConnQuiet ==
  ASSUME NoConnStranded, DbTypeOK, DbTypeOK', free' = free,
         \A t \in Takers : /\ dpc[t] = "acquire" => dpc'[t] = "acquire"
                           /\ dpc'[t] = "poolwait" => dpc[t] = "poolwait"
  PROVE  NoConnStranded'
<1> SUFFICES ASSUME NEW u \in Takers, dpc'[u] = "poolwait"
             PROVE  Len(free') <= Cardinality(Comers')
  BY DEF NoConnStranded, Comers
<1>0. dpc[u] = "poolwait" /\ Len(free) \in Nat
  BY DEF DbTypeOK
<1>1. Len(free) <= Cardinality(Comers)
  BY <1>0 DEF NoConnStranded, Comers
<1>2. Comers \subseteq Comers' /\ Comers' \subseteq Takers
  BY DEF Comers
<1>3. /\ IsFiniteSet(Comers') /\ Cardinality(Comers') \in Nat
      /\ Cardinality(Comers) \in Nat /\ Cardinality(Comers) <= Cardinality(Comers')
  BY <1>2, ComersFacts, FS_Subset, FS_CardinalityType
<1> QED
  BY <1>0, <1>1, <1>3

\* The same for a step that sends one thread from a label to another.
LEMMA ConnGoto ==
  ASSUME NoConnStranded, DbTypeOK, DbTypeOK', free' = free,
         NEW t \in Takers, NEW label, DbGoto(t, label),
         dpc[t] # "acquire", label # "poolwait"
  PROVE  NoConnStranded'
<1>1. /\ dpc'[t] = label
      /\ \A u \in Takers : u # t => dpc'[u] = dpc[u]
  BY DEF DbTypeOK, DbGoto
<1> QED
  BY <1>1, ConnQuiet

\* ConnPool::Acquire: the thread that sleeps has seen m_free empty, the one that
\* takes a connection was on its way to it.
LEMMA ConnAcquire ==
  ASSUME NoConnStranded, DbTypeOK, DbTypeOK', NEW t \in Takers, Acquire(t)
  PROVE  NoConnStranded'
<1>1. CASE free = <<>>
  <2>1. free' = <<>> /\ Len(free') = 0
    BY <1>1, EmptySeq DEF Acquire
  <2>2. Cardinality(Comers') \in Nat
    <3>1. Comers' \subseteq Takers
      BY DEF Comers
    <3> QED
      BY <3>1, ComersFacts, FS_Subset, FS_CardinalityType
  <2> QED
    BY <2>1, <2>2 DEF NoConnStranded, Comers
<1>2. CASE free # <<>>
  <2>1. /\ dpc[t] = "acquire" /\ DbGoto(t, "run")
        /\ free' = SubSeq(free, 1, Len(free) - 1)
    BY <1>2 DEF Acquire
  <2>2. Len(free') = Len(free) - 1 /\ Len(free) \in Nat \ {0}
    BY <1>2, <2>1, PopStep DEF DbTypeOK
  <2>3. dpc'[t] = "run" /\ \A u \in Takers : u # t => dpc'[u] = dpc[u]
    BY <2>1 DEF DbTypeOK, DbGoto
  <2>4. t \in Comers /\ Comers' = Comers \ {t}
    BY <2>1, <2>3 DEF Comers
  <2>5. Cardinality(Comers') = Cardinality(Comers) - 1 /\ Cardinality(Comers) \in Nat
    BY <2>4, ComersFacts, FS_RemoveElement
  <2> SUFFICES ASSUME NEW u \in Takers, dpc'[u] = "poolwait"
               PROVE  Len(free') <= Cardinality(Comers')
    BY DEF NoConnStranded, Comers
  <2>6. dpc[u] = "poolwait"
    BY <2>3
  <2>7. Len(free) <= Cardinality(Comers)
    BY <2>6 DEF NoConnStranded, Comers
  <2> QED
    BY <2>2, <2>5, <2>7
<1> QED
  BY <1>1, <1>2

\* The end of a lease: the connection comes back together with a thread that is
\* sent for it, if one sleeps.
LEMMA ConnRelease ==
  ASSUME NoConnStranded, DbTypeOK, DbTypeOK', NEW t \in Takers, Release(t)
  PROVE  NoConnStranded'
<1>1. dpc[t] = "release" /\ AfterRelease(t) \in {"sleep", "loop"}
  BY DEF Release, AfterRelease
<1>2. CASE {u \in Takers : dpc[u] = "poolwait"} = {}
  <2>1. DbGoto(t, AfterRelease(t)) /\ \A u \in Takers : dpc[u] # "poolwait"
    BY <1>2 DEF Release
  <2>2. \A u \in Takers : dpc'[u] # "poolwait"
    BY <1>1, <2>1 DEF DbTypeOK, DbGoto
  <2> QED
    BY <2>2 DEF NoConnStranded
<1>3. CASE {u \in Takers : dpc[u] = "poolwait"} # {}
  <2>1. PICK u \in Takers :
          /\ dpc[u] = "poolwait"
          /\ dpc' = [dpc EXCEPT ![t] = AfterRelease(t), ![u] = "acquire"]
    BY <1>3 DEF Release
  <2>2. /\ u # t /\ dpc'[u] = "acquire" /\ dpc'[t] \in {"sleep", "loop"}
        /\ \A v \in Takers : v # u /\ v # t => dpc'[v] = dpc[v]
    BY <1>1, <2>1 DEF DbTypeOK
  <2>3. u \notin Comers /\ Comers' = Comers \cup {u}
    BY <1>1, <2>1, <2>2 DEF Comers
  <2>4. Cardinality(Comers') = Cardinality(Comers) + 1 /\ Cardinality(Comers) \in Nat
    BY <2>3, ComersFacts, FS_AddElement
  <2>5. Len(free) <= Cardinality(Comers)
    BY <2>1 DEF NoConnStranded, Comers
  <2>6. Len(free') = Len(free) + 1 /\ Len(free) \in Nat
    <3>1. free \in Seq(Conns) /\ free' \in Seq(Conns) /\ free' = Append(free, lease[t])
      BY DEF Release, DbTypeOK
    <3>2. lease[t] \in {0} \cup Conns
      BY DEF DbTypeOK
    <3>3. free \in Seq({0} \cup Conns)
      BY <3>1
    <3> QED
      BY <3>1, <3>2, <3>3, AppendProperties
  <2> QED
    BY <2>4, <2>5, <2>6 DEF NoConnStranded, Comers
<1> QED
  BY <1>2, <1>3

\* Every step keeps it.
LEMMA ConnStep ==
  ASSUME Inv, Inv', NoConnStranded, [Next]_vars
  PROVE  NoConnStranded'
<1>0. DbTypeOK /\ DbTypeOK'
  BY DEF Inv, DbInv
<1> USE <1>0
<1>1. ASSUME dpc' = dpc, free' = free PROVE NoConnStranded'
  BY <1>1, ConnQuiet
<1>2. CASE UNCHANGED vars
  BY <1>1, <1>2 DEF vars, dbVars
<1>3. CASE Arrive \/ StopLoop \/ StopLoopJoins \/ ShutDown \/ PostQuit \/ ShutDownJoins
  BY <1>1, <1>3
     DEF Arrive, StopLoop, StopLoopJoins, ShutDown, PostQuit, ShutDownJoins, MainVarsKept,
         dbVars
<1>4. CASE GameStep
  BY <1>1, <1>4 DEF GameStep, GameLoop, GameJob, GameDrained, GameVarsKept, dbVars
<1>5. CASE Finalize
  <2>1. CASE FinalizeLowers \/ FinalizeJoins
    BY <1>1, <2>1 DEF FinalizeLowers, FinalizeJoins
  <2>2. CASE FinalizeNotifies
    BY <2>2, ConnQuiet DEF FinalizeNotifies
  <2> QED
    BY <1>5, <2>1, <2>2 DEF Finalize
<1>6. ASSUME NEW p \in Ports, PortStep(p) PROVE NoConnStranded'
  <2>1. CASE PortLoop(p) \/ PortGets(p)
    BY <1>1, <2>1 DEF PortLoop, PortGets, dbVars
  <2>2. CASE PortHandles(p)
    <3>1. free' = free
      BY <2>2 DEF PortHandles, Push
    <3>2. \/ dpc' = dpc
          \/ \E w \in Workers : dpc[w] = "wait" /\ DbGoto(w, "check")
      BY <2>2 DEF PortHandles, Push
    <3> QED
      BY <1>1, <3>1, <3>2, ThreadFacts, ConnGoto
  <2> QED
    BY <1>6, <2>1, <2>2 DEF PortStep
<1>7. ASSUME NEW t \in Takers, Run(t) \/ Loop(t) \/ WakeUp(t) \/ Sleep(t) \/ HealthPause
      PROVE  NoConnStranded'
  <2>1. \E u \in Takers, label \in {"release", "done", "acquire", "check", "wait", "loop"} :
           DbGoto(u, label) /\ dpc[u] # "acquire"
    BY <1>7, ThreadFacts DEF Run, Loop, WakeUp, Sleep, HealthPause
  <2>2. free' = free
    BY <1>7 DEF Run, Loop, WakeUp, Sleep, HealthPause
  <2> QED
    BY <2>1, <2>2, ConnGoto
<1>8. ASSUME NEW w \in Workers, Check(w) PROVE NoConnStranded'
  <2>1. \E label \in {"acquire", "block", "done"} : DbGoto(w, label) /\ dpc[w] # "acquire"
    BY <1>8 DEF Check
  <2>2. free' = free
    BY <1>8 DEF Check
  <2> QED
    BY <2>1, <2>2, ThreadFacts, ConnGoto
<1>9. ASSUME NEW w \in Workers, WorkerRuns(w) \/ DbCheck(w) PROVE NoConnStranded'
  BY <1>7, <1>8, <1>9, ThreadFacts DEF WorkerRuns, DbCheck
<1>10. ASSUME NEW t \in Takers, DbStep(t) \/ DbWakeUp(t) PROVE NoConnStranded'
  BY <1>7, <1>10, ConnAcquire, ConnRelease DEF DbStep, DbWakeUp
<1> QED
  BY <1>2, <1>3, <1>4, <1>5, <1>6, <1>9, <1>10 DEF Next, Exiting

\* No lease ends with its connection left idle and a thread asleep in Acquire:
\* while threads sleep, each free connection has a thread on its way to it,
\* spurious wake-ups and the health thread included (DbCore/OdbcCore.h, ConnPool).
THEOREM NoConnectionIdles == Spec => []NoConnStranded
<1>1. Init => NoConnStranded
  BY DEF Init, DbInit, NoConnStranded
<1>2. Inv /\ Inv' /\ NoConnStranded /\ [Next]_vars => NoConnStranded'
  BY ConnStep
<1> QED
  BY <1>1, <1>2, Invariant, PTL DEF Spec

-----------------------------------------------------------------------------
\* The last Drain starts after m_bRunning went down.
LastIsLate == gpc \in {"last", "done"} => ~gameRunning

\* The last drain starts after StopLoop and ends on an empty queue: what is left in it
\* was posted late.
LEMMA JobsStep ==
  ASSUME Inv, LastIsLate, JobsBeforeStopRun, [Next]_vars
  PROVE  LastIsLate' /\ JobsBeforeStopRun'
<1>1. CASE gpc' = gpc /\ jobs' = jobs /\ (gameRunning' = gameRunning \/ ~gameRunning')
  BY <1>1 DEF LastIsLate, JobsBeforeStopRun
<1>2. CASE GameStep
  <2>1. gameRunning' = gameRunning
    BY <1>2 DEF GameStep, GameLoop, GameJob, GameDrained, GameVarsKept
  <2>2. CASE GameLoop
    BY <2>1, <2>2 DEF GameLoop, LastIsLate, JobsBeforeStopRun
  <2>3. CASE GameJob
    BY <2>1, <2>3 DEF GameJob, LastIsLate, JobsBeforeStopRun
  <2>4. CASE GameDrained
    <3>1. gpc' = "done" => gpc = "last" /\ jobs' = <<>>
      BY <2>4 DEF GameDrained
    <3>2. gpc' \in {"loop", "done"}
      BY <2>4 DEF GameDrained
    <3> QED
      BY <2>1, <3>1, <3>2 DEF LastIsLate, JobsBeforeStopRun
  <2> QED
    BY <1>2, <2>2, <2>3, <2>4 DEF GameStep
<1>3. ASSUME NEW w \in Workers, WorkerRuns(w)
      PROVE  LastIsLate' /\ JobsBeforeStopRun'
  <2>1. gpc' = gpc /\ gameRunning' = gameRunning
    BY <1>3 DEF WorkerRuns
  <2>2. LastIsLate'
    BY <2>1 DEF LastIsLate
  <2> DEFINE S == [task : Tasks, late : BOOLEAN]
  <2>3. \/ jobs' = jobs
        \/ \E j : j.late = ~gameRunning /\ jobs' = Append(jobs, j)
    <3>1. \/ jobs' = jobs
          \/ jobs' = Append(jobs, [task |-> task[w], late |-> ~gameRunning])
      BY <1>3 DEF WorkerRuns
    <3>2. [task |-> task[w], late |-> ~gameRunning].late = ~gameRunning
      BY Zenon
    <3> QED
      BY <3>1, <3>2, Zenon
  <2>4. ASSUME jobs' = jobs, gpc = "done"
        PROVE  \A i \in 1 .. Len(jobs') : jobs'[i].late
    <3>1. \A i \in 1 .. Len(jobs) : jobs[i].late
      BY <2>4, Zenon DEF JobsBeforeStopRun
    <3> QED
      BY <2>4, <3>1, Zenon
  <2>5. ASSUME NEW j, j.late = ~gameRunning, jobs' = Append(jobs, j), gpc = "done"
        PROVE  \A i \in 1 .. Len(jobs') : jobs'[i].late
    <3>1. ~gameRunning
      BY <2>5 DEF LastIsLate
    <3>2. j.late
      BY <2>5, <3>1, Zenon
    <3>3. jobs \in Seq(S)
      BY DEF Inv, TypeOK
    <3> HIDE DEF S
    <3>4. /\ Len(jobs') = Len(jobs) + 1 /\ Len(jobs) \in Nat
          /\ \A i \in 1 .. Len(jobs) : jobs'[i] = jobs[i]
          /\ jobs'[Len(jobs) + 1] = j
      BY <2>5, <3>3
    <3>5. ASSUME NEW i \in 1 .. Len(jobs') PROVE jobs'[i].late
      <4>1. i = Len(jobs) + 1 \/ i \in 1 .. Len(jobs)
        BY <3>4
      <4>2. CASE i = Len(jobs) + 1
        BY <3>2, <3>4, <4>2, Zenon
      <4>3. CASE i \in 1 .. Len(jobs)
        <5>1. jobs[i].late
          BY <2>5, <4>3, Zenon DEF JobsBeforeStopRun
        <5> QED
          BY <3>4, <4>3, <5>1, Zenon
      <4> QED
        BY <4>1, <4>2, <4>3
    <3> QED
      BY <3>5, Zenon
  <2>6. JobsBeforeStopRun'
    BY <2>1, <2>3, <2>4, <2>5 DEF JobsBeforeStopRun
  <2> QED
    BY <2>2, <2>6
<1>4. CASE Arrive \/ StopLoop \/ Exiting
  BY <1>1, <1>4
     DEF Arrive, StopLoop, Exiting, StopLoopJoins, ShutDown, PostQuit, ShutDownJoins,
         Finalize, MainVarsKept, serverVars
<1>5. ASSUME NEW p \in Ports, PortStep(p) PROVE LastIsLate' /\ JobsBeforeStopRun'
  BY <1>1, <1>5 DEF PortStep, PortLoop, PortGets, PortHandles
<1>6. ASSUME NEW w \in Workers, DbCheck(w) PROVE LastIsLate' /\ JobsBeforeStopRun'
  BY <1>1, <1>6 DEF DbCheck, serverVars
<1>7. ASSUME NEW t \in Takers, DbStep(t) \/ DbWakeUp(t)
      PROVE  LastIsLate' /\ JobsBeforeStopRun'
  BY <1>1, <1>7 DEF DbStep, DbWakeUp, serverVars
<1>8. CASE UNCHANGED vars
  BY <1>1, <1>8 DEF vars, serverVars
<1> QED
  BY <1>2, <1>3, <1>4, <1>5, <1>6, <1>7, <1>8 DEF Next

\* StopLoop returns with every job run that was posted before it was called.
THEOREM LastDrainRunsAll == Spec => []JobsBeforeStopRun
<1>1. Init => LastIsLate /\ JobsBeforeStopRun
  BY DEF Init, LastIsLate, JobsBeforeStopRun
<1>2. Inv /\ LastIsLate /\ JobsBeforeStopRun /\ [Next]_vars
        => LastIsLate' /\ JobsBeforeStopRun'
  BY JobsStep
<1> QED
  BY <1>1, <1>2, Invariant, PTL DEF Spec
=============================================================================
