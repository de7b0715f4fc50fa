------------------------------ MODULE DbManager ------------------------------
(***************************************************************************)
(* DBManager (GameServer/DBManager.cpp) and its connection pool            *)
(* (DbCore/OdbcCore.h, ConnPool): a queue of tasks behind a mutex and a    *)
(* condition variable, one worker per connection, a health thread that     *)
(* competes for the connections, and Finalize, which ends them all.        *)
(*                                                                         *)
(* A step is what a thread does under one lock, or between two looks at    *)
(* m_running.  A thread about to sleep on mq_cv still has mq_mtx: that is  *)
(* a step of its own, because m_running is written without the mutex.      *)
(* The module has no Next: ServerShutdown composes it with the threads     *)
(* that push the tasks and with main, which calls Finalize.                *)
(***************************************************************************)
EXTENDS Naturals, Sequences, FiniteSets

CONSTANTS
  PoolSize,  \* connections, and workers
  MaxTasks   \* bound on the tasks pushed

ASSUME PoolAssumption == PoolSize \in Nat \ {0} /\ MaxTasks \in Nat

VARIABLES
  running,  \* m_running
  mq,       \* mq: tasks, by number
  dpc,      \* next step of each worker and of the health thread
  task,     \* the task a worker took, 0 = none
  free,     \* ConnPool::m_free, a stack
  lease,    \* the connection a thread has, 0 = none
  fin,      \* how far Finalize got
  ended,    \* ghost: tasks that were run, or ended in an exception
  missed    \* ghost: workers notify_all found between predicate and sleep

dbVars == <<running, mq, dpc, task, free, lease, fin, ended, missed>>

Workers == 1 .. PoolSize
Health  == 0
Takers  == {Health} \cup Workers
Conns   == 1 .. PoolSize
Tasks   == 1 .. MaxTasks

WorkerPCs == {"loop", "check", "block", "wait", "acquire", "poolwait", "run",
              "release", "done"}
HealthPCs == {"loop", "acquire", "poolwait", "run", "release", "sleep", "done"}

DbTypeOK ==
  /\ running \in BOOLEAN /\ mq \in Seq(Tasks)
  /\ dpc \in [Takers -> WorkerPCs \cup HealthPCs]
  /\ dpc[Health] \in HealthPCs /\ \A w \in Workers : dpc[w] \in WorkerPCs
  /\ task \in [Workers -> {0} \cup Tasks]
  /\ free \in Seq(Conns) /\ lease \in [Takers -> {0} \cup Conns]
  /\ fin \in {"up", "lowered", "join", "down"}
  /\ ended \subseteq Tasks /\ missed \subseteq Workers

\* Initialize: the pool is full, the threads are started.
DbInit ==
  /\ running = TRUE /\ mq = <<>>
  /\ dpc = [t \in Takers |-> "loop"] /\ task = [w \in Workers |-> 0]
  /\ free = [i \in 1 .. PoolSize |-> i] /\ lease = [t \in Takers |-> 0]
  /\ fin = "up" /\ ended = {} /\ missed = {}

DbGoto(t, label) == dpc' = [dpc EXCEPT ![t] = label]

\* mq_mtx between steps: only a worker about to sleep has it.
QueueFree == \A w \in Workers : dpc[w] # "block"

-----------------------------------------------------------------------------
\* Push: notify_one wakes some worker that sleeps, if there is one.
Push(n) ==
  /\ QueueFree
  /\ mq' = Append(mq, n)
  /\ LET asleep == {w \in Workers : dpc[w] = "wait"}
     IN IF asleep = {} THEN UNCHANGED dpc
        ELSE \E w \in asleep : DbGoto(w, "check")
  /\ UNCHANGED <<running, task, free, lease, fin, ended, missed>>

\* while (m_running), of the workers and of the health thread.
Loop(t) ==
  /\ dpc[t] = "loop"
  /\ DbGoto(t, IF ~running THEN "done" ELSE IF t = Health THEN "acquire" ELSE "check")
  /\ UNCHANGED <<running, mq, task, free, lease, fin, ended, missed>>

\* Faulty: waits without a predicate.
CheckBlind(w) ==
  /\ dpc[w] = "check" /\ QueueFree
  /\ DbGoto(w, "block")
  /\ UNCHANGED <<mq, task, running, free, lease, fin, ended, missed>>

\* mq_mtx taken: the predicate of the wait, and what follows it.  A task is
\* taken even after m_running went down.
Check(w) ==
  /\ dpc[w] = "check" /\ QueueFree
  /\ IF mq # <<>>
       THEN /\ task' = [task EXCEPT ![w] = Head(mq)] /\ mq' = Tail(mq)
            /\ DbGoto(w, "acquire")
       ELSE /\ DbGoto(w, IF running THEN "block" ELSE "done")
            /\ UNCHANGED <<mq, task>>
  /\ UNCHANGED <<running, free, lease, fin, ended, missed>>

\* The worker falls asleep and its mutex becomes free.
Sleep(w) ==
  /\ dpc[w] = "block"
  /\ DbGoto(w, "wait")
  /\ UNCHANGED <<running, mq, task, free, lease, fin, ended, missed>>

\* A condition variable may wake a thread for no reason.
WakeUp(t) ==
  /\ dpc[t] \in {"wait", "poolwait"}
  /\ DbGoto(t, IF dpc[t] = "wait" THEN "check" ELSE "acquire")
  /\ UNCHANGED <<running, mq, task, free, lease, fin, ended, missed>>

-----------------------------------------------------------------------------
\* Faulty: the connection is not taken off m_free.
AcquireKeeps(t) ==
  /\ dpc[t] = "acquire"
  /\ IF free = <<>> THEN DbGoto(t, "poolwait") /\ UNCHANGED <<free, lease>>
     ELSE /\ lease' = [lease EXCEPT ![t] = free[Len(free)]]
          /\ UNCHANGED free
          /\ DbGoto(t, "run")
  /\ UNCHANGED <<running, mq, task, fin, ended, missed>>

\* ConnPool::Acquire: the top of m_free, or sleep until there is one.
Acquire(t) ==
  /\ dpc[t] = "acquire"
  /\ IF free = <<>> THEN DbGoto(t, "poolwait") /\ UNCHANGED <<free, lease>>
     ELSE /\ lease' = [lease EXCEPT ![t] = free[Len(free)]]
          /\ free' = SubSeq(free, 1, Len(free) - 1)
          /\ DbGoto(t, "run")
  /\ UNCHANGED <<running, mq, task, fin, ended, missed>>

\* task.fn, or the health query: both may throw, and both are caught behind
\* the lease.
Run(t) ==
  /\ dpc[t] = "run"
  /\ ended' = IF t = Health THEN ended ELSE ended \cup {task[t]}
  /\ task' = [w \in Workers |-> IF w = t THEN 0 ELSE task[w]]
  /\ DbGoto(t, "release")
  /\ UNCHANGED <<running, mq, free, lease, fin, missed>>

AfterRelease(t) == IF t = Health THEN "sleep" ELSE "loop"

\* Faulty: nobody is told.
ReleaseSilent(t) ==
  /\ dpc[t] = "release"
  /\ free' = Append(free, lease[t]) /\ lease' = [lease EXCEPT ![t] = 0]
  /\ DbGoto(t, AfterRelease(t))
  /\ UNCHANGED <<running, mq, task, fin, ended, missed>>

\* The lease ends: the connection is pushed and one sleeping thread woken.
Release(t) ==
  /\ dpc[t] = "release"
  /\ free' = Append(free, lease[t]) /\ lease' = [lease EXCEPT ![t] = 0]
  /\ LET asleep == {u \in Takers : dpc[u] = "poolwait"}
     IN IF asleep = {} THEN DbGoto(t, AfterRelease(t))
        ELSE \E u \in asleep :
               dpc' = [dpc EXCEPT ![t] = AfterRelease(t), ![u] = "acquire"]
  /\ UNCHANGED <<running, mq, task, fin, ended, missed>>

\* m_healthSec have passed, or a look at m_running ended the pause.
HealthPause ==
  /\ dpc[Health] = "sleep"
  /\ DbGoto(Health, "loop")
  /\ UNCHANGED <<running, mq, task, free, lease, fin, ended, missed>>

-----------------------------------------------------------------------------
\* Finalize: m_running goes down, without mq_mtx ...
FinalizeLowers ==
  /\ fin = "up"
  /\ running' = FALSE /\ fin' = "lowered"
  /\ UNCHANGED <<mq, dpc, task, free, lease, ended, missed>>

\* ... notify_all, also without it ...
FinalizeNotifies ==
  /\ fin = "lowered" /\ fin' = "join"
  /\ dpc' = [t \in Takers |-> IF dpc[t] = "wait" THEN "check" ELSE dpc[t]]
  /\ missed' = {w \in Workers : dpc[w] = "block"}
  /\ UNCHANGED <<running, mq, task, free, lease, ended>>

\* Faulty: the health thread is not joined.
FinalizeJoinsWorkers ==
  /\ fin = "join" /\ \A w \in Workers : dpc[w] = "done"
  /\ fin' = "down"
  /\ UNCHANGED <<running, mq, dpc, task, free, lease, ended, missed>>

\* ... the threads are joined, pool and environment destroyed.
FinalizeJoins ==
  /\ fin = "join" /\ \A t \in Takers : dpc[t] = "done"
  /\ fin' = "down"
  /\ UNCHANGED <<running, mq, dpc, task, free, lease, ended, missed>>

-----------------------------------------------------------------------------
HasConn(t) == dpc[t] \in {"run", "release"}
IsFree(c)  == \E i \in 1 .. Len(free) : free[i] = c

\* A connection is free, once, or with one thread, and threads have one only
\* while they work with it: no statement of two tasks meets on a connection.
LeasesApart ==
  /\ \A i, j \in 1 .. Len(free) : free[i] = free[j] => i = j
  /\ \A t \in Takers : lease[t] # 0 <=> HasConn(t)
  /\ \A t, u \in Takers : lease[t] = lease[u] /\ lease[t] # 0 => t = u
  /\ \A c \in Conns : IsFree(c) <=> \A t \in Takers : lease[t] # c

\* Pool and environment are destroyed when no thread can come back to them.
PoolOutlivesThreads == fin = "down" => \A t \in Takers : dpc[t] = "done"

\* While the manager runs, a task never waits with every worker asleep, falling
\* asleep or gone: Push loses no wake-up.
NoTaskStranded ==
  running /\ mq # <<>> =>
    \E w \in Workers : dpc[w] \notin {"wait", "block", "done"}

\* Threads sleep in Acquire only while the free connections are spoken for by
\* threads on their way to them: a lease that ends never leaves its connection
\* idle with a thread asleep.
NoConnStranded ==
  (\E t \in Takers : dpc[t] = "poolwait")
    => Len(free) <= Cardinality({t \in Takers : dpc[t] = "acquire"})

\* A task pushed is run, unless Finalize was called.
TasksRun == \A n \in Tasks : (\E i \in 1 .. Len(mq) : mq[i] = n)
                               ~> (n \in ended \/ fin # "up")

\* Finalize returns, unless notify_all came between a worker's look at the
\* predicate and its sleep.
FinalizeReturnsUnlessMissed == (fin = "join" /\ missed = {}) ~> (fin = "down")

\* Finalize returns.
FinalizeReturns == (fin = "lowered") ~> (fin = "down")
=============================================================================
