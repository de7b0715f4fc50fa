---------------------------- MODULE ServerShutdown ----------------------------
(***************************************************************************)
(* The threads of the game server from start to exit (GameServer/main.cpp):*)
(* the workers of the completion port (IocpCore: Run, WorkerLoop,          *)
(* ShutDown), the game thread (CGameManager: RunLoop, StopLoop, with       *)
(* GameDispatcher between), DBManager (DbManager), and main, which ends    *)
(* them in this order: game loop, port workers, DBManager.                 *)
(*                                                                         *)
(* A completion is a login packet, whose handler pushes a task, or one of  *)
(* the keys ShutDown posts; the task's callback posts a job for the game   *)
(* thread.  What login, session and connection do is in GameLogin and      *)
(* SessionLifecycle.                                                       *)
(***************************************************************************)
EXTENDS DbManager

CONSTANTS
  Ports,      \* threads in WorkerLoop
  FrameJobs   \* jobs Drain runs in one frame at most

ASSUME PortAssumption == IsFiniteSet(Ports) /\ FrameJobs \in Nat \ {0}

VARIABLES
  port,         \* the completion port: logins, and 0 for a quit key
  iocpRunning,  \* IocpCore::m_isRunning
  ppc,          \* next step of each port worker
  login,        \* the login a port worker handles
  gameRunning,  \* CGameManager::m_bRunning
  gpc,          \* next step of the game thread
  batch,        \* jobs run in this Drain
  jobs,         \* GameDispatcher::m_q: [task, late], late = after StopLoop
  main,         \* next step of main
  quits,        \* quit keys posted
  arrived       \* logins arrived

serverVars == <<port, iocpRunning, ppc, login, gameRunning, gpc, batch, jobs,
                main, quits, arrived>>

vars == <<dbVars, serverVars>>

Quit == 0

TypeOK ==
  /\ DbTypeOK
  /\ port \in Seq({Quit} \cup Tasks) /\ iocpRunning \in BOOLEAN
  /\ ppc \in [Ports -> {"loop", "get", "handle", "done"}]
  /\ login \in [Ports -> {0} \cup Tasks]
  /\ gameRunning \in BOOLEAN /\ gpc \in {"loop", "drain", "last", "done"}
  /\ batch \in 0 .. FrameJobs /\ jobs \in Seq([task : Tasks, late : BOOLEAN])
  /\ main \in {"serve", "joingame", "shutdown", "post", "joinports", "finalize"}
  /\ quits \in 0 .. Cardinality(Ports) /\ arrived \in {0} \cup Tasks

Init ==
  /\ DbInit
  /\ port = <<>> /\ iocpRunning = TRUE
  /\ ppc = [p \in Ports |-> "loop"] /\ login = [p \in Ports |-> 0]
  /\ gameRunning = TRUE /\ gpc = "loop" /\ batch = 0 /\ jobs = <<>>
  /\ main = "serve" /\ quits = 0 /\ arrived = 0

-----------------------------------------------------------------------------
\* A login packet of some client arrives and its receive completes.
Arrive ==
  /\ arrived < MaxTasks /\ main # "finalize"
  /\ arrived' = arrived + 1 /\ port' = Append(port, arrived + 1)
  /\ UNCHANGED <<dbVars, iocpRunning, ppc, login, gameRunning, gpc, batch, jobs,
                 main, quits>>

PortGoto(p, label) == ppc' = [ppc EXCEPT ![p] = label]

\* while (m_isRunning).
PortLoop(p) ==
  /\ ppc[p] = "loop"
  /\ PortGoto(p, IF iocpRunning THEN "get" ELSE "done")
  /\ UNCHANGED <<dbVars, port, iocpRunning, login, gameRunning, gpc, batch, jobs,
                 main, quits, arrived>>

\* GetQueuedCompletionStatus returns: a worker that finds the flag down leaves,
\* whatever it got; a quit key alone does not end it.
PortGets(p) ==
  /\ ppc[p] = "get" /\ port # <<>>
  /\ port' = Tail(port)
  /\ IF ~iocpRunning THEN PortGoto(p, "done") /\ UNCHANGED login
     ELSE IF Head(port) = Quit THEN PortGoto(p, "loop") /\ UNCHANGED login
     ELSE PortGoto(p, "handle") /\ login' = [login EXCEPT ![p] = Head(port)]
  /\ UNCHANGED <<dbVars, iocpRunning, gameRunning, gpc, batch, jobs, main, quits,
                 arrived>>

\* Handle_Login: Enqueue_CheckAccount.
PortHandles(p) ==
  /\ ppc[p] = "handle"
  /\ Push(login[p])
  /\ PortGoto(p, "loop") /\ login' = [login EXCEPT ![p] = 0]
  /\ UNCHANGED <<port, iocpRunning, gameRunning, gpc, batch, jobs, main, quits,
                 arrived>>

-----------------------------------------------------------------------------
\* A worker of DBManager runs its task: the callback posts the login for the
\* game thread, unless an exception ended the task before.
WorkerRuns(w) ==
  /\ Run(w)
  /\ \/ jobs' = Append(jobs, [task |-> task[w], late |-> ~gameRunning])
     \/ UNCHANGED jobs
  /\ UNCHANGED <<port, iocpRunning, ppc, login, gameRunning, gpc, batch, main,
                 quits, arrived>>

\* What the threads of DBManager do on their own.
DbStep(t) ==
  /\ \/ Loop(t) \/ Acquire(t) \/ Release(t)
     \/ t = Health /\ (Run(t) \/ HealthPause)
     \/ t # Health /\ Sleep(t)
  /\ UNCHANGED serverVars

DbCheck(w) == Check(w) /\ UNCHANGED serverVars
DbWakeUp(t) == WakeUp(t) /\ UNCHANGED serverVars

-----------------------------------------------------------------------------
GameVarsKept == UNCHANGED <<dbVars, port, iocpRunning, ppc, login, gameRunning,
                            main, quits, arrived>>

\* RunLoop: another frame, or the last Drain.
GameLoop ==
  /\ gpc = "loop"
  /\ gpc' = IF gameRunning THEN "drain" ELSE "last"
  /\ batch' = 0 /\ UNCHANGED jobs
  /\ GameVarsKept

\* Drain takes a job.  (The 100000 of the last Drain stand for all.)
GameJob ==
  /\ gpc = "last" \/ (gpc = "drain" /\ batch < FrameJobs)
  /\ jobs # <<>>
  /\ jobs' = Tail(jobs)
  /\ batch' = IF gpc = "last" THEN batch ELSE batch + 1
  /\ UNCHANGED gpc
  /\ GameVarsKept

\* Faulty: the thread ends with its loop.
GameDrainedNoLast ==
  /\ gpc = "last" \/ (gpc = "drain" /\ (jobs = <<>> \/ batch = FrameJobs))
  /\ gpc' = IF gpc = "drain" THEN "loop" ELSE "done"
  /\ UNCHANGED <<batch, jobs>>
  /\ GameVarsKept

\* Drain ends: nothing left, or enough for this frame.
GameDrained ==
  /\ \/ gpc \in {"drain", "last"} /\ jobs = <<>>
     \/ gpc = "drain" /\ batch = FrameJobs
  /\ gpc' = IF gpc = "drain" THEN "loop" ELSE "done"
  /\ UNCHANGED <<batch, jobs>>
  /\ GameVarsKept

-----------------------------------------------------------------------------
MainVarsKept == UNCHANGED <<dbVars, ppc, login, gpc, batch, jobs, arrived>>

\* "quit" was read: StopLoop lowers m_bRunning ...
StopLoop ==
  /\ main = "serve"
  /\ gameRunning' = FALSE /\ main' = "joingame"
  /\ UNCHANGED <<port, iocpRunning, quits>> /\ MainVarsKept

\* ... and joins the game thread.
StopLoopJoins ==
  /\ main = "joingame" /\ gpc = "done"
  /\ main' = "shutdown"
  /\ UNCHANGED <<port, iocpRunning, quits, gameRunning>> /\ MainVarsKept

\* IocpCore::ShutDown lowers m_isRunning ...
ShutDown ==
  /\ main = "shutdown"
  /\ iocpRunning' = FALSE /\ main' = "post"
  /\ UNCHANGED <<port, quits, gameRunning>> /\ MainVarsKept

\* Faulty: one key too few.
PostQuitLess ==
  /\ main = "post"
  /\ IF quits + 1 < Cardinality(Ports)
       THEN quits' = quits + 1 /\ port' = Append(port, Quit) /\ UNCHANGED main
       ELSE main' = "joinports" /\ UNCHANGED <<quits, port>>
  /\ UNCHANGED <<iocpRunning, gameRunning>> /\ MainVarsKept

\* Faulty: one key too many.
PostQuitMore ==
  /\ main = "post"
  /\ IF quits <= Cardinality(Ports)
       THEN quits' = quits + 1 /\ port' = Append(port, Quit) /\ UNCHANGED main
       ELSE main' = "joinports" /\ UNCHANGED <<quits, port>>
  /\ UNCHANGED <<iocpRunning, gameRunning>> /\ MainVarsKept

\* ... posts a quit key for each worker ...
PostQuit ==
  /\ main = "post"
  /\ IF quits < Cardinality(Ports)
       THEN quits' = quits + 1 /\ port' = Append(port, Quit) /\ UNCHANGED main
       ELSE main' = "joinports" /\ UNCHANGED <<quits, port>>
  /\ UNCHANGED <<iocpRunning, gameRunning>> /\ MainVarsKept

\* ... joins the workers and closes the port.
ShutDownJoins ==
  /\ main = "joinports" /\ \A p \in Ports : ppc[p] = "done"
  /\ main' = "finalize"
  /\ UNCHANGED <<port, iocpRunning, quits, gameRunning>> /\ MainVarsKept

Finalize ==
  /\ main = "finalize"
  /\ FinalizeLowers \/ FinalizeNotifies \/ FinalizeJoins
  /\ UNCHANGED serverVars

-----------------------------------------------------------------------------
PortStep(p) == PortLoop(p) \/ PortGets(p) \/ PortHandles(p)
GameStep == GameLoop \/ GameJob \/ GameDrained
Exiting == StopLoopJoins \/ ShutDown \/ PostQuit \/ ShutDownJoins \/ Finalize

Next ==
  \/ Arrive \/ StopLoop \/ Exiting \/ GameStep
  \/ \E p \in Ports : PortStep(p)
  \/ \E w \in Workers : WorkerRuns(w) \/ DbCheck(w)
  \/ \E t \in Takers : DbStep(t) \/ DbWakeUp(t)

Spec == Init /\ [][Next]_vars

\* Every thread runs on, and gets mq_mtx in the end, which is held for a few
\* instructions at a time.  Nobody has to type "quit", and no thread has to
\* wake up without being woken.
Fairness ==
  /\ WF_vars(Exiting) /\ WF_vars(GameStep)
  /\ \A p \in Ports : WF_vars(PortLoop(p) \/ PortGets(p)) /\ SF_vars(PortHandles(p))
  /\ \A w \in Workers : WF_vars(WorkerRuns(w)) /\ SF_vars(DbCheck(w))
  /\ \A t \in Takers : WF_vars(DbStep(t))

FairSpec == Spec /\ Fairness
-----------------------------------------------------------------------------
\* The game thread ends with every job run that was posted before StopLoop:
\* what is left was posted by tasks that ended later.
JobsBeforeStopRun == gpc = "done" => \A i \in 1 .. Len(jobs) : jobs[i].late

\* ShutDown returns: every worker of the port leaves its loop.
ShutDownReturns == (main = "shutdown") ~> (main = "finalize")

\* The stop gets to its end, through the port's workers and DBManager's threads.
StopReturns == ShutDownReturns /\ FinalizeReturnsUnlessMissed
=============================================================================
