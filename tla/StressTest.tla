------------------------------ MODULE StressTest ------------------------------
(***************************************************************************)
(* The load generator, StressTest/main.cpp: main connects the sockets,     *)
(* deals them out to worker threads, and when the time is over stops and   *)
(* joins them, closes the sockets and reports.  A worker sends a request   *)
(* on each of its sockets in turn and waits for the echo.                  *)
(*                                                                         *)
(* An answer is a number of units: those of its head (none in the raw      *)
(* protocol, the length in "len", size and id in "packet"), then the body. *)
(* What a socket brings is one stream of units, so that the answer to      *)
(* request k is its units (k-1)*L+1 .. k*L and the client sees no borders. *)
(* The server and the network are external: the server echoes, but at      *)
(* each call it is open whether the next unit comes, comes too late, or    *)
(* the connection has ended.                                               *)
(***************************************************************************)
EXTENDS Integers, FiniteSets, FiniteSetsExt

CONSTANTS
  Concurrency,  \* args.iConcurrency, the sockets asked for
  MaxThreads,   \* bound on args.iThreads
  BodyLen,      \* the units of a payload
  MaxRequests   \* bound on the requests of a socket before the time is over

ASSUME StressAssumption ==
  /\ Concurrency \in Nat /\ MaxThreads \in Nat \ {0}
  /\ BodyLen \in Nat \ {0} /\ MaxRequests \in Nat

VARIABLES
  mpc,        \* main's next step
  over,       \* the clock has reached tEnd
  stop,       \* request_stop was called
  proto,      \* args.eProto
  threads,    \* iThreads
  tried,      \* connects tried
  connected,  \* vSockets.size(): the sockets are 0 .. connected-1
  wpc,        \* each worker's next step
  cur,        \* the socket it is at
  head,       \* head units of the answer it has read
  need,       \* units the current RecvExact lacks, or the body announced
  conn,       \* each socket: "none", "good", "torn" (half a request went
              \* out), "ended" once a call has met the end, "closed"
  made,       \* requests made on it
  read,       \* units read from it
  gaveUp,     \* ghost: a receive on it has timed out
  rtts,       \* stats.vRttsMs.size()
  ok, err     \* stats.u64Ok, u64Err

main  == <<mpc, over, stop>>
args  == <<proto, threads, tried, connected>>
work  == <<wpc, cur, head, need>>
net   == <<conn, made, read, gaveUp>>
stats == <<rtts, ok, err>>
vars  == <<main, args, work, net, stats>>

Sockets == 0 .. Concurrency - 1
Workers == 0 .. MaxThreads - 1
Protos  == {"raw", "len", "packet"}

HeadUnits == CASE proto = "raw" -> 0 [] proto = "len" -> 1 [] proto = "packet" -> 2
L         == HeadUnits + BodyLen

Init ==
  /\ mpc = "parse" /\ over = FALSE /\ stop = FALSE
  /\ proto = "raw" /\ threads = 0 /\ tried = 0 /\ connected = 0
  /\ wpc = [w \in Workers |-> "none"] /\ cur = [w \in Workers |-> 0]
  /\ head = [w \in Workers |-> 0] /\ need = [w \in Workers |-> 0]
  /\ conn = [s \in Sockets |-> "none"] /\ made = [s \in Sockets |-> 0]
  /\ read = [s \in Sockets |-> 0] /\ gaveUp = [s \in Sockets |-> FALSE]
  /\ rtts = 0 /\ ok = 0 /\ err = 0

-----------------------------------------------------------------------------
(* main. *)

MainAt(pc) == mpc = pc

\* ParseArgs: the arguments are good, or refused (usage, return 1), or a number
\* is missing and stoi's exception leaves main.
ParseArgs ==
  /\ MainAt("parse")
  /\ \/ /\ mpc' = "connect"
        /\ proto' \in Protos /\ threads' \in 0 .. MaxThreads
     \/ /\ mpc' \in {"failed", "terminated"}
        /\ UNCHANGED <<proto, threads>>
  /\ UNCHANGED <<over, stop, tried, connected, work, net, stats>>

\* CreateAndConnectSocket: connected, or one of its calls failed and the socket
\* is not kept.
CreateAndConnectSocket ==
  /\ MainAt("connect") /\ tried < Concurrency
  /\ tried' = tried + 1
  /\ \/ /\ connected' = connected + 1
        /\ conn' = [conn EXCEPT ![connected] = "good"]
     \/ UNCHANGED <<connected, conn>>
  /\ UNCHANGED <<main, proto, threads, work, made, read, gaveUp, stats>>

\* iThreads = max(1, min(iThreads, vSockets.size())); 0 asks for the number of
\* the machine's cores.
ThreadsUsed(n) == Max({1, Min({n, connected})})

\* vBuckets[w].
Bucket(w) == {s \in 0 .. connected - 1 : s % threads = w}

\* Without a socket main returns 1, else the workers start.
StartWorkers ==
  /\ MainAt("connect") /\ tried = Concurrency
  /\ \/ /\ connected = 0 /\ mpc' = "failed"
        /\ UNCHANGED <<threads, wpc>>
     \/ /\ connected > 0 /\ mpc' = "run"
        /\ threads' \in {ThreadsUsed(n) : n \in IF threads = 0 THEN 1 .. MaxThreads
                                                ELSE {threads}}
        /\ wpc' = [w \in Workers |-> IF w < threads' THEN "while" ELSE "none"]
  /\ UNCHANGED <<over, stop, proto, tried, connected, cur, head, need, net, stats>>

\* The clock.
TimeUp ==
  /\ mpc = "run" /\ ~over /\ over' = TRUE
  /\ UNCHANGED <<mpc, stop, args, work, net, stats>>

\* The waiting loop of main sees the end.
WaitEnds ==
  /\ MainAt("run") /\ over /\ mpc' = "stop"
  /\ UNCHANGED <<over, stop, args, work, net, stats>>

RequestStop ==
  /\ MainAt("stop") /\ stop' = TRUE /\ mpc' = "join"
  /\ UNCHANGED <<over, args, work, net, stats>>

\* All workers have returned.
Join ==
  /\ MainAt("join")
  /\ \A w \in Workers : wpc[w] \in {"none", "done"}
  /\ mpc' = "close"
  /\ UNCHANGED <<over, stop, args, work, net, stats>>

\* Every socket is closed; then the counts are printed and saved, and main
\* returns.
CloseAndReport ==
  /\ MainAt("close") /\ mpc' = "exited"
  /\ conn' = [s \in Sockets |-> IF s < connected THEN "closed" ELSE conn[s]]
  /\ UNCHANGED <<over, stop, args, work, made, read, gaveUp, stats>>

-----------------------------------------------------------------------------
(* A worker, WorkerLoop. *)

WorkerAt(w, pc) == wpc[w] = pc /\ mpc # "terminated"
Go(w, pc)       == wpc' = [wpc EXCEPT ![w] = pc]

\* The outer loop: stopped or over, or the sockets of the bucket from the first.
\* (MaxRequests: a request beyond it is not begun, the worker waits for the end.)
OuterLoop(w) ==
  /\ WorkerAt(w, "while")
  /\ \/ /\ stop \/ over
        /\ Go(w, "done") /\ UNCHANGED cur
     \/ /\ ~stop /\ ~over /\ made[Min(Bucket(w))] < MaxRequests
        /\ Go(w, "for") /\ cur' = [cur EXCEPT ![w] = Min(Bucket(w))]
  /\ UNCHANGED <<main, args, head, need, net, stats>>

\* A stop ends the inner loop before the next request.
InnerStop(w) ==
  /\ WorkerAt(w, "for") /\ stop /\ Go(w, "while")
  /\ UNCHANGED <<main, args, cur, head, need, net, stats>>

\* SendAll, complete: on to the head of the answer, in the raw protocol to the
\* body, which is as long as the request.
Send(w) ==
  /\ WorkerAt(w, "for") /\ ~stop
  /\ conn[cur[w]] \in {"good", "torn"}
  /\ made' = [made EXCEPT ![cur[w]] = @ + 1]
  /\ need' = [need EXCEPT ![w] = IF HeadUnits = 0 THEN BodyLen ELSE 0]
  /\ Go(w, IF HeadUnits = 0 THEN "body" ELSE "head")
  /\ UNCHANGED <<main, args, cur, head, conn, read, gaveUp, stats>>

\* SendAll fails: the connection has ended, or the send timed out with part of
\* the request gone.
SendFails(w) ==
  /\ WorkerAt(w, "for") /\ ~stop
  /\ \E c \in {"torn", "ended"} :
       /\ conn[cur[w]] = "ended" => c = "ended"
       /\ conn' = [conn EXCEPT ![cur[w]] = c]
  /\ made' = [made EXCEPT ![cur[w]] = @ + 1]
  /\ Go(w, "err")
  /\ UNCHANGED <<main, args, cur, head, need, read, gaveUp, stats>>

\* The next unit of the stream can be had: one that a request was sent for.
HasUnit(s) == read[s] < made[s] * L
TakeUnit(s) == read' = [read EXCEPT ![s] = @ + 1]

\* The body lengths a length field may announce: the body's own when the field
\* is the one at the start of an answer, else whatever those bytes are.  -1 is a
\* size below the head's, which only "packet" can tell.
Announced(s) ==
  IF conn[s] = "good" /\ read[s] % L = 0 THEN {BodyLen}
  ELSE 0 .. BodyLen + 1 \cup (IF proto = "packet" THEN {-1} ELSE {})

\* The locals of a request end with it.
Forget(w) == head' = [head EXCEPT ![w] = 0] /\ need' = [need EXCEPT ![w] = 0]

\* RecvExact of the length, and of the id in "packet"; then the body.  The
\* packet's size is looked at when its id is read: below the head, an error.
\* (Between the two, need keeps the announced body plus one.)
ReadHead(w) ==
  LET s == cur[w] IN
  /\ WorkerAt(w, "head") /\ HasUnit(s) /\ TakeUnit(s)
  /\ \E body \in IF head[w] = 0 THEN Announced(s) ELSE {need[w] - 1} :
       \/ /\ head[w] + 1 < HeadUnits
          /\ head' = [head EXCEPT ![w] = @ + 1]
          /\ need' = [need EXCEPT ![w] = body + 1] /\ UNCHANGED wpc
       \/ /\ head[w] + 1 = HeadUnits /\ body >= 0
          /\ head' = [head EXCEPT ![w] = 0]
          /\ need' = [need EXCEPT ![w] = body]
          /\ Go(w, IF body = 0 THEN "push" ELSE "body")
       \/ /\ head[w] + 1 = HeadUnits /\ body < 0
          /\ Forget(w) /\ Go(w, "err")
  /\ UNCHANGED <<main, args, cur, conn, made, gaveUp, stats>>

\* Faulty: recv is called once, whatever it returns.
ReadBodyOnce(w) ==
  /\ WorkerAt(w, "body") /\ HasUnit(cur[w]) /\ TakeUnit(cur[w])
  /\ Go(w, "push")
  /\ UNCHANGED <<main, args, cur, head, need, conn, made, gaveUp, stats>>

\* RecvExact of the body.
ReadBody(w) ==
  LET s == cur[w] IN
  /\ WorkerAt(w, "body") /\ HasUnit(s) /\ TakeUnit(s)
  /\ need' = [need EXCEPT ![w] = @ - 1]
  /\ Go(w, IF need[w] = 1 THEN "push" ELSE "body")
  /\ UNCHANGED <<main, args, cur, head, conn, made, gaveUp, stats>>

\* recv returns 0 or an error: the connection has ended before the unit came.
RecvFails(w) ==
  /\ wpc[w] \in {"head", "body"} /\ mpc # "terminated"
  /\ conn' = [conn EXCEPT ![cur[w]] = "ended"]
  /\ Forget(w) /\ Go(w, "err")
  /\ UNCHANGED <<main, args, cur, made, read, gaveUp, stats>>

\* Faulty: the socket has no SO_RCVTIMEO.
RecvNeverTimesOut(w) == wpc[w] \notin {"head", "body"} /\ w \notin Workers /\ UNCHANGED vars

\* Faulty: a time-out is not an error, recv is called again.
RecvTimesOutRetries(w) ==
  /\ wpc[w] \in {"head", "body"} /\ mpc # "terminated"
  /\ gaveUp' = [gaveUp EXCEPT ![cur[w]] = TRUE]
  /\ UNCHANGED <<main, args, work, conn, made, read, stats>>

\* SO_RCVTIMEO: nothing came for five seconds.  The socket is kept.
RecvTimesOut(w) ==
  /\ wpc[w] \in {"head", "body"} /\ mpc # "terminated"
  /\ gaveUp' = [gaveUp EXCEPT ![cur[w]] = TRUE]
  /\ Forget(w) /\ Go(w, "err")
  /\ UNCHANGED <<main, args, cur, conn, made, read, stats>>

\* "len" only: a length that is none may ask for more memory than there is, and
\* the exception leaves the thread.
NoMemory(w) ==
  /\ WorkerAt(w, "head") /\ HasUnit(cur[w])
  /\ proto = "len" /\ Announced(cur[w]) # {BodyLen}
  /\ mpc' = "terminated"
  /\ UNCHANGED <<over, stop, args, work, net, stats>>

\* An answer in time: its RTT under the mutex, then the count.
PushRtt(w) ==
  /\ WorkerAt(w, "push") /\ rtts' = rtts + 1 /\ Go(w, "count")
  /\ UNCHANGED <<main, args, cur, head, need, net, ok, err>>

CountOk(w) ==
  /\ WorkerAt(w, "count") /\ ok' = ok + 1 /\ Go(w, "think")
  /\ UNCHANGED <<main, args, cur, head, need, net, rtts, err>>

CountErr(w) ==
  /\ WorkerAt(w, "err") /\ err' = err + 1 /\ Go(w, "think")
  /\ UNCHANGED <<main, args, cur, head, need, net, rtts, ok>>

\* After the pause: over, back to the outer loop; else the next socket, or the
\* outer loop behind the last.
NextSocket(w) ==
  LET rest == {s \in Bucket(w) : s > cur[w]} IN
  /\ WorkerAt(w, "think")
  /\ \/ /\ over \/ rest = {}
        /\ Go(w, "while") /\ UNCHANGED cur
     \/ /\ ~over /\ rest # {} /\ made[Min(rest)] < MaxRequests
        /\ Go(w, "for") /\ cur' = [cur EXCEPT ![w] = Min(rest)]
  /\ UNCHANGED <<main, args, head, need, net, stats>>

-----------------------------------------------------------------------------
MainStep ==
  \/ ParseArgs \/ CreateAndConnectSocket \/ StartWorkers \/ WaitEnds
  \/ RequestStop \/ Join \/ CloseAndReport

\* What a worker does of itself, and what it does when the network lets it.
OwnStep(w) ==
  \/ OuterLoop(w) \/ InnerStop(w) \/ Send(w) \/ SendFails(w)
  \/ PushRtt(w) \/ CountOk(w) \/ CountErr(w) \/ NextSocket(w)

Receive(w) == ReadHead(w) \/ ReadBody(w) \/ RecvFails(w) \/ NoMemory(w)

WorkerLoop(w) == OwnStep(w) \/ Receive(w) \/ RecvTimesOut(w)

Next ==
  \/ MainStep \/ TimeUp
  \/ \E w \in Workers : WorkerLoop(w)

Spec == Init /\ [][Next]_vars

\* The threads run and the clock goes on; a send ends by its time-out, a receive
\* too.  Nothing is assumed of the server: a worker is owed no unit and no end of
\* the connection.
FairSpec ==
  /\ Spec /\ WF_vars(MainStep) /\ WF_vars(TimeUp)
  /\ \A w \in Workers : WF_vars(OwnStep(w) \/ RecvTimesOut(w))

-----------------------------------------------------------------------------
(* Properties. *)

Counted(w) == wpc[w] \in {"push", "count"}

\* What is counted as OK is the answer of the request it is counted for, as long
\* as no send and no receive on the socket has been given up: the stream is read
\* to the end of the last answer and no further (main.cpp:164-174, 216-262).
OwnAnswer ==
  \A w \in Workers : Counted(w) /\ conn[cur[w]] = "good" /\ ~gaveUp[cur[w]]
    => read[cur[w]] = made[cur[w]] * L

\* A receive that has timed out is never made up for: the socket stays in use, the
\* late answer is taken for the next one's, and in the raw protocol no RTT of this
\* socket is the RTT of its own request ever again (main.cpp:130-132, 170, 264-272).
LateForGood ==
  \A w \in Workers :
    Counted(w) /\ proto = "raw" /\ conn[cur[w]] = "good" /\ gaveUp[cur[w]]
      => read[cur[w]] < made[cur[w]] * L

\* The requests made, by their sockets and numbers.
Requests == UNION {{s} \X (1 .. made[s]) : s \in Sockets}

\* The report counts every request once, and the percentiles are taken over as
\* many RTTs as there are requests counted OK, though a worker pushes and counts
\* in two steps (main.cpp:269-276, 384-393).
CountsAgree ==
  /\ rtts = ok + Cardinality({w \in Workers : wpc[w] = "count"})
  /\ mpc = "exited" => rtts = ok /\ ok + err = Cardinality(Requests)

\* The report is true: it counts every request once, and only answers as OK.
ReportTrue == OwnAnswer /\ CountsAgree

\* However the server behaves, once started the program ends: the duration passes,
\* no worker is held by a receive for longer than the time-out, and main joins
\* them all (main.cpp:130-132, 378-386).
RunEnds == mpc = "run" ~> mpc \in {"exited", "terminated"}
=============================================================================
