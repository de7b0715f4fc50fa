# IOCPServer in TLA+

IOCPServer is a Windows game-server framework: a core library around an I/O
completion port, and servers built on it. This directory holds TLA+ models of
the parts that are hard to test, TLC configurations that check them on small
instances, and TLAPS proofs of the properties that matter most, for every value
of the constants.

The solution file builds `ServerCommon`, `ServerCoreLibrary` (the core),
`DbCore`, `GateServer`, `GameServer`, `GameDB`, `TestClient` and `StressTest`.
The directories `ServerCore/` and `IOCPServer/` are an older copy of the core
that is no longer built; the models follow `ServerCoreLibrary`.

Contents: [the system](#the-system) ·
[modules](#modules-and-how-they-follow-the-code) ·
[runs](#what-the-runs-check) · [proofs](#what-is-proved) ·
[disagreements](#where-code-and-words-disagree) ·
[not modelled](#not-modelled) · [plan](#plan)

## The system

### Parts, their state and their operations

| Part | Code | State | Operations |
|---|---|---|---|
| Session, send side | `ServerCoreLibrary/Session.cpp` | `m_SendQueue`, `m_bIsSending`, `m_SendLock` | `SendPacket`, `Send`, `OnSendCompleted` |
| Session, life | `Session.cpp` | `m_AcceptSocket`, `m_bDisconnected`, `m_ui64SessionId`, `m_onDisconnect` | `Init`, `Recv`, `OnAccepted`, `Disconnect`, `Release` |
| Receive assembly | `RingBuffer.cpp`, `ClientSession.cpp`, `ServerSession.cpp`, `PacketDispatcher.cpp` | the ring: array, read and write position | `OnRecvCompleted`: `Write`, `Peek`, `Read`, `Dispatch` |
| Session manager | `SessionManager.cpp` | a pool (stack) of objects per type, `m_ActiveSessions`, `m_ui64NextToken` | `GetEmptySession`, `Release`, `RegisterActive`, `UnregisterActive`, `FindByToken`, `BroadCastActive` |
| Listener | `Listener.cpp` | 64 outstanding `AcceptEx` requests | `PostAccept`, `OnAcceptCompleted` |
| Completion port | `IocpCore.cpp` | the port's queue, `m_isRunning`, two workers per CPU | `Run`, `WorkerLoop`, `ShutDown` |
| Game thread | `GameServer/GameManager.cpp`, `GameDispatcher.h` | job queue, `m_Users`, `m_EmptyUnits`, `m_SessionIdToPC` | `RunLoop`, `Drain`, `StopLoop`, `Login`, `Logout`, `ReleasePC` |
| Packet handlers | `GameServer/GamePacketHandler.cpp` | none | `Handle_Login`, `Handle_Chat` (reads `m_Users` without its lock) |
| DB manager | `GameServer/DBManager.cpp` | task queue `mq`, `m_running`, workers, health thread | `Push`, `WorkerProc`, `HealthProc`, `Finalize` |
| Connection pool | `DbCore/OdbcCore.h` | `m_free` | `Acquire`, `Release` (end of a `Lease`) |
| ODBC wrappers | `DbCore/OdbcCore.h`, `DbCore.cpp` | handles | prepare, bind, execute |
| Gate server, GameDB | `GateServer/`, `GameDB/` | none of their own | handlers that relay or print |
| Commands, configuration | `CommandManager.cpp`, `ConfigReader.cpp` | files | — |
| Console client | `TestClient/main.cpp` | `running`, `loggedIn`, `i64Unique`, the socket; two threads | login, wait, chat lines; receive thread |
| Load generator | `StressTest/main.cpp` | sockets in buckets, a thread per bucket, `Stats` | connect, send and wait for the echo, stop, report |

### How they interact

- The kernel queues completions in the port. Any port worker dequeues one and
  calls the object its key names: `Listener::OnAcceptCompleted`,
  `OnRecvCompleted`, `OnSendCompleted`, or `Disconnect` on an error. Nothing
  keeps two workers from handling the same object at once.
- `OnAcceptCompleted` takes an object from the pool, attaches the socket,
  registers it under a new token, and posts the first receive. `Disconnect`
  undoes this in its own order and gives the object back. Session objects are
  never freed; completions, snapshots and handlers of an old connection can
  still name an object when it serves a new one.
- `Handle_Login` runs on a port worker and pushes a task to the DB manager. The
  task's callback, on a DB worker, posts a job to the game thread. `Login`
  there finds the session again by its token and leaves a callback in it, which
  `Disconnect` uses to post `Logout`.
- Shared state is guarded by several locks, never by one: `m_SendLock`,
  `m_SessionLock` (pool), `m_ActiveLock` (map), `mq_mtx` and the pool's mutex in
  the DB part. `m_bDisconnected`, `m_isRunning`, `m_bRunning` and `m_running`
  are atomics looked at outside locks. `m_onDisconnect`, `m_ui64SessionId` and
  the ring have no protection at all.
- `main` stops the parts in the order game loop, port workers, DB manager.

### What is hard, and what makes each part correct

| Part | Hard behaviour | Correct when |
|---|---|---|
| Send side | partial completions; the sender's role passed between threads; reuse | one send at a time, buffer kept alive, byte stream in order, waiting packets leave |
| Receive side | TCP cuts anywhere; wrap of the ring; ignored result of `Write` | packets come out whole and in order; nothing dropped; no bad copy length |
| Life cycle | late completions, snapshot sends and accepts racing with `Disconnect`; failing calls | an object in one place; one socket per object; an open session is registered and has a receive; accept slots kept; a peer's end noticed |
| Login | a connection that ends between any two steps of its login | a unit has one user; the map names users only; a user is logged out when its connection ends; a login is answered |
| Chat | `m_Users` read by a port worker while the game thread changes it; units and buffers used again | a line is not lost, and carries its sender's name and number, but in the cases the code cannot avoid |
| Console client | two threads, two flags, a blocking `recv` | lines only within the session; own lines recognised; the waits and the program end |
| Load generator | split, late and missing answers; threads that must see the end | every request counted once, only its answer counted OK; the program ends |
| DB part | condition variables, more takers than connections, exceptions in tasks | a connection has one taker; no lost wake-up; tasks run; the pool outlives its users |
| Shutdown | flags lowered while threads sleep, jobs posted late | every join returns; work posted in time is done |

The 40 hazards of `PROJECT.json` give the line of each and the properties that
would catch it.

## Modules and how they follow the code

| Module | Models | Instances | Proofs |
|---|---|---|---|
| `ByteStream` | what the send side promises (abstract) | | |
| `SendPipeline` | send side of one `Session` object over its whole life | `MCSendPipeline` | `SendPipelineProofs` |
| `RingBuffer` | `RingBuffer.cpp` as operators on a record | | |
| `RecvAssembly` | `OnRecvCompleted` of one connection at a time (EXTENDS `RingBuffer`) | `MCRecvAssembly` | `RecvAssemblyProofs` |
| `ConnectionService` | what accept and `Disconnect` promise (abstract) | | |
| `SessionLifecycle` | pool, active map, accept path, `Disconnect`, dispatch of completions | `MCSessionLifecycle` | `SessionLifecycleProofs` |
| `GameLogin` | login from packet to `CUnitPC` and back | `MCGameLogin` | `GameLoginProofs` |
| `GameChat` | `Handle_Chat` and `FindUserById` beside the game thread (EXTENDS `GameLogin`) | `MCGameChat` | `GameChatProofs` |
| `DbManager` | DB workers, health thread, connection pool, `Finalize` | | |
| `ServerShutdown` | `DbManager` composed with port workers, game thread and `main` | `MCServerShutdown` | `ServerShutdownProofs` |
| `TestClient` | the console client's two threads | `MCTestClient` | `TestClientProofs` |
| `StressTest` | the load generator's `main` and workers | `MCStressTest` | `StressTestProofs` |

Conventions. A step is what a thread does under one lock, or between two
accesses to shared fields; a thread's next step is its `pc` label. `Faulty: ...`
definitions stand before the definition they vary: each is a plausible mistake
in that code, and no specification uses it. A ghost variable records something
for a property and guards no action. `PROJECT.json` maps every definition to its
source lines.

### ByteStream and SendPipeline

`queue`, `sending`, `sock` and `disconnected` are the fields of one object;
`inflight` are the `SendCtx` objects the kernel or the port holds, each with the
position its raw pointer was built from, and with the socket it was posted on.

| Action | Code |
|---|---|
| `SendPacket`, `Send`, `SendFails`, `OnSendCompleted`, `SendEnded` | the functions of `Session.cpp`; `SendPacket` and `Send` take `m_SendLock` separately, so other threads come between |
| `Close`, `Release` | the rest of `Disconnect`; called inside `Send` it runs with `m_SendLock` held (`lock`) |
| `Accept`, `OnAccepted`, `Recv` | the accept path, as far as the send side sees it |
| `RecvEnded`, `RecvDropped` | a receive that ends the session, or that is not followed by another |
| `Transmit` | the kernel: part or all of a buffer leaves, or the request fails (external) |

A packet is a number and bytes are counted, not stored. A thread may call
`SendPacket` at any time after the object was first registered, since
`BroadCastActive` sends to a snapshot and handlers hold addresses.

`ByteStream` is the promise: packets leave in the order accepted, each byte
once, no packet cut by another; the stream may stop. `TransmitsByteStream` is
the refinement, with the abstract position mapped to the ghost `wire`. It is
over the *object's* life: the packets of an old connection and of a new one
share one queue (see [below](#where-code-and-words-disagree)).

### RingBuffer and RecvAssembly

`RingBuffer` has the copies as the code splits them, faults included:
`ReadFaults` is the condition under which `Read` gives `memcpy` a negative
length. In `RecvAssembly` a byte is its position in the connection's stream, or
`Stale`; a byte lost, repeated or left over from an old connection is seen.
`PeerSends` and the number of bytes a receive brings are the environment.
`OnRecvCompleted` writes the chunk and ignores the result, as the code does;
`LeaveLoop`, `RejectSize`, `Dispatch` and `ReadCrashes` are the branches of the
parsing loop. `Dispatch` includes a handler whose answer fails to be sent, which
disconnects the session and clears the ring in the middle of the loop. Where the
bytes at the read position are no header, the size may be anything in
`HeaderValues`.

### ConnectionService and SessionLifecycle

The objects of one type, any number of workers. `local[w]` is what worker `w`
does next, on which object, for which connection. The accept path is seven
steps (`AcceptCompleted`, `SetAcceptedSocket`, `OnAccepted`, `RegisterActive`,
`AssignId`, `FirstRecv`, `PostAccept`, with `GiveBack` and `AcceptRefused` as
its error paths); `Disconnect` is four (`TryDisconnect` inside the action that
calls it, `Close`, `UnregisterActive`, `Release`). `recvs[s][c]` counts the
receives of object `s` outstanding on connection `c`: a completion of an old
connection still dispatches to the object. `Faults` names the calls that may
fail: `RegisterSocket`, `Recv`, `PostAccept`.

`ConnectionService` is the promise: a connection is served once, by one object,
and an object serves one connection at a time. `ServesOnce` is the refinement;
an object serves the connection its socket names, and a connection counts as
seen once it left `attach`.

### GameLogin

A session object is reduced to what the login reads: token, callback, and how
far `Disconnect` got. An accept is one step. `mq` is the DB manager's queue: a
worker may finish any of the first `DbWorkers` tasks, so that answers overtake
each other; `CheckAccount` may end in an exception that the callback does not
see. `jobs` is the game thread's queue. `Login` is four steps (`LoginUnit`,
`LoginSession`, `LoginNumber`, `LoginIndex`), because it takes the session's
token twice and sets number and callback in between, and a reader of `m_Users`
without the lock sees each; `Reply` is the answer. `ReleasePC` is the swap with
the last user.

A name or an account number is the token of the login it was read from, or 0: bytes
that are no login, the number of a refused or failed check, or of a unit that never
had one. `pMsg` points into a local buffer of `OnRecvCompleted` that the worker's next
packet overwrites: where the DB worker or the game thread reads through it,
`Found(t)` is login `t` or, with `StaleReads`, the login of any connection so far, or
0. `Reads` remembers in `misread` whose packet was not found any more. A port worker
whose `Handle_Login` runs late asks the object for its token when the object serves
the next connection: its packet then counts as that connection's login.

Accesses to `m_onDisconnect` are taken as atomic: the code's `std::function` is
written by one thread while another moves it out, which is undefined behaviour
beyond what is modelled. Ghosts: `settled`, the tokens answered or whose check
threw; `late`, the tokens indexed after their session could no longer post a
`Logout`; `crossed`, the tokens a login of an older connection was entered for;
`misread`, the tokens whose packet was overwritten before it was read.

### GameChat

One handler of a chat line beside everything `GameLogin` does. `FindUserById`
keeps the iterators it began with: `Walk` looks at one user a step, in the
memory of the vector (`cells`), which stays readable behind its end; once an
append has outgrown that memory (`realloc` in `seen`) the loop reads what was
freed, and may find any unit or none (`WalkFreed`). How much memory a vector
holds is up to the library: here it grows with each append beyond the largest
size so far, as MSVC's does up to four users. `TakeNumber` and `BroadCast` read number and name
in two steps. `seen` records what the game thread did under the handler's feet:
`realloc` and `moved` during the walk, `left` when the unit the handler holds went
out of `m_Users`, `unfinished` when it was found before `Login` had set its number.

### TestClient

`mpc` and `rpc` are the next steps of the two threads, between them the atomics
`running` and `loggedIn`. `main` looks at `running` at each place where the code
does, so it may be out of date at `getline` and `send`. A packet is its kind and
what the handlers look at. The environment is the server as the other modules have
it. It answers the client's own login once, after `CP_LOGIN`, or never
(`ServerAnswers`); a check that failed answers with number -1 and result 0
(`GamePacketHandler.cpp:86`). At any time, as often as it likes, it may send an
`SP_LOGIN` of another login, refused or accepted, under any number (`ForeignAnswer`):
`Handle_Login` answers the object it finds by token, whose connection may be another
one by then (`:80-93`), and what is left in `m_SendQueue` goes to the object's next
connection (`Session.cpp:8`). At any time it may send a line under any number
(`ServerBroadcasts`): 0, of a user who was refused and is entered all the same
(`:83`), -1, the client's own number from another session of its account; the
client's own line only after it sent one. And it may send packets the client does not
know (`OddPacket`), break the connection with packets lost, or stay silent; the user
may type, quit, or end the input. Ghosts: `first`, what the first `SP_LOGIN` says;
`foreign`, one of another login was sent; `misled`, a line was sent that is the
client's own and does not carry the number the server has given it, or the reverse.
Console output and text conversions are left out; `[ME]` is kept.

### StressTest

The answer to a request is `L` units, those of its head and those of its body,
and a socket brings one stream of units: the client sees no borders. `need` is
what the current `RecvExact` lacks. At each receive the next unit comes (if a
request was sent for it), or the time-out passes (`gaveUp`), or the connection
has ended. Once the stream is off, a length field is whatever bytes lie there
(`Announced`), too small, too large, or more than memory holds (`NoMemory`).
The clock is the flag `over`. Beyond `MaxRequests` a worker waits for it.

### DbManager and ServerShutdown

`dpc` is the next step of each DB worker and of the health thread. A worker that
found nothing to do keeps `mq_mtx` until it sleeps (`block`, then `wait`):
`m_running` is written without that mutex, so the two are separate steps. `Push`
and `Release` wake one sleeper; `WakeUp` is a spurious wake-up. `Run` of a task
may throw; the exception is caught behind the lease, so the connection goes back
either way. `Finalize` is three steps: flag, `notify_all`, joins.

`ServerShutdown` adds the port workers (`PortLoop`, `PortGets`, `PortHandles`),
the game thread (`GameLoop`, `GameJob`, `GameDrained`) and `main` (`StopLoop`
to `Finalize`). A completion here is a login packet or a quit key. A port worker
leaves on *any* completion it takes once the flag is down. The health pause is
one step, the last `Drain`'s 100000 jobs stand for all, and the game's tick has
no state.

## What the runs check

| Run | Question | Instance |
|---|---|---|
| `send_reuse` | is the send state safe through partial sends, failures and reuse, and do packets leave unless the sender is stalled? | 2 threads, 3 packets of 2 bytes, 2 connections |
| `send_stuck` | does a packet on an open connection always leave? **No** | 2 threads, 2 packets, 2 connections |
| `recv_pipelined` | are packets cut, wrapped and pipelined at will dispatched whole and in order? | ring 8, header 2, chunks up to 4, 5 packets, sizes up to 4 |
| `recv_closed_loop` | with a peer that waits for its answers, is every packet dispatched and `Read` never at fault? | the same ring, sizes up to 7, 4 packets |
| `recv_wrap` | is `Read` never at fault with pipelined packets? **No** | 4 packets |
| `lifecycle_pool` | are objects, sockets, the active map and accept slots kept through all races, and is a peer's end always noticed? | 2 workers, 2 objects, 2 connections, 2 slots, failing `RegisterSocket` |
| `login_flow` | do units, map and logouts agree while connections end at any step, and is a login answered? | 2 objects, 2 connections, 3 logins, 2 DB workers, a pool of 1 unit |
| `game_chat` | does the walk over `m_Users` without its lock find the sender, and do users and lines show their own data, though units and packet buffers are used again? | 2 objects, 2 connections, 2 logins, 1 chat line, packets overwritten by any other |
| `shutdown_order` | are leases, wake-ups, jobs and joins right from start to exit? | 1 port worker, 2 DB workers, 2 connections, 2 logins, 1 job a frame |
| `shutdown_wakeup` | does `Finalize` return? **No** | 1 DB worker, 1 login |
| `client_session` | do the console client's threads keep to the session whatever answers and lines the server sends, and when do its waits end? | 3 packets from the server, 2 lines typed |
| `stress_echo` | does the report count right, what does a late answer do to it, and does the program end? | 2 sockets, up to 2 threads, 2 requests each, bodies of 2 units, 3 protocols |

The properties, by what they say of the code:

- `SingleSend`, `BufferPinned`, `NoIdleBacklog`: one `WSASend` at a time; the
  kernel's raw pointer stays inside the front item; the flag is never down over
  a waiting packet. `TransmitsByteStream`: see above.
  `FlushesUnlessStalled`: a waiting packet leaves or its connection closes,
  unless the object was already stalled by a failed send.
- `RingHoldsStream`, `NothingDropped`, `DispatchInOrder`, `NoFault`,
  `EveryPacketDispatched`: the ring is exactly the bytes delivered and not yet
  dispatched, and what comes out is what was sent.
- `OneOwner`, `OneSocket`: nothing is handed out or given back twice.
  `LiveIsAttended` has three parts: an open session is in the map
  (`LiveIsRegistered`), has a receive outstanding (`NoOrphan`), and its token never
  leads to another one (`TokenLeadsHome`). `SlotsKept`: accepts are posted again on
  each path. `PeerEndIsNoticed`: an ended connection is closed.
- `UsersConsistent` (`OneUnit` and `IndexOfUsers`): no two users share a unit, none is
  given back twice, a `Logout` never hits another user. `LogoutOnItsWay`: an indexed
  user has his `Logout` queued or coming, but for the tokens in `late`.
  `LoginAnswered`: a login is answered, or its check threw, or its connection ended.
- `OwnAccount`: a user shows the name and the number of his own login or no number,
  never what the unit had before, unless a login of another connection was entered for
  him (`crossed`), his packet was overwritten before it was read (`misread`: he may
  then be entered as anybody), or `Login` is just entering him.
  `ChatFindsUser`: a line is dropped only where the vector was reallocated under the
  handler, or the swap moved the user to a place it had passed. `ChatNamesSender`: a
  line goes out under another's data only where the unit found was read in freed
  memory, its number was read before it was set, it was given back meanwhile, or its
  user is `crossed` or `misread`. Given back is an exception even if the unit carries
  the token again when the handler goes on: with three logins it may, with the number
  of a user in between. Each of the cases does happen.
- `LeasesApart`, `PoolOutlivesThreads`, `NoTaskStranded`, `NoConnStranded`,
  `JobsBeforeStopRun`, `TasksRun`, `StopReturns`: leases, wake-ups and the end of every
  thread; `StopReturns` is `ShutDownReturns` and `FinalizeReturnsUnlessMissed`.
- `ChatSound`: a line is sent only after the server accepted the client's login or sent
  it an `SP_LOGIN` of another one (`LinesWithinSession`), and at most one after the end
  was noticed. `[ME]` marks the client's own lines and no others (`MarksOwnLines`), also
  where lines and the answer to the login cross, unless it was sent an `SP_LOGIN` of
  another login, or a line whose number does not tell whose it is. `WaitEnds` has two
  parts. `EndsOnAnswer`: the wait ends when the first `SP_LOGIN` sent to the client
  accepts, whosever it is, or when the connection is lost and none has refused.
  `HangsAfterRefusal`: once a refusal was read it never ends, whoever's it was, not even
  when the client's own login is accepted later or the connection is lost.
  `ClosingEnds`: the program ends once it closes.
- `ReportTrue`: each request is counted once, as many RTTs as OKs, and an OK is the
  answer of its own request as long as nothing timed out on the socket.
  `LateForGood`: after a time-out, in the raw protocol, it never is again.
  `RunEnds`: once started the program ends, however the server behaves.

Every module has one type invariant where a plausible mistake breaks types;
`GameChat`, `TestClient` and `StressTest` have none.

### Bounds, and why they suffice

- *Two workers or threads* give every pair of handlers on one object, and a
  thread stopped between two steps while the other goes through a whole
  disconnect and a reuse. Two connections give one reuse. In `lifecycle_pool` two
  connections leave room for the liveness properties; `OneOwner`, `OneSocket` and
  `ServesOnce` are proved for any number.
- *Three packets of two bytes*: one partly sent, one behind it, one to be pushed;
  two bytes are the least that can be sent in part.
- *Ring 8, chunk 4, header 2* keep the ratios of 8192, 4096 and 4; five packets
  write more than the ring's size, so both positions wrap. Sizes go up to what
  the ring holds; a header smaller than itself exercises `RejectSize`.
- *Two objects, pool of one unit, extra one*: `m_EmptyUnits` runs out, and the
  swap in `ReleasePC` meets another user.
- *`game_chat`*: two users are the least with which the swap of `ReleasePC` moves one
  and an append reallocates; one handler, since handlers only read. `StaleReads`
  is FALSE in `login_flow`, whose properties do not look at names.
- *Three packets, two lines* (`client_session`, 426,017 states): a broadcast before the
  answer, the answer, and an own line after it; a foreign refusal, the own answer, and a
  line; a line before and one after the end was noticed.
- *Two sockets, two requests, two units* (`stress_echo`): one thread with both sockets
  or two with one each; a late answer and the request that takes it for its own; a
  body that can be cut.
- *Two DB workers and the health thread on two connections*: three takers, so
  somebody sleeps in `Acquire`. One job a frame, two jobs: a frame ends with jobs
  left. With two port workers the safety properties were also checked (641,906
  states); the liveness properties take too long for a routine run, so
  `StopReturns` is checked with one, and its two keys for two workers only
  in the type of `quits`.
- `CHECK_DEADLOCK FALSE` is set where the counters of accepted connections,
  packets or logins run out, or where the server has exited. It is not set for
  `recv_closed_loop` and `lifecycle_pool`, where some step is always
  possible.

Symmetry is used in `game_chat` only: its properties are invariants, and the session
objects are interchangeable. So is a `VIEW`, `Observed`, which leaves out `settled` and
`late` and of a user's name keeps whether it is that of his login. No step reads any
of the three, `settled` and `late` occur in no property of that run, and a name only
where it is compared with the token of the login it belongs to: states with the same
view have the same successors, by view, and satisfy the same invariants.

### Fairness, and why the code justifies it

- A thread inside a function runs on: weak fairness of each thread's own steps.
- The kernel completes what was posted, and some worker dequeues what is
  complete: weak fairness of `Transmit` and of the dequeue in `SendPipeline`, of
  `OnRecvCompleted` in `RecvAssembly`.
- The completion queue is first in, first out: a completion is not passed over
  for ever. `RecvEnded` needs all workers' attention and may be disabled again
  and again while they are busy, hence *strong* fairness in `SessionLifecycle`.
- `mq_mtx` is held for a few instructions; a thread that wants it gets it in the
  end: strong fairness of `DbCheck` and `PortHandles`.
- `TestClient`: both threads run on; the user, the server and the network owe nothing.
  `StressTest`: the clock goes on, workers run on, and a receive ends by its time-out
  if by nothing else (`SO_RCVTIMEO`, `StressTest/main.cpp:130-131`); the server owes no
  unit and no end of the connection.
- No fairness on peers (`PeerSends`, `PeerLeaves`, `Arrive`), on typing "quit"
  (`StopLoop`), or on spurious wake-ups (`WakeUp`).

## What is proved

Every leaf is checked by TLAPS, with Z3, Zenon and LS4. The assumptions are those
the modules declare on their constants (sizes are naturals, null is not an
object) and the hypotheses named below: `SizesFit` for the receive side; a fault
left out, or a finite set of workers, for parts of the life cycle.

**`SendPipelineProofs`**, any number of threads, packets, bytes and connections.
`TypeCorrect`, `SendStateSafe` (the three safety invariants and `WireFollowsQueue`:
completions and queue agree), from it `BufferStaysPinned` and `BacklogHasSender`, and
`ImplementsByteStream`. The inductive invariant is the conjunction of `TypeOK`
and the four: who holds the sender's role (`SingleSend`) decides what `wire` is
compared with (`WireFollowsQueue`), and that comparison is what keeps an
outstanding request inside the front item (`BufferPinned`). None is inductive
alone. Steps that touch none of it are dealt with by one lemma, `Elsewhere`.
The refinement then is one case: a transmission maps to `Emit` or a stutter,
because the invariant makes every request start at the byte the wire expects.

**`RecvAssemblyProofs`**, any ring, header, chunk and packets. Lemmas on the
buffer say what `Write` appends, `Peek` shows and `Read` takes, in terms of
`ByteAt`, whatever the positions. From them `AssemblyCorrect`: under `SizesFit`
(what may be left of a packet and one more chunk fit into the ring) nothing is
dropped, the ring holds the stream, dispatch is in order (`NoChunkDropped` and
`PacketsInOrder` state two of the three alone). `ClosedLoopNoFault`:
with `SizesFit` and one packet at a time `Read` never faults, because a packet
then always ends where the stored bytes end. `SizesFit` is a hypothesis, not a
fact of the program: the code accepts headers up to 8192 bytes, more than
`8192 - 4096`.

**`SessionLifecycleProofs`**, any number of workers, objects, connections and any
set of faults. `TypeCorrect`, `NoDoubleRelease` (`OneOwner`), `SocketsApart`
(`OneSocket`), `ImplementsConnectionService` (`ServesOnce`). The inductive
invariant has three parts. `Placed`: every object made is in the pool once, or
with one worker, or in use. `Flags`: for an object opened once, the flag
is up exactly while it is pooled or with a worker; an object never registered has
no receives, and nobody knows it. `SockInv`: where sockets are, and that the connections in the
hands of the accept path are on no object. `Placed` without `Flags` is not
inductive: the compare-exchange on `m_bDisconnected` is the only guard on
giving an object back, so the proof has to know that a pooled object's flag is
up or its address unknown.

On top stand three results on sessions in use. `SessionsReachable`, whatever fails:
an open session is in the active map, and the token an object holds leads to it or to
nobody. It needs `TokensGiven`: tokens not given yet name nobody, and a late
`AssignId` sets one that is its object's or nobody's. `SessionsAttended`
(`LiveIsAttended`): also, a receive is outstanding or a worker is about to post one;
the hypothesis is that `Recv` does not fail, since a failing one does leave a session
nobody listens to ([below](#where-code-and-words-disagree)). The hard step is that
whoever takes a completion, of this connection or an old one, posts the next receive
or closes the session (`TakenOver`). `SlotsStay` (`SlotsKept`), for a finite set of
workers: accepts outstanding and workers inside the accept path are never more than
`Slots`, and just as many while `PostAccept` does not fail.

**`ServerShutdownProofs`**, any number of port workers, connections, tasks.
`TypeCorrect`, `LeasesStayApart`, `PoolDestroyedLast`, `PushWakes`
(`NoTaskStranded`), `LastDrainRunsAll` (`JobsBeforeStopRun`). The inductive
invariant `DbInv` adds to the first three: a worker that goes for a connection
has a task (`Busy`), no thread ends before `m_running` goes down (`Stopping`),
and a worker that falls asleep does so on an empty queue (`SleepsOnEmpty`),
which is what makes the wake-up of `Push` sufficient. `NoConnectionIdles`
(`NoConnStranded`) is the same of `ConnPool`: it compares the free connections with
the takers on their way, so each step is a lemma on the cardinality of `Comers`.

**`GameLoginProofs`**, any number of objects, connections, logins and units.
`LoginInvariant`, and from it `TypesHold` (`TypeOK`), `UsersStayConsistent`,
`LogoutStaysOnItsWay`, `AccountsAreOwn` (`OwnAccount`, with its exceptions). `LoginInv`
adds to these four: how often `m_EmptyUnits` can have been filled up (`Refills`, which
bounds the units made), where the unit of the login under way is and is not
(`GameUser`), how far it is filled in (`Building`), and that a job carries the number of
its own login or of none, unless its token is in `misread` (`OwnJob`). Without
`GameUser` and `Building` nothing is known of a login between its four steps, while
connections end and tokens change.

**`GameChatProofs`**, on top of it. `ChatInvariant`, `ChatFinds`, `ChatNames`, and
`AccountsStayOwn` for the composition. `CellsFollow`: the memory the handler walks
over holds `m_Users` and what was behind it. `NotYet`: undisturbed, the walk has
passed nobody with the token. `Held`: the unit found keeps the token while it stays
in `m_Users`. What was read of it stays right because `crossed` and `misread` only grow
(`ExceptionsGrow`). `ChatNames` has the five exceptions of `ChatNamesSender`, no others.

**`TestClientProofs`**, any number of packets and lines. `ClientInvariant` and
`ChatSoundHolds`, in the environment that sends any `SP_LOGIN` and any line. `Entered`
ties flag and number to what the server said, and `LastLine` says that no line follows
the one sent after `running` went down. The rest is about the packets under way.
`Answers`: unless an `SP_LOGIN` of another login was sent, at most one that accepts is
under way, with the number given, and it is there from the answer until it is taken.
`Told`: every line under way is the client's own just when it carries the number the
client will have when it gets there (`NumberAt`), unless a line was sent that does not
tell. A line appended is compared with the number the *server* has given; that the
client will have the same one by then is `Answers`, and `Told` is not inductive without
it. `QueueTail`, `QueueAppend` and `QueueFront` say what taking, sending and losing
packets do to such queues.

**`StressTestProofs`**, any number of sockets, threads and requests, any body.
`StressInvariant`, `ReportsTrue`, `NeverCatchesUp`. Two workers have no socket in
common (`Dealt`, `OwnSocket`), so a step of one leaves the other's stream alone. `Exact`
is where a stream stands at each step of a request while nothing was given up, `Late`
that it stays behind after a time-out. `Balance` counts: each request was counted OK
or as an error, or is in the hands of one worker.

Only model-checked: liveness, which is out of the reach of TLAPS
(`FlushesUnlessStalled`, `EveryPacketDispatched`, `PeerEndIsNoticed`, `LoginAnswered`,
`TasksRun`, `StopReturns`, `WaitEnds`, `ClosingEnds`, `RunEnds`). Every other
property a passing run checks is stated by a theorem.

## Where code and words disagree

Three runs end in a counterexample, each against a line of the repository:

1. `send_stuck`: `Session::Init` resets neither `m_SendQueue` nor
   `m_bIsSending`, and the failure path of `Send` leaves the flag up. After
   reuse the new connection queues and never sends. `README.md:31` says the
   state machine resends what is left after a completion or goes idle.
2. `recv_wrap`: `RingBuffer::Read` splits its copy whenever the stored bytes
   wrap, also when the packet ends before the array does; the second length is
   negative. `README.md:27` promises one packet out, the rest kept.
3. `shutdown_wakeup`: `Finalize` lowers `m_running` and notifies without
   `mq_mtx`; a worker between its predicate and its sleep misses it and `join`
   never returns. `README.md:37` promises joined threads.

Met while modelling, and left without a run of their own:

- A failed completion disconnects the object in its key, which may serve another
  connection by then (`IocpCore.cpp:147`; the comment behind it means the session
  of the request).
- Two workers may run `OnRecvCompleted` of one object at once, one of them for an
  older connection, and `Session::Init` may clear the ring under a handler
  (`SessionLifecycle` reaches both); `RingBuffer` has no lock. A late `AssignId`
  (`Session.cpp:146`) can leave an open session with the token of its object's older
  connection: `FindByToken` then does not find it.
- `Login` may set the disconnect callback after `Disconnect` has looked for it
  (`GameManager.cpp:68`), or enter the user under the token of the object's next
  connection (`:74`): the user is never logged out. A second login of one connection
  leaves its first unit in `m_Users` for good.
- `Handle_Login` hands the bare pointer `pMsg` to a DB worker and to the game thread
  (`GamePacketHandler.cpp:75-91`, `DBManager.cpp:113`), which read through it after the
  handler has returned. It points into `cPacketBuffer`, a local of `OnRecvCompleted`
  (`ClientSession.cpp:49`): what is checked, entered and sent back may be any packet the
  worker has taken since, another connection's login for one, and that user's lines
  then go out under the other's name and number (`misread`).
- A login whose object has been reused is answered on the object's new connection, and
  a `CP_LOGIN` handled late is entered for it (`GamePacketHandler.cpp:71`, `:80-93`).
  The new client cannot tell: it takes the number and starts to chat, or stops reading
  after a refusal that is not its own.
- A refusal, its own or another's, leaves `TestClient` waiting for ever: its receive
  thread returns without lowering `running` (`TestClient/main.cpp:301-305`), and the
  main thread waits for either flag (`:391`). `HangsAfterRefusal` states it.
- A refused user is entered in `m_Users` and can chat under number 0
  (`GamePacketHandler.cpp:83-86`), and every broadcast reaches clients that are not logged
  in: there `i64Unique` is 0 as well, and the line is marked `[ME]`
  (`TestClient/main.cpp:326`). Sessions of one account and failed checks (-1) share
  their numbers in the same way.
- After a time-out `StressTest` keeps the socket: the comments "개별 RTT(ms)"
  (`StressTest/main.cpp:50`) and "응답: [size][id][body]" (`:247`) are no longer true
  of it (`LateForGood`).
- The receive thread's function in `TestClient` returns an `int` at one place and
  none at its end; nobody reads it.
- `GatePacketHandler.cpp:43` and `PacketHandlers.cpp:12` use `PACKET_MSG_ECHO`, which
  `PacketStruct.h` does not define.
- Packets queued on an old connection are sent on the new one, when the old one
  ended without a failing send (`Session.cpp:8`, the same missing reset as 1).
- `Disconnect` may miss an object that `RegisterActive` has not entered yet; the
  pooled object then stays in the active map, and broadcasts reach it.
- With `Faults` containing "accept", a failing `PostAccept` loses its slot for
  good (`Listener.cpp:164`); with "recv", a failing `Recv` leaves a session
  nobody listens to (`ClientSession.cpp:67`). The runs that check `SlotsKept`,
  `LiveIsAttended` and `PeerEndIsNoticed` leave these faults out.
- `Write`'s result is ignored (`ClientSession.cpp:18`); a chunk that does not fit
  is gone. `NothingDropped` holds under `SizesFit` or with a peer that waits. A
  packet of exactly 8192 bytes passes the size check but the ring holds 8191.
- `DBManager` drops tasks still queued when `m_running` goes down, since the
  outer loop looks at the flag first, although the predicate of the inner wait
  (`DBManager.cpp:69`) drains them. Jobs posted after the last `Drain` never run.
- `README.md:37` and `:38` also name the cancellation of new accepts at shutdown and
  closing a client that sends too often; the code does neither.

## Not modelled

- ODBC calls and handles, sockets and the completion port itself: external, seen
  through what the code does with their results.
- `GateServer` and `GameDB`: handlers that relay or print, with no state of
  their own. Configuration, logging, console commands: I/O without interleaving.
- Names, passwords, numbers and chat lines but for whose they are: their lengths,
  the conversions, the truncation of the number to `int`
  (`GamePacketHandler.cpp:75`). `FindUserByUnique` and the echo handlers of the game
  server: the one has no caller, the others no state.
- The ring under two handlers at once (see above): what concurrent `memcpy`s and
  positions do is undefined, and nothing could be said of it.
- A start that fails half-way: `main` returns, with threads running or not.
- In the clients: console output, the percentiles and the file of results.
- In `DbManager`: the statements of the tasks and of the health check.
- `WSACleanup` and what follows `Finalize`.
- The old core (`ServerCore/`, `IOCPServer/`): not built.

## Plan

Done: send side, receive side, life cycle, login, DB manager and shutdown, chat and
the account data of a login, the two clients, each with its runs; the proofs of all
their safety properties.

Next, the more important first:

1. Action properties from the invariants at hand: what a step of `Disconnect`, of
   `Login` and `Logout`, of `Release` may never undo.
2. An abstract specification of what the DB manager promises its callers, with
   `DbManager` shown to implement it, by TLC and step by step by TLAPS.
3. The race of `AssignId` with a reuse, as seen by `FindByToken`: `GameLogin`
   over the accept path of `SessionLifecycle` instead of a one-step accept.
