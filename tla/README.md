# Verification of vector-engine in TLA+

vector-engine is a small server: clients connect over TCP and speak RESP (the
Redis protocol); one thread runs a libuv event loop and does all the network
work; a fixed pool of worker threads runs the commands; the answers go back
through the loop. Its own code is `src/src/sw/vector-engine/` (paths below are
relative to it). There are no tests and no documentation beyond a two-line
README, so the code, its assertions and its comments are the reference.

The code is at an early commit. `protocol.h:29` misses a comma and
`json_rpc.cpp` and `task.cpp` are stale stubs that are in no build; some task
classes do not match their base class. Where that matters the modules follow
what the RESP path of the code evidently does.

## 1. The system

| component | source | state | operations |
|---|---|---|---|
| worker pool | `worker.h/.cpp` | per worker: `_tasks` under `_mutex`, a condition variable, the thread and its local vector and flag; the vector `_workers` | `fetch`, `submit`, `stop`, `_run`, `_fetch_tasks`, destruction |
| reactor | `reactor.h/.cpp` | the loop, its async handles, `_connections`, `_connection_cnt`, `_replies` under `_mutex` | `_on_connect`, `dispatch`, `send`, `_on_reply`, `_send`, `_on_write`, `_on_stop`, `stop`, destruction |
| connection | `connection.h/.cpp` | its id, its receive buffer, its parser | `on_alloc`, `on_read`, `on_close` |
| receive buffer | `read_buffer.h/.cpp` | a string and the number of bytes in use | `alloc`, `occupy`, `dealloc` |
| RESP parser | `resp.h/.cpp` | none between two parses | `parse`, `_parse_num`, `_parse_argv` |
| replies | `resp.h/.cpp` | the string under construction | the `append` family, `data` |
| tasks | `ping_task.*`, `unknown_task.*`, `task.h` | none | `run` |
| libuv helpers | `uv_utils.h/.cpp` | the loop and the handles in it | `make_*`, `LoopDeleter` |
| process | `main.cpp` | the reactor, the pool | start, quit, destruction |
| protocol selection, JSON-RPC, logger, string helpers, errors | `protocol.*`, `json_rpc.*`, `logger.*`, `str_utils.*`, `errors.h` | none that changes | -- |

How they meet:

* The loop thread calls `Connection::on_read`, which parses, and
  `Reactor::dispatch`, which pushes a `BatchTask` (the tasks, the connection's id,
  a raw pointer to the reactor) into `_workers[id % n]`. Shared: the worker's vector,
  mutex and condition variable.
* A worker calls `Reactor::send` with the outputs of a batch. Shared: `_replies`, its
  mutex, the pending flag of `_reply_async`.
* The main thread calls `Reactor::stop` (the pending flag of `_stop_async`), joins
  the loop thread, and later pushes stop markers into the workers' vectors and joins
  the workers.
* libuv calls the loop thread back; `uv_async_send` is the only libuv call made
  from other threads, and it coalesces.

What is hard here:

* two hand-overs under mutexes whose notification comes *after* the unlock
  (`worker.cpp:43`, `reactor.cpp:118`), one to a condition variable and one to a
  coalescing async handle;
* order: a pipelining client's answers cross four vectors and a write queue, and
  nothing numbers them;
* identity: a reply names a connection by number, and may be late by any amount;
* shutting down: the reactor goes before the pool, workers keep raw pointers to
  it, stop markers travel in the same vectors as the batches, and `uv_stop` takes
  effect at the end of an iteration;
* a receive buffer that doubles, shrinks and refuses, under a stream that is
  cut into reads anywhere.

What makes each component correct, in the order of importance:

1. process: every command of a client that stays is answered, to that client, once
   and in order; the process ends when told to; no thread uses what another has
   destroyed.
2. worker pool: every worker is one FIFO queue; no wakeup is lost; what was
   submitted is run before the thread ends; the destructor returns.
3. reactor: no reply is stranded; the handle written to exists and is the right
   one; no handle is closed twice; the destructor returns; no handle leaks.
4. connection and buffer: the buffer is in step with the stream; no complete
   command waits; only what cannot fit is refused.
5. parser: a right stream is understood however it is cut; a wrong one is not
   taken for something else; the cut makes no difference.
6. replies: a client reads back one reply per command, with its data, and in order,
   whatever the bytes and the cut of what it sent.
7. libuv helpers and start-up: what is in a loop is allocated until the loop is
   deleted, deleting the loop ends, and no thread is left behind, after a failed start
   as after a full life.

## 2. The modules

```
 Service  <== implemented by ==  Engine  == composes ==>  WorkerPool ==>  TaskQueue
 (what clients are promised)        |                     (a pool's threads)  (a queue per worker)
                                    +----------------->   Reactor
 CommandStream  <== implemented by ==  Connection  -- extends -->  ReadBuffer
                <== implemented by ==  RespParser  <-- extends --  Session  == composes ==>  RespReplies
 Lifecycle
```

RespParser and RespReplies extend `RespBytes`: the bytes of types and ends of lines, and numbers
as decimal digits, of any size. The proofs are in modules of their own: `WorkerPoolProofs`,
`ReactorProofs`, `EngineProofs` (which uses the first two), `ConnectionProofs`,
`LifecycleProofs`, `RespBytesProofs`, `RespRepliesProofs`, and `SessionProofs` (which uses the last two).

An operator `Op_Variant` is a plausible faulty form of `Op`, kept to show that the
property named with it in PROJECT.json can tell the two apart. Nothing refers to it.

### WorkerPool (implements TaskQueue)

A step is what happens under one acquisition of a worker's mutex, or one call that
another thread can see.

| model | code |
|---|---|
| `tasks[w]` | `Worker::_tasks` |
| `batch[w]`, `stopping[w]` | the local vector (what is left of it) and `stop_thread` of `Worker::_run` |
| `wpc[w]` | where the worker's thread is; `wait`/`woken` are the two halves of `_cv.wait` |
| `toNotify[t]` | thread `t` is between the unlock and the `notify_one` of `submit` |
| `live[w]`, `stopIdx`, `ostep` | the pointer in `_workers`, and the progress of `WorkerPool::stop` |
| `Dispatch`, `Push`, `NotifyOne`, `Fetch` | `fetch` and `submit` |
| `FetchTasks`, `SpuriousWakeup` | `_fetch_tasks` |
| `RunBatch`, `Sent`, `SkipStop`, `EndPass` | `_run`, `_run_batch_task` |
| `StopWorker`, `ResetWorker`, `JoinWorker` | the loop of `WorkerPool::stop` with `~Worker`: a second stop, then the join |

`fetch` reads `_workers` without a lock. The module therefore states a contract (no
dispatch once the destruction has begun) as guards of its own `Next` (`CallerDispatches`,
`OwnerBeginsStop`, which are about its users and translate none of its code); that the
program keeps it is a property of Engine (`KeepsPoolContract`). *TaskQueue* knows
no thread, lock or vector: items are put, taken once and in order, and a worker
halts only after it took a stop marker.

### Reactor

What only the loop thread touches changes once per callback; what is shared changes
one access at a time.

| model | code |
|---|---|
| `connCnt`, `conns`, `hconn` | `_connection_cnt`, `_connections`, the id of the Connection in `handle->data` |
| `hstate[h]` | the handle: `open`, `closing` (between `uv_close` and the callback), `freed`, `orphan` (closed by `LoopDeleter`, released by nobody) |
| `replies`, `sending` | `_replies`, and what is left of the local vector of `_send` |
| `notifying`, `replyAsync`, `stopAsync` | the calls of `uv_async_send` under way, and the pending flags |
| `stopFlag`, `lpc`, `rpc` | the loop's stop flag; where the loop thread and Main are |
| `OnConnect`, `OnRead`, `OnReadClose`, `OnWrite`, `OnReply`, `OnStop` | the callbacks |
| `AppendReply`, `Notify`, `SwapReplies`, `SendReply` | `send`, `_notify`, `_send()`, `_send(Reply)` |
| `EndIteration` | the end of an iteration of `uv_run`: close callbacks (`Connection::on_close`), then the stop flag |
| `Stop`, `Destroy` | `Reactor::stop`; the rest of `~Reactor` with `LoopDeleter` |

libuv is modelled from how the code uses it: callbacks run one at a time on the
loop thread and in any order; an async's flag is cleared before its callback; a
close callback runs at the end of the iteration of its `uv_close`; `uv_stop` ends
`uv_run` at the end of an iteration, after the close callbacks; `uv_write` fails on
a closing handle.

### Engine (implements Service)

`Engine` instantiates WorkerPool and Reactor on shared variables (Reactor with no bound on
its backlog, `Backlog <- Nat`). `Read` is the
reactor's `OnRead` together with the pool's `Dispatch`; `RunAndAppend` is a worker's
`RunBatch` together with `AppendReply`; `NotifyLoop` is `Notify` with `Sent`;
`DestroyPool` follows `DestroyReactor`, as the locals of `main()` are destroyed
in reverse order. `asked` and `answered` are what the clients see. Nothing keeps a worker from
a reactor that has been destroyed: `RunAndAppend` and `NotifyLoop` have no guard for it, as
`worker.cpp:65-68` and `Reactor::send` have none, append to what was the vector, and leave
`memory` corrupt or the process dead (`UsesReactor`). *Service* is the same seen from outside:
arrive, ask, be answered in order, leave.

`PipelineIntact` reads the places a client's commands pass, from the write queue back to the
worker's vector, as one list of runs of commands (`Pipeline`), and says that the list can be
cut at increasing points from the last answer to the last command read (`Consecutive`).
Nothing in the code numbers the answers; the cut points exist only in the property.

### ReadBuffer, Connection (implements CommandStream)

`ReadBuffer` is `alloc` (the doubling loop is the least power of two after which it stops),
`occupy` and `dealloc` with its two ways of moving the remainder. `Connection` puts
`on_alloc` and every outcome of `on_read` around it. Bytes are named by their position in the
stream; a frame is the position of its last byte and that of the byte at which
the parser rejects it, if it does, so order and loss are visible and
contents are not. `StopsBehind` is the frame behind which a parse of the buffer stops,
`Rejects` a parse that throws. *CommandStream* is what a connection makes of its bytes with no buffer,
no parser and no remainder: after a read exactly the commands that have arrived in full
are dispatched, a read that reveals a wrong byte dispatches nothing, and only
a command that is too long may be refused.

### RespParser (implements CommandStream)

The parser itself, on character codes, with `on_read`'s way of using it: each
read parses the whole buffer anew and takes out what complete commands use. What can be
parsed at a position is a set of at most one result, and a predicate (`NoNumberAt`,
`NoArgAt`, `NoCommandAt`) tells a `throw` from missing bytes. The history variable `frames`
is what one parse of the whole stream makes of it (`FramesOf`); the refinement compares
that with the parses of the pieces.

`NothingInvented` compares what was parsed with the bytes that were read by encoding it again.
`std::from_chars` takes leading zeros and `std::to_string` writes none, so the property is stated for
streams in which no number that can be parsed has one (`OneForm`); a stream of `session` always is.

### Session

A client from the bytes it sends to the bytes it gets: RespParser's reads, `batches` (one
per read that completes commands), and `out`, to which `RunBatch` appends RespReplies'
`TaskReply` of each command of a batch. The client may go at any time (`ClientGoes`), and what
is under way then is not written any more. Threads and queues are Engine's. A read
whose parse fails closes the connection (`failed`).

### RespReplies

The other direction, on character codes: the `append` family of `RespReplyBuilder`, the
task that a command's name selects (`to_lower`, `_creators`) with the bytes of its
reply, and the concatenation of a batch. `out` is the string, `said` what was
meant by it. The reader (`ReadAll`) is a RESP client and belongs to the properties:
it reads one item after the other as the formats noted in `resp.h` are defined.
The words before the name in the error of an unknown command are one byte.

### Lifecycle

The process from `main()`'s point of view, with what the rest leaves out: the logger, the
worker threads and each step of the reactor's constructor may fail, members are
destroyed in reverse order, `LoopDeleter` walks what the loop lists, and the
pool's threads are joined last. An `Error` is caught in `main()` after the destruction; any
other exception (spdlog's, the `std::system_error` of a thread) ends the process (`aborted`).

| model | code |
|---|---|
| `main`, `error` | where `main()` is in the constructor or the end; the step that threw |
| `mem[h]` | the memory of a handle: not allocated, live, freed |
| `listed`, `active`, `closing` | the `uv_loop_t`: its list of handles, its count of active handles, the handles closed but not finished |
| `on` | the handles that are active, one by one: what `active` should count |
| `thread`, `job`, `stopped` | the loop thread, what it is at and for which client, the quit request |
| `seen[t]`, `raced` | what a thread has read of the loop but not written back; both threads were at it at once |
| `workers` | how many threads of the pool run |
| `InitLogger`, `StartWorker`, `JoinWorker` | `Logger::init`, the loop of the pool's constructor, its destruction (in detail: WorkerPool) |
| `Order`, `After` | the order of the constructor's steps |
| `MakeLoop` ... `StartThread` | the constructor up to `reactor.cpp:96` with the helpers of `uv_utils.cpp` |
| `ArmTimer`, `ListTimer`, `CountTimer` | `uv_timer_init` and `uv_timer_start`, when the loop thread runs already |
| `NoSocket`, `NoListen`, `NoAsync`, `Throw` | the `throw`s, the unwinding |
| `Accept` ... `FinishClient` | a client comes, is refused, or goes: what that does to the loop |
| `JoinThread`, `Walk`, `FinishClosing`, `DeleteLoop`, `ReleaseMembers` | `~Reactor`, `LoopDeleter`, the members above `_loop` |

Once the loop thread runs, an update of the list or of the count is a read and a
write. Formally the race of the two threads is undefined; the model has the outcomes a
lost update gives, and `raced` remembers that there has been one.

## 3. What is checked

Every configuration gives the constants their values and replaces no definition.

| run | instance | question |
|---|---|---|
| `workerpool` | 2 workers, 1 caller, 3 connections, queue bound 2 | type; no lost wakeup; drained at exit; no use after destruction; TaskQueue is implemented; the destruction returns |
| `reactor` | 2 clients, 2 senders, backlog 2 | type; no stranded reply; table and handles agree; no close in flight at exit; replies are drained; the destructor returns |
| `reactor_handles` | 1 client | *violated*: handles closed by LoopDeleter are released |
| `engine_shared` | 2 workers, 2 clients with up to 2 commands, 2 in all | type; the pipeline of a client is whole; answers come in order; the pool's contract is kept |
| `engine_service` | 1 worker, 1 client, 3 commands | Service with its liveness; the process ends; freed memory is used only while an answer is owed or a worker is inside `send` |
| `engine_late_send` | 2 workers, 1 client | *violated*: `_notify` finds its async handle |
| `connection` | limits 4 and 14, all streams of 3 frames of 1, 4, 6, 14, 15 bytes or wrong | in step; only the too large refused; all that is acceptable dispatched; CommandStream is implemented; an open connection keeps reading |
| `session` | streams of 1 or 2 commands out of 3, right or with one of 2 wrong bytes anywhere, a client that may go | understood; nothing invented; CommandStream is implemented; replies match the commands; all are answered |
| `lifecycle` | 3 workers, 2 clients, every step of the start may fail | what the loop lists is allocated; no thread runs on; the end is reached |
| `lifecycle_start` | 1 client | *violated*: the handles of a loop outlive it |
| `lifecycle_race` | 1 client | *violated*: `LoopDeleter` returns |
| `respreplies` | up to 3 replies; names, lines, blobs and numbers of MCRespReplies | a client reads back what was meant |

**Why the bounds are enough.** Two workers, two senders or two clients are the
least with which a neighbour can be confused or a notification coalesced. With two
clients a late reply meets a closed connection beside an open one, and a refused accept an
open one. A queue of two holds a
batch before and a batch behind another, and a batch and a stop marker in one swap. Three
commands on one client give a batch being run, one queued and one that is
answered at the same time. In `connection` 14 is no doubling of 4, so the last one is cut off at the maximum; a
frame of 6 bytes has the buffer grow while the next frame is read behind it, so
remainders lie on both sides of half of the minimum and beyond the minimum itself,
and 15 is the first size that cannot fit. In `session`
there is a ping in mixed case, a name and an argument that look like delimiters, an empty
argument, and a name whose length has two digits; every cut falls between every two
bytes; the wrong bytes are one that begins a terminator and a digit, which between them
spoil a type, a count, a length, a terminator and a string. In `respreplies` there are
empty strings, strings with one delimiter and with both, and lengths and numbers of one
and two digits; three replies are enough for one to be misread with a neighbour on either
side. In `lifecycle` one client comes while the other goes. The bounds are
`MaxQueue`, `Backlog`, `MaxConns`, `MaxCmds`, `MaxLoad`, `MaxSent`, `MaxReplies` and the finite
sets; each is marked at its declaration. Engine sets the pool's bound so that
`MaxLoad` is always reached first, and gives the reactor none.

**Symmetry** (of clients) is used only in `engine_shared`, a run of safety properties; the action
properties among them (`AnswersInOrder`, `KeepsPoolContract`) treat all clients alike.

**Fairness.** Threads are scheduled (weak fairness of each worker's step, of a
callback or a submit that has begun, of Main once it destroys). libuv polls every
handle in every iteration and ends the iteration, so a pending async, a finished
write or a closing handle is not passed over for ever although other callbacks come
in between: strong fairness of those callbacks. Nothing obliges a client to connect,
send or leave, the operator to quit, a wait to wake up spuriously, or a socket to
accept more bytes than it does; a write to a peer that never reads is outside the
model, as it counts as finished eventually. In `connection` and `session` what has been
sent is read (`connection` needs strong fairness there, as polls that find nothing come in
between), and in `session` a dispatched batch is run, which `engine_service` shows of the
threads.

**Deadlock** is checked in every run: each module has an explicit step for the
states in which the system is over, so any other stop is reported.

## 4. What the runs found

* `engine_late_send`: `reactor.cpp:127` asserts that `_reply_async` exists. `main()`
  destroys the reactor before the pool (`main.cpp:12`, `main.cpp:22`), and
  `~Reactor` waits for its own thread only, so a worker with a batch in hand sends
  through a destroyed reactor: a destroyed mutex, a destroyed vector, a null handle.
  `LateOnlyIfOwed` says when: only while a command that was read has no answer yet, or when a
  worker is inside `send`. The second case is needed: a worker between its unlock and
  `_notify` may be overtaken by a loop that an earlier notification has woken, so even who
  quits when every answer has come in is not quite safe.
* `reactor_handles`: the comment at `uv_utils.cpp:40` says handles closed without
  a callback are released by their owners. The server and async handles are; a client's
  `uv_tcp_t` and `Connection` are owned by nobody after `_on_connect` and only
  `Connection::on_close` deletes them, so those connected at the destruction leak.
* `lifecycle_start`: the same comment says that the memory of the handles LoopDeleter
  closes is released in the loop's destructor, so not before. When an option, bind or
  listen of `make_tcp_server` fails, the local `unique_ptr` frees the server handle without
  closing it (`uv_utils.cpp:97-110`), and LoopDeleter walks it.
* `lifecycle_race`: LoopDeleter follows a recipe for "how to correctly close an event
  loop" (`uv_utils.cpp:29`). `reactor.cpp:97` puts the timer into a loop that another
  thread already runs; with a client connecting in between, an update of the loop's
  handle list or active count is lost, and the `uv_run` of LoopDeleter waits for ever.

What the passing runs add to that:

* `connection` and `session`: how a stream is cut into reads makes no difference, but for one
  thing, which CommandStream states: the read that reveals a wrong byte
  dispatches nothing, so complete commands before it are run if they came in an earlier read
  and dropped if they came in the same one (`connection.cpp:66`).
* `session`: a client that half-closes loses the replies under way (`connection.cpp:80`), but those it
  has read are the first ones, in order, whole, and for the names it sent.
* `connection`: no complete command waits in the buffer. This is no property of its own: CommandStream
  dispatches after each read exactly what has come in full, and the connection implements it.
* `engine_service`: nothing but a worker in a batch or in `send` touches the freed reactor: not the
  loop, which has ended, nor Main's stop markers (`LateOnlyIfOwed`).
* `lifecycle`: the order of the constructor's steps matters. The thread is
  started after every step that may throw an `Error`; with the thread one step earlier a failing
  `make_async` would destroy a joinable thread (`NothingRunsOn`).

## 5. What is proved

With TLAPS, for every value of the constants that the modules' assumptions allow.

| theorem | says | argument |
|---|---|---|
| `WorkerPoolProofs!TypeCorrect` | `TypeOK`, with `LocalOK` | `TypeOK` alone is not inductive: that `Tail` and `Head` are taken of non-empty vectors needs what a thread's locals say of each other (`LocalOK`) |
| `WorkerPoolProofs!NoWakeupIsLost` | `NoLostWakeup` | inductive with `TypeOK`: a thread that owes a notification pushes nothing else |
| `WorkerPoolProofs!DrainsBeforeExit` | `DrainedAtExit` | needs `StopsLast`: behind a stop marker there are only stop markers, in the vector that is run, the one pushed to, and across the two |
| `WorkerPoolProofs!DestroyedWorkersAreUnused` | `NothingUsesDestroyedWorker` | needs `OwnerInv`: what Main owes is owed to the worker it is at, callers owe nothing, and what was joined has ended |
| `WorkerPoolProofs!PoolIsTaskQueues` | the pool implements `TaskQueue!Safe` | the two vectors concatenated are the queue: a push goes to its end (`QueueAppend`), a swap changes nothing, what is taken comes from the front (`QueueTail`) |
| `ReactorProofs!TypeCorrect` | `TypeOK` | inductive |
| `ReactorProofs!NoReplyIsStranded` | `NoStrandedReply` | inductive |
| `ReactorProofs!ExitLeavesNoCloseInFlight` | `NoCloseInFlightAtExit` | inductive |
| `ReactorProofs!TableIsSound` | `TableMatchesHandles` | needs `TableInv`: numbers not given out have no entry, and the loop has ended before the destruction |
| `LifecycleProofs!NoThreadRunsOn` | `NothingRunsOn` | needs that the loop thread is not started before the last step that may throw (`ThreadInv`, with the order of the steps in `AfterSteps`) |
| `LifecycleProofs!ListedHandlesAreLive` | `ListedIsLive` | needs `SeenInv`: without a race, the list a thread has read is still the list when it writes it back; and `EndInv`: nothing is listed any more when the members are freed |
| `ConnectionProofs!TypeCorrect` | `TypeOK`: the assertions and limits of the buffer | part of `IInv`, below |
| `ConnectionProofs!AlwaysInStep` | `InStep` | a read appends the next positions and a parse takes some away from the front (`FillBytes`) |
| `ConnectionProofs!RefusalIsJustified` | `RefusedOnlyIfTooLarge` | when `alloc` gives no room, the capacity is the maximum and the buffer, which is in step and holds no complete command, is full |
| `ConnectionProofs!Refinement` | the connection implements `CommandStream!Safe` | each read is a `Receive`: what its parse dispatches and rejects is what the whole stream up to there holds |
| `EngineProofs!EngineKeepsPoolContract` | every behaviour of Engine is one of `WorkerPool!SafeSpec` | `ContractInv`: the loop thread owes a notification only inside `dispatch`; the pool is stopped only after the reactor is destroyed, which is after the loop has ended. So what is proved of the pool is a fact about the pool inside the engine |
| `EngineProofs!EngineTypeCorrect` | `TypeOK` of the engine | the same |
| `EngineProofs!PoolInEngine`, `ReactorInEngine` | the invariants proved of the pool and of the reactor hold in the engine | the pool's from its contract and its theorems; the reactor's by its own lemmas for each step that is one of `Reactor`'s, and for late sends (`LateStep`) because these append and notify as the others do and touch nothing else that the invariants are about |
| `EngineProofs!LateSendsAreOwed` | `LateOnlyIfOwed` | a worker that takes up a batch late has it of a connection number that was given to one client (`IdsInv`); of a client that is still there the line says that a batch in it is not answered, and of one that has gone `GoneInv` remembers it |
| `EngineProofs!PipelineStaysIntact` | `PipelineIntact` | `OrderInv`, below |
| `EngineProofs!EngineAnswersInOrder` | the engine implements `Service!Safe` | `OrderInv`: the reply whose write has finished carries the next commands of its client's line |
| `SessionProofs!SessionTypes` | `TypeOK` of the parser | part of `ParseInv`, below |
| `SessionProofs!ParsesAsAWhole` | the parser implements `CommandStream!Safe` on any bytes | `ParseInv`: each read is a `Receive` |
| `SessionProofs!RightStreamsUnderstood` | `Understood` | `ParseInv`, and that an encoding parses back |
| `SessionProofs!BytesAreKept` | `NothingInvented` | `ParseInv`, and that what is parsed encodes as it was |
| `SessionProofs!ClientsMatchReplies` | `RepliesMatch` | `AnswerInv`, below, and `RespRepliesProofs` |
| `RespRepliesProofs!RepliesReadBack` | `ReadsBack` | `ReplyInv`: the bytes are those of the items meant, one behind the other |

**The connection.** `IInv` is what the runs check and what these need of each other. What is dispatched has
been received (or `InStep` could not be carried over a read); while the connection is not
rejected no wrong byte has been received (or a parse, which looks only at what is in the
buffer, could not be compared with CommandStream, which looks at the whole stream); a
connection that got no room has the maximal capacity. Frames are given by positions that
increase, and not by lengths, so nothing has to be proved of a sum over frames: the step
from one read to the next compares positions only.

**The engine's parts.** `EngineProofs` instantiates the proof modules of the pool and of
the reactor with the engine's constants (`PartsAssumptions` proves what they assume), so their
lemmas are cited and not repeated. `PartsInv` has the invariants of both and `ItemsInv`, which
is about what lies between them and can be stated in neither: a worker's vectors hold only
batches of connections it serves, a write queue only replies of its own connection, nothing
names a connection that is not there yet, and a client not there yet has nothing anywhere.
`ItemsInv` is why a worker may append the reply it has (`ReplyOfBatch`), and what the next
proof rests on.

**Order.** `Line` is a client's pipeline with the points at which it passes from one place to
the next; `OrderInv` says that the line of every client that is there is whole, and that the
loop, between two replies it sends, runs nothing else. The second part is needed: with a reply
left in the local vector of `_send`, another swap would put later replies before it.
The proof has three layers: the algebra of runs (a run added at the end, taken
from the front, two lists glued), then what each move of an item does to a line
(`LineAsked`, `LineFetched`, `LineRun`, `LineSwapped`, `LineQueued`, `LineWritten`,
and `LineBeside` for the moves of others), then the engine, each of whose steps is one of those
moves. A connection staying on one worker enters at `LineRun` and `LineBeside`:
only the worker that serves the connection holds anything of it.

**The parser.** What the recursive operators of RespParser and RespReplies yield for every string is
an induction. The library's induction theorems have an operator as a parameter, which the
provers cannot instantiate; `RespBytesProofs` has induction for a property given as a *set* of
numbers (`Induction`, `BoundedInduction`, `DownwardInduction`), from the least element of a non-empty
set. With it, each recursive function of a `LET` is shown to exist and to satisfy its equation
(`DecimalSteps`, `ValueSteps`, `ArgsSteps`, `ReadAllSteps`, and for `FlattenSeq`, `FlattenStep`).

Numbers, arguments and commands then have the same lemmas, one after the other: the result at a position is
unique; it excludes an Error; what is found in a piece of a string is found in the
string, at its place (`...Grows`); and what is found in the string is found in
each piece that it ends in (`...Shrinks`), an Error in each piece that reaches the end. A parse
is a *chain*, commands each of which is parsed where the one before it ends (`Chains`);
`CommandsOf` and `FramesOf` are what the one chain of a string says. A read parses what was kept
with what has come, which is the piece of the stream from the end of some command to where
the reads are; `ParseOfPiece` says that its chain is that part of the chain of the whole stream,
and `ParseInv` that this stays so: what has been parsed is a beginning of the stream's chain, what is kept
begins where it ends, and no complete command is in it. So the cut into reads does not matter, on any bytes.

For a right stream the chain is known, because what `Encode` makes of a command is parsed as the
command (`EncodeParses`; `DecimalIs` for its numbers). For any stream, a command that is parsed
encodes to the bytes it was parsed from (`CommandBytes`), as a number has one decimal form without
leading zeros (`OneDecimalForm`).

**The replies.** The bytes of an item are read as the item and to their end (`ItemReads`), at any
place of any string (`ItemReadAt`), and nothing less than all of them is read. So a client reads all
items of a string of them, and of its first k bytes those that lie in them (`PrefixReads`). In a session the
commands parsed are those answered, those dropped with the connection, and those in batches that wait, in
this order (`AnswerInv`), and what was written are the answers to the first.

Connection and RespParser meet in CommandStream: Connection implements it for every stream of frames,
with its bounded buffer; RespParser implements it for the frames of every stream of bytes.

Assumptions: `PoolAssumption`, `ReactorAssumption`, `EngineAssumption`, `LifecycleAssumption`,
`BufferAssumption`, `StreamAssumption`, `BytesAssumption`, `RepliesAssumption` (at least one worker; the markers differ from what they mark;
connection numbers are numbers; Main is not the loop thread; there are finitely many clients in
Lifecycle; the minimum of the buffer is positive and not above the maximum, as `ReadBuffer`'s
constructor asserts; libuv asks for at least one byte; the frames of a stream follow each other and a
frame's wrong byte lies in it; a command is a non-empty sequence of strings of bytes; what replies
are made of are strings of bytes, and numbers). Numbers do not wrap: that lengths and counts fit in a `size_t` is
what RespParser takes for granted. TLC evaluates them in the runs. The engine's bounds
(`MaxCmds`, `MaxLoad`, `MaxConns`) are any numbers.

**Model-checked only**:

* liveness under fairness (`StopReturns`, `RepliesDrained`, `DestructorReturns`, `ImplementsService`,
  `ProcessEnds`, `AllDispatched`, `KeepsReading`, `AllAnswered`, `LifeEnds`, the fair part of
  `ImplementsTaskQueue`), which TLAPS does not cover, nor `ENABLED`, on which fairness rests.

Every invariant, every action property and the safety part of every refinement that a passing run checks is
proved. The properties of the four other runs are false of the code (section 4).

## 6. What is not modelled, and why

* in the start-up: failures of `make_tcp_client` (its keepalive option is only recorded
  while the handle has no socket), the parsing of addresses (one outcome of `NoListen`), the
  two `Error`s that `main()`'s options cannot cause (a pool of no workers, a log level that
  does not exist), and outcomes of the race at `reactor.cpp:97` beyond lost updates;
* the memory of write requests and their contexts (`reactor.cpp:72`, `reactor.cpp:158`):
  the control is there, the reply is dropped, but memory is not counted;
* in Engine, what a task computes: outputs are named by their commands (RespReplies has
  their bytes); in RespReplies, letters outside ASCII;
* replies of one line whose text holds an end of line (an unknown command's name may): the
  bytes are modelled, but what a client reads back is stated for the others (`Clean`,
  and `Sayable` in Session);
* the destruction of the reactor is one step (`Destroy`), though workers may call `send` while
  LoopDeleter runs and the members are freed. Such a send either finds `_mutex` and `_replies` still
  there, as one just before `Destroy` does, and its reply is lost, or finds them freed, as one just
  after; both outcomes are in the model;
* what follows the failures that section 4 reports: the properties of `lifecycle` make an exception of
  the freed server handle and of the timer's race, which only the runs that report them cover,
  and say nothing of a process that has aborted (a worker's thread that cannot be started);
* queues have no limit in the code; the models bound what is sent instead. Signals, SIGPIPE on a
  write to a reset connection among them, are not modelled;
* allocation failure, numbers beyond a `size_t`, `parse`'s `reserve`;
* the logger after its `init` (and the switch in it, where the case of DEBUG has no `break`, so
  that level DEBUG sets INFO), the unused string helpers, the error types and the protocol switches: no
  state; JSON-RPC: a stub outside the build.

## 7. The plan

Done, in this order: TaskQueue and WorkerPool, Reactor, Service and Engine,
ReadBuffer and Connection, RespParser, Lifecycle, RespReplies; the proofs of the pool, of
the reactor, and of the pool's contract in the engine; CommandStream with its two
refinements, Session, the start of the process in Lifecycle with its proofs; the proofs of the
connection, of the components' invariants in the engine, of what a late send may meet, and of
the order of answers; RespBytes, and the proofs of the parser, of the session and of the replies.

Possible, but with little to gain: the memory of write requests in Reactor (nothing in
the repository says that a failed write frees its request, and it does not). Of the proofs, what is
left is liveness, which waits for a prover that has it.
