# tinycoro in TLA+

A verification development for tinycoro, a C++20 library with a single-threaded
coroutine executor over edge-triggered epoll, a callback reactor on the same
event loop, lock-free queues and a thread pool. The modules are translated from
the sources under `src/`; `PROJECT.json` maps every definition to its lines.

## The system

| Part | Sources | What it does | Concurrency |
|---|---|---|---|
| `EventLoop` | `event_loop.{h,cpp}` | channel table, `epoll_ctl`, dispatch of `on_read`/`on_write` | one thread; callbacks add and remove channels during a dispatch |
| `IoContext` | `io_context.{h,cpp}` | owns root tasks, ready queue, one reader and one writer per descriptor, deadline heap, `run()` | one thread; coroutines, callbacks, kernel and clock interleave |
| `Task` | `task.h` | lazy coroutine frames, symmetric transfer, exception capture | ownership passes between frames |
| `TcpStream`, `TcpListener` | `tcp_stream.{h,cpp}` | read, write and accept with a shared deadline | suspended operations against `close()` |
| `TcpServer`, `TcpConnection` | `tcp_server.*`, `tcp_connection.*` | callback reactor | callbacks that destroy their owner |
| `Buffer`, `HttpParser` | `buffer.h`, `http_parser.*` | byte buffer, incremental HTTP/1.1 parser | sequential |
| `MPMCQueue`, `SPSCQueue` | `queue.h` | bounded rings | lock-free, many threads |
| `ThreadPool` | `thread_pool.{h,cpp}` | workers on a semaphore, submission against shutdown | threads |

The executor waits through the event loop, streams wait through the executor,
the reactor uses the event loop directly, the HTTP example parses what its
streams read, and the thread pool uses `MPMCQueue`.
The pool and the executor do not interact. `PROJECT.json` lists the hazards of
each part at the line where they bite.

## Modules

| Module | Models | Role |
|---|---|---|
| `EventLoop` | `EventLoop` and the kernel's side of epoll | operators and state for its clients |
| `IoContext` | `IoContext`, the root frame of `Task`, the effect of `TcpStream::close` | extends `EventLoop` |
| `TaskLifecycle` | the transition diagram of a root task | abstract specification of `IoContext` and of `TaskChain` |
| `FdWaits` | what a wait on a descriptor promises | abstract specification of `IoContext`; `TcpStream` is built on it |
| `TcpStream` | `TcpStream`, `TcpListener`, `Deadline` | extends `FdWaits` |
| `Reactor` | `TcpServer`, `TcpConnection`, `EventLoop::run` | extends `EventLoop` |
| `Buffer` | `Buffer` | operators on a record |
| `HttpParser` | `HttpParser` and `serve_http()` of `examples/http_echo.cpp` | extends `Buffer` |
| `HttpServe` | a client, and the answers its requests deserve | extends `HttpParser` with the reference |
| `TaskChain` | `Task`, its promise and its awaiter | frames and the holders of their handles |
| `MPMCQueue` | `push()` and `pop()`, one shared access per step | |
| `SPSCQueue` | `push()`, `pop()`, `size()`, one shared access per step | |
| `BoundedFifo` | a bounded queue with atomic put and take | abstract specification of both queues |
| `ThreadPool` | the constructor, `submit`, `shutdown`, `worker_loop`, `take_errors` | extends `MPMCQueue`: the pool runs over the step-by-step queue |
| `MCIoContext`, `MCQueue`, `MCSpsc`, `MCTcpStream`, `MCHttp` | | symmetry sets and inputs for TLC |
| `IoContextProofs`, `ReactorProofs`, `TcpStreamProofs`, `HttpProofs`, `TaskChainProofs`, `SPSCQueueProofs` | | theorems about the module of the name |
| `PoolQueueProofs` | | theorems about `MPMCQueue`, and the part of `ThreadPool` that is about its queue |
| `ThreadPoolProofs` | | theorems about `ThreadPool`, on top of `PoolQueueProofs` |

### EventLoop

`channels` is `channels_`; a `Channel` is identified with its descriptor.
`watched`, `interest`, `cond` and `pend` are the kernel's: the interest list, the
mask given for a descriptor, the conditions that hold on it, and the ready list.
`EPOLL_CTL_ADD` and `MOD` put a descriptor whose condition already holds on the
ready list; a report under `EPOLLET` takes it off; any new arrival puts it back.
`events` and `halfway` are the local state of `dispatch_events`, which looks the
channel up again between the two callbacks of one entry. The terminal conditions
(`EPOLLRDHUP`, `EPOLLHUP`, `EPOLLERR`) are one value, `hup`, since the code treats
them alike.

### IoContext

One action is one stretch of the executor thread in which nothing else can
change what it reads: `run()` is split at the calls of user code, at the reads of
the clock and at `epoll_wait`. `pc` says where the thread is, `left` is the rest
of the `run_ready()` batch, `now` the captured time of `expire_timers()`, `until`
the tick at which `epoll_wait` times out; `epoll_wait` starts at the time its timeout was
computed from.

- User code (`UserStep`, `TaskStep`) acts outside `run()` or inside a resumed
  coroutine: spawn, stop, cancel, close, yield, wait, finish, throw.
- `Wait` and `WaitThrows` are the two outcomes of `arm_wait`, the second with each
  way its roll-back can end.
- `ExpireTimer`, `DispatchRead` and `DispatchWrite` contain the whole handler:
  completion of the slot, `refresh_interest()`, and the erasure of the `FdState`.
- `Faults` selects which calls may throw: an allocation in `spawn`, `ADD`, `MOD`,
  the push to the timer heap, `epoll_wait`.

A root stands for its chain of nested tasks: only the innermost frame can be
suspended on the executor, and it is that frame's handle which is queued.
`TaskChain` justifies this: it implements the same `TaskLifecycle`.
`ForeignAwait` lets a task suspend on an awaitable that the executor does not
know, which is what the exception "no readiness or timer wake source" is for.

### TaskChain

A frame goes from `initial` through `running`, `awaiting` (a child), `resumed` (the
child has ended) and `parked` (on the executor) to `done` and `destroyed`. Its handle
is held by a Task object of some frame or of the code outside (`tasks`), by the
`Awaiter` of a frame (`awaiter`), or by the executor (`roots`); destroying a frame
destroys what it holds (`Dead` is the least set of frames closed under that). `Create` lets the caller give Tasks as arguments, which is how
a task gets to own tasks. `Finish` is the end of the body with `final_suspend()`,
`AwaitResume` the rethrow and the destructor of the `Awaiter`. The executor is reduced
to its queue, completion and tear-down. An exception is identified with the frame
that threw it. Awaiting an empty Task and a `spawn()` that throws are covered by
`Raise` and `Reset`.

### FdWaits and TcpStream

`FdWaits` keeps of the executor what an operation can tell: one waiter per descriptor
and direction, the ready queue, the result of the last wait and the clock. `IoContext`
is shown to take no other steps (`RefinesWaits`), so `TcpStream` can use `FdWaits` in its
place. The clock is read once for what `remaining` leaves and for the deadline made of it. A task is between two operations or inside one (`op`): it tries its system call,
parks on `EAGAIN`, and looks again when it is resumed (`Resumed`). `remaining` rounds the
rest of the `Deadline` up to milliseconds, as the code does. Streams are identified with
their connections, descriptor numbers (`fd`, `file`) are reused. What a system call
returns is left open; `EINTR` and `ECONNABORTED` repeat it and are stutters.

### Reactor

`conn` is the state of the `TcpConnection` that has a number, `connections` the table of
the server, `unsent` a `write_buffer_`, `sent` what the kernel took, `told` how often the
close callback ran. Units are numbered in the order in which `send()` gets them on their
connection; `given` counts them and is not touched by what happens to them later. `pc` says which handler or callback the thread is in. User code runs
outside `run()` and inside callbacks; it may send on, close, keep or release any
connection, and throw. A handler is one step up to the callback it calls: `handle_read`
with its loop, `handle_write`, each turn of the accept loop with every way it can fail,
`~TcpServer` with its loop. `dropped` records the edges that an exception or a failing
`accept()` left unhandled, `leaked` the numbers whose object could not be allocated.

### Buffer, HttpParser and HttpServe

A buffer is the array with its two cursors, so that moves and growth can go wrong. A line
is a sequence of bytes of a few classes: a request line is well formed when all its bytes
are `Good`, a header is told by its first byte. Limits, lengths and cursors are counted
exactly. Each turn of the loop of `parse()`, and each header line, is one step;
`serve_http()` answers, reads more, or ends. `HttpServe` lets a client send requests and
computes from them, without bytes, what the answers should be (`Expected`). The client
frames its requests (`IsRequest`): a line has no CRLF inside, a header is not the empty
line, and a request that may be accepted has a body of the length it declares. Nothing is
asked of what is in the lines, so refused requests are among them.

### SPSCQueue

Indices are masked as in the code, so the state space is finite without a bound. A
load of the other side's index may return any value between the last one seen and
the current one (`Loadable`); a side reads its own index exactly. `told` keeps what
`size()` answered a side until that side changes the ring.

### MPMCQueue and ThreadPool

Each thread has a place in `push()` or `pop()` (`at`) and a local `pos`. Memory is
sequentially consistent except that a relaxed load of a position, and the value a
failed `compare_exchange_weak` leaves in `pos`, may be old, and that the exchange
may fail spuriously. `log` records values in the order of their positions, for
the refinement. The pool adds the lifecycle mutex, the semaphore, the stop tokens
and the workers; tasks may call `submit()` themselves. One client, the owner,
constructs the pool and calls `shutdown()`. The constructor starts the workers one by
one; when a thread cannot be started its catch block takes the steps of `shutdown()`
for the workers it has.

## Runs

| Run | Instance | Shows |
|---|---|---|
| `io_context` | 1 descriptor, 2 roots, timeouts 0 and 1 ms, 1 tick per ms, every fault | `OneWakeSource`, `FramesOwned`, `RegistrationAgrees`, `NoWakeSourceIsReal`, `WakeCause`, `RefinesLifecycle`, `RefinesWaits` |
| `io_time` | 2 roots, timeout 2 ms, 2 ticks per ms, `IntMax` 1 | `SleepBounded`, `NoEarlyTimeout`, `DeadlineServed` |
| `io_serve` | 2 descriptors, `events[]` of one entry, no faults | `TaskServed` |
| `task_chain` | 4 frames | `ChainIntact`, `NoExceptionLost`, `RefinesLifecycle`, `DoneReclaimed` |
| `spsc` | 2 values, capacity 4, unbounded number of calls | `CellExclusive`, `RefinesFifo`, `PromiseKept`, no deadlock |
| `queue` | 3 threads, 2 values, capacity 2, 3 pushes, stale loads | `SlotExclusive`, `RefinesFifo`, `FailsRightly`, no deadlock |
| `pool` | 2 workers, 2 clients, 3 tasks, capacity 2 | `RunsOnce`, `DrainedAtReturn`, `AcceptedRuns`, `ShutdownReturns` |
| `tcp_stream` | 2 tasks, a listener, 2 connections on one number, 1 ms of 2 ticks, writes of 2 units | `OneOwner`, `WaitersOwned`, `DeadlineSpans`, `OutcomeTrue`, `OpEnds` |
| `reactor` | 2 numbers, up to 3 connections and 2 units, 4 of both together, `events[]` of two entries | `TableAgrees`, `NumbersOwned`, `SendOrder`, `NoLostEdge`, `HangupIsReal`, `Flushed` |
| `reactor_eof` | the same | `EveryMessageEchoed` is violated |
| `http` | every pair of 17 requests at and around the limits, reads of 1 to 6 bytes, buffer of 3 bytes | `OnlyCutRefused`, `NothingLost`, `NoneForgotten`, `CapacityBounded` |
| `http_limit` | the same | `AnswersMatch` is violated |

- `io_context`: each live coroutine has one wake source, frames and registrations agree
  with the tables through every fault, and the executor implements `TaskLifecycle` and
  `FdWaits`. `io_time`: no deadline is slept past or woken for too early, and each is
  served. `io_serve`: a task that is queued, or parked with its condition true, gets to
  run (`TaskServed`), also when `events[]` is too small.
- `task_chain`: continuations, holders and the queue agree (`ChainIntact`), an exception
  gets to its awaiter, what is done is reclaimed.
- `queue`, `spsc`, `pool`: data has one owner at a time, the rings are FIFOs, operations
  fail for a reason; every accepted task runs once and nobody hangs.
- `tcp_stream`: descriptors and waiters have one owner, one deadline spans an operation,
  its outcome is true, and it ends.
- `reactor`: table, loop and kernel agree, what the kernel took and what is queued is all
  that `send()` was given, in its order, no edge is forgotten, and what is queued is sent.
- `http`: each request gets the answer it deserves, except for one that is refused because
  of where a read ended (`OnlyCutRefused`); no byte and no request is lost, and memory stays
  bounded. `http_limit` shows that the exception happens.

`BatchWithinQueue`, `NoLostEdge` of `IoContext`, `ToldOnce`, `SizeIsABound`,
`IncompleteIsBounded` and most type invariants are proved (see below) and not repeated in
the runs; `RunsOnce` and `ChainIntact` contain the type invariants of the pool and of the
chains.

### Bounds

- `MaxToken` bounds the waits that are armed, `MaxClock` the clock, `MaxPushes` the
  pushes. They are guards of the actions that would pass them.
- Two roots and one descriptor are enough for a reader and a writer, for two
  waits in a row on one descriptor (a stale timer against a new wait), and for a
  task that acts while another is parked. Two descriptors with `kMaxEvents` 1 make
  `events[]` overflow. Two ticks per millisecond make the rounding of
  `next_poll_timeout` visible, `IntMax` 1 its cut.
- Capacity 2 with 3 pushes takes the ring into its second round, where a slot is
  reused; three threads give two on one side and one on the other.
- Four frames give two chains at once, or a chain of three with a task held along it.
  A frame is created once, so `Frames` bounds the calls of coroutines.
- Capacity 4 gives the single-producer ring lengths between empty and full, and an
  old load several values to return.
- `MaxOps` bounds the operations of `TcpStream`: two of them and one free number let a
  stream be closed while an operation is parked on it, its number be reused and a second
  operation park on the new one, before the first is resumed.
- `MaxConns` and `MaxUnits` bound what peers open and what users send in `Reactor`, and
  `MaxInputs` the two together. Three connections on two numbers reuse one while its old
  entry is in `events[]`; two units make a partial send, and a send behind a queued one.
- Reads of up to six bytes in `http` cut every request anywhere and put the end of one
  and the start of the next into one read; a buffer of three bytes moves and grows.
- In the `io_*`, `task_chain`, `tcp_stream`, `reactor` and `http` runs tasks end, peers and
  users owe no further call, and the clock reaches its cap, so these runs do not check
  deadlock. `pool` does not either, since its clients may stop for ever; that nobody
  hangs there is `ShutdownReturns`. `queue` and `spsc` check it.

### Fairness

`FairSpec` of `IoContext` assumes that the thread is scheduled, that a resumed
coroutine eventually suspends or ends, that time passes, that `epoll_wait`
returns once its timeout has passed, and that no ready descriptor is passed over
for ever (the kernel's ready list is a FIFO). It assumes nothing of peers, of
signals or of the callers. `FairPool` assumes that threads are scheduled, that
tasks end, that a semaphore with tokens lets one of its waiters through, and that
`compare_exchange_weak` does not fail for ever on a current position. It does not
assume that anyone submits or shuts down. `FairSpec` of `TaskChain` assumes only that
the thread goes on from a finished child to the end of the `co_await`, and from a
completed root to `drain_completed()`. `FairSpec` of `TcpStream` assumes that the thread
is scheduled, that a task between two operations gives it back, that time passes, and
that a timer which is due again and again is served, since `expire_timers()` runs in
every turn of `run()`. `FairSpec` of `Reactor` assumes that the thread goes on and that
callbacks return; `Flushed` adds that the peer it is about keeps reading and that
`epoll_wait` serves its ready list in turn.

### Disagreements with comments, tests and docs

- `callback_echo_server.cpp:1` says that the server "echoes back every received
  message". `handle_read()` (`tcp_connection.cpp:91`) closes when `recv()` returns 0
  without calling the message callback for the bytes it has just appended, so a message
  that arrives together with the end of the stream is lost (`reactor_eof`).
- The test `ConfiguredLimitsAcceptExactBoundaries` (`test_http.cpp:208`) and the "exact
  configured limits" of `testing.md:14` say that a request line of exactly
  `request_line_bytes` is accepted. It is when its CRLF is in the buffer, as in the test, but
  `parse_request_line()` (`http_parser.cpp:82`) refuses it when a read ends between the CR
  and the LF: the CR is then counted as part of the line (`http_limit`). `OnlyCutRefused`
  says that no other request gets a wrong answer.

### Observations

- `thread_pool.h:31` says that `submit()` returns false when shutdown has started
  or the queue is full. It also does so when the slot in turn is still being
  emptied by a worker while another slot is free. In the same way a failed `pop()`, which
  `queue.h:143` calls "queue empty", may stand behind a push that is still in progress.
  `FailsRightly` names these two cases, and there are no others.
- `NumbersOwned` names the one number nobody closes: when `make_shared()` throws in
  `handle_accept()` (`tcp_server.cpp:64`) `connection` is null in the catch block.
- `NoLostEdge` of `Reactor` excludes what it calls `dropped`: after an exception left
  `dispatch_events()`, or after `accept()` failed for want of a resource
  (`tcp_server.cpp:52`), pending input is not reported again until more arrives.
- A connection that fails in `start()` is reported to the close callback although it was
  never announced (`StartThrows`).
- When the constructor of `ThreadPool` fails, `available_` is destroyed before `workers_`
  joins the threads that wait on it, since members go in reverse order
  (`thread_pool.h:46`). The model lets the workers finish, which is what happens when
  the destructor of the semaphore does nothing.
- `EventLoop::run()` sets `running_` first, so a `stop()` that comes before it is lost.

## Proofs

The theorems hold for every value of the constants that satisfies the named
assumptions of the modules: any finite or infinite sets of descriptors, roots, frames,
threads and values, any capacity of at least two, any clock resolution, any
combination of faults. Only the workers of a pool have to be finitely many, and at least
one, as its constructor demands (`thread_pool.cpp:8`).

**Executor.** The invariants are proved in layers, each one on top of the ones
before it. `TypeInv` is `TypeOK` with the fact that a coroutine is current exactly
while one runs. `RegInv` adds `RegistrationAgrees`: the agreement of slots,
`registered`, `channels` and the kernel is itself inductive, because
`refresh_interest()` recomputes the registration from the slots. `EdgeInv` adds
`NoLostEdge` under the assumption that `MOD` does not fail, whichever other calls do, with the fact that a
callback is half done only inside `dispatch_events()`. `TimerInv`
says that tokens are handed out once, that every parked deadline
is in the heap, that an entry with the token of a parked waiter is that waiter's
deadline, and that the captured time is not ahead of the clock; `SleepBounded` and
`NoEarlyTimeout` then follow from the arithmetic of `next_poll_timeout`. `TaskInv`
is `OneWakeSource` taken apart, with `FramesOwned` and
`BatchWithinQueue`: completing a slot moves one handle from the slot to the back of
the queue, and the batch cannot outgrow the queue because only `run_ready()` pops.
From these follow `NoWakeSourceIsReal`, `WakeCause`, and that every step of the executor is a step or a stutter of `TaskLifecycle`, and of `FdWaits`.
`IoContextAssumption` asks of the constants only that they have their types and that
`None` is neither a root nor the record of a waiter.

**Reactor.** `ReactorProofs` has an inductive invariant in four parts, `TableInv`. `RegInv`
is `TableAgrees` with the interest of the listening socket: `close()` undoes exactly what
`start()` did, and every change of a queue between empty and not empty comes with an
`update_channel()`. `BytesInv` says that the units taken and those queued form one row of
numbers (`Numbered`), as many as `given` counts, from which `SendOrder` follows, and that
only an open connection has any. `OwnInv` is `NumbersOwned` and `ToldOnce` with the fact that the number being accepted,
and a leaked one, has no object. `KernelInv` has the types of the kernel's state, that
`events[]` is empty outside `dispatch_events()`, that `handle_accept()` runs for an entry of
the listening socket, and that a waiting peer makes that socket readable. On top of it
`NoLostEdge` is inductive: an arrival is within the mask of every waiting party, `ADD` and
`MOD` check the condition at once, `epoll_wait` moves an entry to the array, and a handler
uses its condition up or closes. `HangupIsReal` needs only that `handle_read()` and
`handle_write()` ask the socket before they close.

**Transport.** `TcpStreamProofs` proves its safety properties from one invariant, `TcpInv`.
To `OneOwner`, `WaitersOwned` and `DeadlineSpans` it adds that a task runs, is queued or is
parked, one of these at a time (`Apart`), that an operation gives up the thread only to
wait, on an object that stays open while it has the thread (`OpsRun`), and why a waiting
operation was woken: readiness, a closed socket or a deadline that has passed
(`WokenFor`), which gives `OutcomeTrue`.

**HTTP.** `HttpProofs` starts with lemmas about the buffer: what each of its operations
does to the readable bytes and to the cursors. `HttpInv` adds to the types that a declared
body is within its limit, and has `IncompleteIsBounded` and `CapacityBounded` in it: the
buffer grows only when the parser asks for more, and then it holds no more than the limit
of its state. `NothingLost` is inductive together with it. All hold for any input, limits
and sizes.

`OnlyCutRefused` and `NoneForgotten` are proved from `AnswersInv`, for any framed requests,
limits and sizes of buffer and reads (`AnswersCorrect`). It says which requests were answered (`Answered`),
where the parser is in the next one (`At`) and what the bytes left in the buffer and on the
wire are there: the request's lines that were not parsed yet, its body, and the requests
after it. Between headers the parser has counted the bytes of those it saw, has the length
of the body if one declared it, and found nothing to refuse (`Parsed`). When `parse()` has
asked for more, what it looks for is not in the buffer (`Starved`), and when it refuses,
the next request is not acceptable, or its line is at the limit and was cut (`Refusable`);
`CutAfterCR` shows that more bytes than the limit without a CRLF can be nothing else.
`AnswersExact` is what follows for clients that never send a line of exactly
`request_line_bytes`: every answer matches. The heart is `FirstLine`: the
first CRLF in the buffer is the end of the line the client sent, however much of it has
come, also when the line ends in a CR of its own. A read changes neither the bytes left nor
the place of the parser, which is why the cuts do not matter. The bytes of the requests are
a recursive function over sequences (`Joined`); that it exists, and what it does one
sequence at a time, is proved by induction, from the least element of a set of naturals
(`LeastNatural`). `AcceptableHeaders` relates the verdict on a whole request to the
parser's verdict on one header after the other, and `ExpectedAnswers` says what the
reference expects after any number of accepted requests.

**Tasks.** `TaskChainProofs` proves `ChainIntact` and `NoExceptionLost` from `ChainInv`.
`OneHolder` counts holders; the invariant says the same without counting, as `Single` (no
two hold a handle) and `Kept` (a frame is alive exactly while it is held). To the links
between a frame and its awaiter (`Chained`) it adds the other direction: a frame has an
`Awaiter` exactly while it awaits, and one that has ended holds nothing (`Waiting`). It
also needs that only the root that ended last is on the completed list, with nothing
running (`Ended`), and that an exception is in flight only in the running frame
(`Propagating`). The heart is the destruction of a frame: `Dead` takes along what the frame
holds, and so on down, and since `Dead` is the least such set, each case shows a closed set
with the wanted property. A destroyed Task takes along only frames that never started; the
end of a `co_await` takes along just the finished child; the destruction of the executor
takes along its roots with everything below them, and no more.

That a root with its chain is one task (`ChainIsOneTask`) rests on `LifeInv`, which adds
`Rooted`: what was started and not destroyed lies on the line of a root, and a root that
was let go was destroyed. `Line` is a least set too, so its facts need no induction over
the length of a chain: the lines of two roots are disjoint, a line has one innermost frame,
and `co_await` or the end of one adds or takes away just that frame (`LineGrows`). A
queued handle is the innermost frame of its line, so the queue of handles maps to a queue
of roots, one entry for each; calls and returns keep the running frame on its line and are
stutters, and every other step is one step of `TaskLifecycle`.

**Queue.** `PoolQueueProofs` uses three facts about slots: a position has a slot,
positions less than `Capacity` apart have different slots, and positions exactly
`Capacity` apart share one. The inductive invariant `QueueInv` says that the
positions from `dequeue_pos` up to `enqueue_pos` are published or being filled by
one producer (`Filled`, `Producers`), that the following ones, up to a full round,
are free or being emptied by the consumer of the last round (`Free`, `Consumers`),
that the test of a sequence is still valid at a `compare_exchange` that succeeds
(`Candidates`), and that the sequence of a slot never falls behind a position that
was handed out (`Advanced`, which is what makes stale loads harmless). From it
follow `SlotExclusive`, `FailsRightly` and the refinement of `BoundedFifo`. Capacity
one would break it: `pos + 1` and `pos + Capacity` would be the same sequence.

**Thread pool.** Every step of the pool is a step or a stutter of its queue
(`PoolImplementsQueue`), so `QueueInv` holds in the pool too. `PoolInv` adds what the pool
does with it. The lifecycle mutex lets one `push()` run at a time (`Phases`, `Latest`).
Until `shutdown()` has released its tokens, the tokens of the semaphore, the workers that
have taken one and no task yet, and the push whose token is still to come, together are as
many as the tasks in the ring (`Tokens`). So no `pop()` fails before that, and one that
fails later has seen a ring that is empty and stays so (`FailsEmpty`): a worker does not
leave a task behind. `Submitted`, `Claims` and `Counts` follow a task from the
`compare_exchange` of its push over that of its pop to its call, which gives `RunsOnce`:
positions are claimed once, and a task has one position. `Running` and `Caught` follow it
to its end, which gives `DrainedAtReturn`. A pool whose constructor failed was never used
(`Unused`). The counting uses four facts about the cardinality of sets of workers
(`Counted`), which is why these are assumed to be finite.

**Single-producer queue.** `SPSCQueueProofs` rests on lemmas about the distance
between masked indices. The inductive invariant `SPSCInv` says that, going round the
ring, the last `head_` seen by the producer, `head_`, the last `tail_` seen by the
consumer and `tail_` come in this order (`InOrder`), that a side past its test has
room or an element by the index it saw (`Tested`), and that `told` agrees with the
indices seen (`Promised`). Being old only makes a side more careful, which is why
`CellExclusive`, `SizeIsABound`, `PromiseKept` and the refinement of a FIFO of
`Capacity - 1` elements follow for every staleness of the loads.

**Only model-checked.** Liveness (`DeadlineServed`, `TaskServed`, `DoneReclaimed`,
`AcceptedRuns`, `ShutdownReturns`, `OpEnds`, `Flushed`), which is out of the prover's reach.
Every invariant, action property and refinement of the passing runs is proved.

## Not modelled

Addresses, socket options, the text of requests and of errors; allocation failure
other than the faults named above; a failing `EPOLL_CTL_MOD` in the reactor; a server
destroyed by its own callbacks, and a connection of a server whose close callback the
user replaced; concurrent calls of `shutdown()` of the pool and a `shutdown()` from a
task; the wrap of 64-bit positions and of the clock;
memory orders weaker than stale loads of positions and indices; `empty()` of
`MPMCQueue`, which the library does not call, and `size()` of `SPSCQueue` from a
third thread, of which nothing but the range is promised; the values of `Task<T>`;
the example programs other than `serve_http()`, and the benchmarks.
