# Verification of libuv-cpp-wrapper

TLA+ models of `uvpp` (the C++ wrapper in `src/uvpp`) and of the parts of the
vendored libuv it stands on (`src/libuv`, Windows backend), TLC configurations
that check them on small instances, and TLAPS proofs about them for every
instance.

libuv differs from one system to another; the models follow
`src/libuv/src/win`, the backend the samples are built on.

## 1. The system

`uvpp` wraps one libuv event loop and its handles in C++ classes. Everything on
a loop runs on one thread: the program's code outside `uv_run`, and inside it
the callbacks libuv makes. Other threads reach the loop in two ways only,
`uv_async_send` and the thread pool.

| Component | State | Operations | Hard behaviour |
|---|---|---|---|
| `Handle<T>` (`uvpp_handle.h`) | wrapper, heap block with the libuv handle, `data` pointer, close callback | construct, `close`, `ref`, `unref`, destroy, `handle_close_cb` | block and wrapper die at different times and in either order; the destructor may run in any callback, its own close callback included |
| Loop core (`core.c`, `handle.c`, `handle-inl.h`, `req-inl.h`) | handle flags, `active_handles`, endgame list, pending requests, completion port | `uv_run`, `uv_close`, `uv_process_reqs`, `uv_process_endgames` | lists change while they are walked; a close waits for requests; a counter kept by many hands decides when `uv_run` returns |
| `Idle` (`loop-watcher.c`) | watcher list | `start`, `stop`, callback | watchers stopped or closed by another's callback |
| `Async` (`async.c`) | `async_sent`, one embedded request | `send` from any thread, wakeup | coalesced sends, a send racing the callback or a close |
| `AsyncFunctor` | functor queue, mutex, an `Async` | `queue` from any thread, `onFunctor` | functors without a wakeup of their own; a null functor ends a drain |
| Thread pool (`threadpool.c`) and `Loop::queue_work` | pool queue, a queue per loop, `w->work`, two kinds of mutex | `queue_work`, `uv_cancel`, `worker`, `uv__work_done` | cancelling races running; two mutexes; contexts freed on one thread while another still reads them; one signal or wakeup for many works |
| `Mutex`, `Condition` (`uvpp_thread.h`, `thread.c`) | condition variable, or two events and `waiters_count` | lock, wait, timedwait, signal, broadcast | steps outside any lock; an auto-reset event remembers one signal only |
| `BlockingQueue` | deque, mutex, condition | `put`, `take` | stolen and lost wakeups |
| `Thread` | `ThreadPrivate`, which deletes itself | `run`, `join` | the thread may end before `uv_thread_create` has written its handle; it deletes what `join` reads |
| `Singleton` | one instance over `uv_once` | `instance` | threads racing through `uv_once` |
| `Timer`, `Loop::run`, `run_once`, `stop` (`timer.c`, `core.c`) | timers ordered by due time and start, the loop's cached time, `stop_flag` | `start`, `stop`, `again`, `setRepeat`, the phases of `uv_run` | timers that change timers from callbacks; times of limited width; a cached time and polls that end early; when to poll and for how long |
| `Stream`, `Tcp` (`uvpp_stream.h`, `stream.c`, `tcp.c`) | handle flags, one read request, write requests, shutdown request, **one slab per loop** with `in_use` | `read_start`, `read_stop`, `write`, `shutdown`, `close` | the program acts on the stream inside the receive loop; all streams share one buffer; shutdown, writes and close share the endgame |
| `TcpServer`, `Tcp::connect`, `listen`, `accept` | a listening socket with its accept requests; connections held by their own close callbacks | `listen`, new connection, connect, close | requests that fail to queue, complete after a close or complete with a broken connection; ownership by closure, errors ignored |
| `Pipe` | like `Tcp` | the same | the same, with more request kinds |
| `ThreadLocal`, `ScopeExit` | a key; a function | get, set | |
| HTTP parser, other libuv handles, Unix backend | | | vendored, not the wrapper's logic |

How they interact: every handle class is a `Handle<T>` and lives by the loop
core's rules. `AsyncFunctor` owns an `Async`; the thread pool ends in the
loop's own `uv_async_t`; `BlockingQueue` stands on `Condition`, and `Singleton` on
`uv_once`, as a thread's own key does; all streams of a loop share `Loop::buffer`;
a `TcpServer` makes the connections that are `Stream`s from then on.
`PROJECT.json` lists the components with what is modelled of each, and the
hazards line by line.

What makes them correct:

- *Handle*: no pointer to a freed block or a destroyed wrapper is followed;
  nothing leaks; each close ends, once, with the close callback last;
  `active_handles` is exact, so `uv_run` returns when it may and, while a handle is
  open or closing, says that the loop is alive.
- *AsyncFunctor*: each functor runs once, in order; none waits with no wakeup
  under way.
- *Thread pool*: a work runs at most once and is called back exactly once with
  the true status; a cancelled one never runs; no context is used after its
  deletion; no deadlock.
- *Condition, BlockingQueue*: signals and broadcasts reach whom they promise;
  elements are taken once, in order, by takers that do not sleep beside them.
- *Thread, Singleton*: what `uv_once` guards is built once and before its use;
  a thread's handle is written while there is a place for it.
- *Timer*: no timer fires early, before one that has waited longer, or never;
  the loop polls again and again, and hears `stop()`.
- *Stream*: the slab always comes back; data and the end of the data reach a
  reading program; requests are answered before the close callback.
- *TcpServer*: accept requests are neither lost nor freed in use; a connection
  has an owner until it is closed and none of its own after; an established one
  is announced once at most, and every connect is answered.

## 2. Modules

| Module | Models |
|---|---|
| `HandleContract` | what a handle promises its program (abstract) |
| `HandleLifecycle` | `Handle<T>` and the loop core, with idle, async and tcp handles |
| `FunctorExecutor` | a FIFO executor (abstract) |
| `AsyncFunctor` | `AsyncFunctor::queue` and `onFunctor` over `uv_async_t` |
| `WorkContract` | the life of one work (abstract) |
| `ThreadPool` | `threadpool.c` and `Loop::queue_work` |
| `CondVar` | `uv_mutex_t` and `uv_cond_t`, native and event fallback |
| `Thread` | `uv::Thread::run`, `uv_thread_create`, `uv_once`, `Singleton::instance` |
| `Condition` | threads that meet at one `uv::Condition`: composes `CondVar` and `Thread` |
| `FifoContract` | a FIFO queue (abstract) |
| `BlockingQueue` | `BlockingQueue<T>` on `CondVar` |
| `Timers` | `uv::Timer`, `Loop::run`, `run_once` and `stop` |
| `StreamContract` | what a connection promises (abstract) |
| `Stream` | `uv::Stream` over connected sockets and the slab they share |
| `TcpServer` | `uv::TcpServer`, its accept requests, its connections' owners, `Tcp::connect` |
| `*_proofs` | the inductive invariants and theorems of `HandleLifecycle`, `AsyncFunctor`, `ThreadPool`, `BlockingQueue`, `Condition`, `TcpServer`, `Stream`, `Timers` |
| `MC*` | instances: small sets and functions for the constants |

### HandleLifecycle

An element of `Handles` is one allocation; `Kind` makes it an idle, async or tcp
handle, the three ways in which a close is delayed: not at all, by the one
wakeup, by requests. `wrapper`, `mem` and `data` are the C++ object, the block
and the pointer between them; `flags` is `handle->flags`. A request moves
through `os` (kernel), `port` (completion port), `pending`
(`pending_reqs_tail`) and `batch` (the list `uv_process_reqs` has detached);
`reqs` is `reqs_pending`, or `async_sent`. `phase`, `visit` and `frame` say where
`uv_run` is: which phase, which idle watchers are still to be called, whose
callback is running; `mode` in which of the two ways the wrapper calls `uv_run`,
and `stop` is `stop_flag`. `run_once` leaves after one iteration, and a stopped loop
after the one it is in, with closes unfinished it may be. `UserTurn` lets the program act outside `uv_run` and inside
every callback, so each operation is tried at each such point, on the handle
whose callback runs and on the others.

`Create`, `OnClose`, `Close`, `Destroy`, `Reref`, `IdleStart`, `IdleStop`,
`Request`, `Send` and `StopLoop` are the program's; `Run` (by `Enter`, `Loop::run` or
`run_once`), `RunInVain` (after a `stop()`), `TcpReqBegin/End`,
`AsyncWakeup`, `ReqsDone`, `IdleCall`, `IdleDone`, `Poll`, `Endgame`,
`EndgamesDone` and `Return` are `uv_run`'s; `Complete` is the kernel's.

Abstractions: `uv_poll_ex` takes all completions, while the code takes up to 128
packets; the order of requests within a batch and of watchers within an
iteration is free; a freed address is never reused, so that following a pointer
to it is seen; calling `close` on a closing handle, which `uv_close` asserts
against, is left to the program not to do.

### AsyncFunctor

`queue` is four steps (lock, push, send, unlock), the send two when it posts a
packet, as another thread may run between the exchange of `async_sent` and the
post. `onFunctor` drains one functor per turn with the mutex held for the pop
only. The loop thread may itself queue from a functor.

### ThreadPool

Each line of `worker`, `uv__work_cancel` and `uv__work_done` at which another
thread may come between is a step. Loops run on threads of their own. Linked-list
membership (`QUEUE_EMPTY(&w->wq)`), which `uv_cancel` relies on, is `Linked`.
`async_sent` and its packet are one Boolean; `AsyncFunctor` has that protocol in
full. `uv_cancel` is not wrapped by `uvpp`: the program calls libuv's, on the
request inside the context `queue_work` made.

### CondVar, Thread, Condition, BlockingQueue

`CondVar` is a set of actions with the thread as parameter, native or fallback by
a constant, as `HAVE_CONDVAR_API()` is constant after start. A section under
`waiters_count_lock` is one step; what `uv_cond_wait_helper` does outside it is a
step each: releasing the mutex, `WaitForMultipleObjects`, leaving, resetting,
relocking.

`Thread` is another such set: `stage` is where each thread is between its making
and its end. `uv_thread_create` is three steps on the making thread (the suspended
thread, the handle, `ResumeThread`), so that the new thread could overtake it;
`uv_once` is a step for each access to the guard, for two guards, the key in
which a thread keeps its own handle and the `Singleton`. Memory is sequentially
consistent, as `uv_once` takes it to be (`ran` is read without a barrier).

`Condition` composes the two: threads begin by `Thread::run`, ask a `Singleton` for
the mutex and the condition it holds, and then wait, signal or broadcast. `BlockingQueue`
adds `put` and `take` to `CondVar`. The native broadcast is `WakeAllConditionVariable`
and nothing else and is not modelled.

### Timers

`timer` is a record per timer of the `uv_timer_t` and its wrapper; the red-black tree
is `order`, the active timers by `start_id`, of which `First` has the least due
time, as `RB_MIN` by `uv_timer_compare` does. `clock` is `uv__hrtime` and `time` the
cached `loop->time`; both are natural numbers, and where the code computes with a
`uint64_t` or an `int64_t` the model computes modulo `Word`: `DueTime` and
`NextTimeout`. `at` follows `uv_run` phase by phase, in both of the modes the wrapper has, and `run`
is its locals; in every callback the program may start, stop, restart, repeat or
close any timer, submit a request, call `stop()` or `update_time()`. One
request stands for all others that end a poll.

`asked`, `passed` and `run.awaited` are history: when a timer was meant to be due,
computed without the width; which timers fired while it was due; whether a poll has
waited until the first timer is due and none has fired since.

### Stream

`handle` is a record per stream of the fields of `uv_tcp_t`, with its read request
counted where it is (`reads` in the kernel, `readReady` completed or linked
pending), its write requests, and the shutdown request. `socket` is the peer's
and the kernel's side. `at` is where the loop thread is: choosing (`loop`), in the
receive loop of `uv_process_tcp_read_req` (`recv`), at its label `done`, or in a
callback of the program, where the program may start, stop, write, shut down,
close or destroy that stream or the other.

Abstractions: streams are connected from the start and have both callbacks
set; completed requests and queued endgames are processed in any order
(`HandleLifecycle` has `uv_run`'s order); reads are of zero bytes, as
`uv_active_tcp_streams_threshold` is 0; data is a number of pieces, `Slab` of which
fill the slab. `Stops` are the streams on which the program uses `read_stop`,
`Refused` those for which `WSARecv` reports a broken connection at once,
`ClosesInEnd` those the program closes in their own end callback, `Steady` those that
neither the program nor the peer ends. In the passing run `Refused` and `ClosesInEnd` are
empty, as a refused read on a stream of `Stops` and a close in the end callback are the
findings below. The theorems are about any of these sets; only that of the read request
assumes `Stops` and `Refused` to be disjoint. A wrapper is not destroyed inside its own end
callback, as `stream_read_cb` goes on with it.

### TcpServer

`server` is the listening `uv_tcp_t`: its life, `LISTENING`, `reqs_pending` and
`ENDGAME_QUEUED`. Each `uv_tcp_accept_t` is idle, in the kernel, or done, with the
socket it has got. A connection (`conn`) is its `uv_tcp_t`, the client at the other
end, and who holds a `shared_ptr` to it: the closure in its own close callback
(`self`), the program, both or neither; `Released` is what happens when one goes.
`client` is a `Tcp` that connects, with its request.

A handler of the loop thread is one step, including what the program's `onConnection`
does to the connection it is given (nothing, if the server has gone: `stream_connection_cb`
tests `data`); everything else the program does is a step of
its own, between handlers. `faults` counts the failures of `uv_tcp_queue_accept`, of
`uv_tcp_set_socket` and of accepted sockets, any of which may happen wherever the code
handles it, up to `MaxFaults`.

Abstractions: what an established connection carries is `Stream`'s; the backlog is
long enough; a server listens once, with a fixed number of accept requests
(`uv_simultaneous_server_accepts`), and is not destroyed by its own `onConnection`.

## 3. What TLC checks

| Run | Instance | Shows |
|---|---|---|
| `handle` | one handle of each kind, a close callback on the async and the tcp one, one request of the tcp handle at a time, `run`, `run_once` and `stop` | no dangling pointer, no leak, exact `active_handles`, callbacks find their wrapper, `HandleContract`; no close is left by `uv_run` unless it says that the loop is alive; every close begun ends; `uv_run` returns when nothing holds it |
| `functor` | loop thread and two others, four functors, one null | no lost wakeup, in order, every functor runs |
| `pool` | two workers, three works, two loops, `uv_cancel` | single ownership, no use after free, no lost signal or wakeup, `WorkContract`: each work runs once or not at all, and is called back |
| `condition` | two waiters begun by `Thread::run`, with three waits each, two callers that signal or broadcast, fallback | what `uv_once` guards is built once and before use; the handle is written in time; a broadcast that is the only one finds all that were blocked |
| `broadcast_undone` | two waiters with a wait each, two callers that broadcast, fallback | *violation* of "broadcast unblocks all threads currently blocked" |
| `queue_native` | two putters, two takers, four elements | no lost wakeup, FIFO, every take returns |
| `queue_lost_wakeup` | two putters, two takers, fallback | *violation* of "every take returns" |
| `stream` | two streams: on one, two pieces of data, two writes, reading stopped and started, shutdown, close, destruction and the peer's end; the other sends a piece and goes on | one read request, end told only by the peer, whatever happens to the slab; exact counts, `StreamContract`, data is read |
| `stream_close_twice` | one stream closed in its end callback | *violation* of `uv_close`'s assertion |
| `stream_read_twice` | one stream, refused read, stop and start | *violation* of `uv_insert_pending_req`'s assertion |
| `timers` | two timers, one at once or repeating, one later or beyond the width of the time; a request; a width of 16, polls of 1, a clock up to 2 | never early, in order, no timer forgotten, the loop polls on and hears `stop()`, a timer that a poll has waited for fires before `uv_run` returns |
| `server` | one client, three accept requests, three connections, two failures | accept requests neither lost nor freed in use, connections owned until closed, an established one in one place, a destroyed server freed, every connect answered |

Each run has a question of its own; those whose safety and liveness parts fit one
instance are one run. The type invariants of `ThreadPool`, `Condition`,
`BlockingQueue`, `Stream`, `Timers` and `TcpServer` are in the modules and hold of
the same instances, but are not part of the runs, which keep to what could be
wrong in the code; but for history and counters, they are part of the proved invariants. `CloseIsOwed`, `CloseCallbackIsLast`,
`RefinesContract` and `OnePacket` are proved and not run.

Why the bounds suffice. *Handles*: three handles make the endgame list longer
than one and let each callback act on the others; one request at a time is begun
again and again, also from callbacks and under a close; the idle handle needs no close
callback (`Listeners`), as the code for it is the same for every kind. *Functors*: with four, one can
be running, one coalesced, one null and one behind it; three threads give two senders
besides the loop. *Pool*: three works keep both workers busy with one left to cancel or
to wait behind the others, and the third is on another loop, so that the loops' mutexes
differ. *Queue*: two takers allow a stolen wakeup, and two elements each a second wait.
*Condition*: two waiters tell the last from the other, three waits let
one come back before the other has left and wait for either caller; the waiters are begun
while the callers race for the instance, so that both guards of `uv_once` have a winner,
losers that wait and late-comers. *Timers*: two timers can be due together, one overtake the other or
starve it; a width of 16 leaves room for a timer within reach, one that the poll cannot
reach at once (`MaxPoll` 1), one beyond half the range and one whose due time wraps, while
the clock of 0 to 2 lets a timer be late. `TimeIsUp` ends it. *Streams*: two share the slab, and
it is enough that one of them meets everything while the other holds the slab or finds it
in use (`Steady`); two pieces fill the slab, one leaves room; two writes distinguish the
last. *Server*: three requests distinguish the last
and leave one in the kernel while one is being processed and one has failed; two
failures can hit two requests, or one twice; three connections are one for the
client and one for each failure, as many as the server can ever make.

All bounds are constants (`MaxReqs`, `Takes`, `Waits`, `Incoming`, `MaxWrites`, `Slab`,
`MaxFaults`, `Horizon`, `Word`, `MaxPoll` and the sets); nothing in the code bounds the
number of requests.

Deadlock is checked in every run. The stuttering actions `Finished`, `Quiet` and
`TimeIsUp` name the states in which each system rightly rests.

### Fairness

- `HandleLifecycle`: the program runs the loop again and again while it is alive, by `run`
  or by `run_once`, and does not stop it before each run (SF of `Enter`: between a stop and
  the run that forgets it there is nothing to enter); its callbacks return (WF of the loop's
  steps as a whole); the kernel completes every request. The program need do nothing to a
  handle.
- `AsyncFunctor`, `ThreadPool`, `CondVar`'s users: a thread goes on with what it
  has begun (WF). SF on taking a mutex: a `CRITICAL_SECTION` is not fair, but it is
  held for a few steps only, and a thread that finds it free again and again is assumed
  to get it. In `ThreadPool` it is enough that *some* worker gets it, and the loop
  thread's own steps are SF because the program may call `uv_cancel` between any two
  of them. Threads on their way through `uv_thread_create` and `uv_once` go on (WF).
- `Timers`: the loop's phases go on (WF) and the clock runs (SF: it only moves where
  time passes, in callbacks, polls and outside). The program runs the loop again and
  again, in either mode, and does not stop it before each run (SF); it need not start
  or stop a timer, and the kernel need not complete the request.
- `Stream`: SF on processing a completed read, a completed write and a queued
  endgame, as `uv_process_reqs` and `uv_process_endgames` take all there is on every
  iteration and so none is overtaken for ever. The program and the peer need do
  nothing.
- `TcpServer`: WF of the loop's handlers as a whole and of the kernel as a whole. There
  are finitely many clients and failures, so that neither can go on for ever with others.

No condition variable is assumed to wake a thread without a signal, and no timed
wait to time out.

### Findings

- **`queue_lost_wakeup`.** On the event fallback (no `CONDITION_VARIABLE` in kernel32)
  two `put`s signal an auto-reset event while both takers stand between
  `uv_mutex_unlock` and `WaitForMultipleObjects`: the event remembers one signal, and
  one taker sleeps beside an element. The comment in `thread.c:629-631` says the events'
  state avoids it.
- **`broadcast_undone`.** On the same fallback the last waiter of a broadcast resets the event
  after it has left `waiters_count_lock` (`thread.c:638-649`). A thread that begins to wait and
  a second broadcast may come between, and the late `ResetEvent` undoes that broadcast: the
  thread was blocked when it was made, and sleeps for ever. `uvpp_thread.h:87` promises to
  unblock all threads currently blocked. For a broadcast that is the only one
  `LoneBroadcastReaches` holds, checked and proved.
- **`stream_close_twice`.** `stream_read_cb` calls `close()` after the end callback
  without asking whether that callback has closed the stream; `uv_close` asserts.
- **`stream_read_twice`.** A read that `WSARecv` refuses is linked as pending without
  `UV_HANDLE_READ_PENDING`; stopping and starting again before the loop gets to it
  links the same request twice.

More that the models show, and that no run has a property of:

- A thread that comes to wait later may consume a signal meant for one that has not
  reached `WaitForMultipleObjects`.
- A null functor ends the drain of `AsyncFunctor`, and what was behind it waits for the
  next `queue()`.
- `UV_RUN_ONCE` may return without having called anything, though `core.c:356` says that "at
  least one callback must have been invoked": the packet its poll dequeues is left to
  `uv_process_reqs` of the next iteration (the comment thinks only of polls that end by
  their timeout), a timer further away than the longest poll is not reached by one poll,
  and one half the range of the time away or more counts as overdue in `uv__next_timeout`:
  the loop does not wait for it, and spins. In `Timers` all three are reachable. What does hold is
  `AwaitedFires`: when a poll has waited until the first timer is due, that timer fires
  before `uv_run` returns.
- A timer started with timeout 0 in a timer's callback is due in the same
  `uv_process_timers`: a program that always does so keeps the loop from polling
  (`Spinning`).
- `handleNewConnection` ignores the status it is called with and the results of
  `accept` and `read_start`: when an accept request could not be queued it announces a
  connection that does not exist (`peer` is `None`), with an owner like any other, which
  ends only when the program closes it.
- The close callback that owns a connection replaces one that `onConnection` has set; and
  one that the program sets later destroys the connection, unless the program
  keeps the pointer (`replaced`).
- One accept request that cannot be queued ends listening, while the others stay with the
  kernel and go on accepting: queueing one of them again meets the assertion
  at `tcp.c:403`, which, compiled out, leaves things as modelled; no property is about the
  assertion.

## 4. What is proved

The proofs hold for every value of the constants, under the named assumptions of
the modules: in `HandleLifecycle` a finite set of handles, `NoHandle` outside it,
kinds among the three, `MaxReqs` positive; in `AsyncFunctor` the loop thread among
the threads, `Free` no thread, null functors among the functors, `None` no functor; in
`ThreadPool` at least one worker (`init_once` starts one whatever `UV_THREADPOOL_SIZE` says),
`Free` no thread, `None` no work, each work with its loop, and no bound on any of them; in
`CondVar` a finite set of threads, `Free` outside it; in `BlockingQueue` takers among the
threads, `None` no element; in `Condition` the callers among the threads that run from
the start; in `TcpServer` finite sets, as many connections as clients and failures can
ask for, and clients that are none of the marks of a socket without one; in `Stream` a finite set of connections, `NoStream` outside it, `Slab` positive and any
bounds; in `Timers` timeouts and repeat values of the width, and a clock
(`Horizon`) and polls (`MaxPoll`) that reach less than half of it.

**`HandleLifecycle_proofs`.** The inductive invariant is
`TypeOK /\ LifeInv /\ EndgameInv /\ ReqsInv /\ OwedInv /\ IterInv /\ ActiveCountExact`:

- `LifeInv` ties flags, block, wrapper and `data` together; the checked
  `NoDanglingPointer` alone is not inductive, as it does not say that a destroyed
  wrapper's block has been marked closing;
- `EndgameInv`: the endgame list has no duplicates and holds exactly the handles with
  `ENDGAME_QUEUED`;
- `ReqsInv`: `reqs_pending` is the number of requests in the four places plus the one
  whose callback is running, and `activecnt` the number of registered ones;
- `OwedInv`: the handles on the list are exactly the closing ones whose requests are over;
  one with requests under way has its block;
- `IterInv`: the iteration under way has only active idle handles to visit, no callback runs
  where the loop makes none, and no request is left in a batch;
- `ActiveCountExact`: needed for `activeHandles - 1` to be right, and itself a checked
  invariant.

One lemma per action shows that it preserves all seven; `CountMoves` and `CountStays` carry
the cardinality argument, `EndgamePush` and `EndgamePop` the list's. From the invariant
follow `TypeCorrect`, `NoDangling`, `NothingLeaks`, `CloseOwed`, `ActiveCount`, the action
properties `RunFinishes` (`Loop::run` leaves a close unfinished only after `stop()`, and whenever
a stopped run or a `run_once` does, `uv_run` reports the loop alive), `CallbackFinds` and `CloseLast`, and `Refinement`: `Init` maps to
`HandleContract`'s `Init`, and each step changes one handle's state as the contract allows or
none.

**`AsyncFunctor_proofs`.** The invariant is
`TypeOK /\ MutexInv /\ FreshInv /\ PacketInv /\ NoLostWakeup`. `MutexInv` says who is in the
critical section, `FreshInv` that the functor a thread is about to queue is new,
`PacketInv` is `OnePacket` counting the one thread that may be about to post. `NoLostWakeup` is inductive only with these: the step that matters is a
send that finds `async_sent` set, where `PacketInv` supplies the packet that will drain the
queue. Theorems: `TypeCorrect`, `WakeupNotLost`, `PacketOnce`, `Refinement` (of
`FunctorExecutor`).

**`ThreadPool_proofs`.** The invariant follows each work. `PlaceInv`: from the time it is queued
to its after callback the work is in exactly one of the pool's queue, its loop's, that of
`uv__work_done`, a worker's hands and those of the thread that submits or requeues it, and
`w->work` is what that place requires (the program's function, `NULL`, or `uv__cancelled`). `QueueInv`: no queue has a
work twice. `WorkerInv`: no two workers carry one work, and a worker that has handed its work over and
still reads `w->loop` holds that loop's mutex, the work still in that loop's queue; this is what
makes `Split` harmless, which needs the mutex. `ArgInv` and `CallInv` say what the loop's thread has in
hand. Of the mutexes no more is needed there: the pool's own only makes each section one step.
`TailSeq`, `AppendSeq` and `RemoveSeq` are the facts about queues without repetition. Theorems:
`TypeCorrect`, `NeverUsedAfterFree`, `AlwaysInOnePlace`, and, by an induction of their own on top of
it, `NoLostSignal` (`post` signals only when it finds the queue empty, and that is enough to keep
one worker awake, if not as many as there are works) and `NoLostLoopWakeup` (`CalledInv` adds that
the worker about to send sends to this loop). `Refinement`: taking a work is `Begin`, its callback's
return `End`, unlinking one that is not yet cancelled `Cancel`, `Call` is `After`, and every other
step a stutter. `NeverAborts`: a worker never calls `uv__cancelled`, which aborts the process.
`LocksInOrder` is an induction on the two kinds of mutex (`PoolLocked`, `LoopLocked`): who holds a
loop's mutex is a worker that waits for nothing until it unlocks it, and who holds the pool's is
a worker that tests the queue or a loop's thread in `uv__work_cancel`, which may wait for a loop's
mutex and for nothing else. So the threads never wait in a circle, and no mutex is left locked.
With `NoLostSignal` and `NoLostLoopWakeup` this is the safety part of `RefinesFairContract`: what
is left to fairness is that threads go on.

**`BlockingQueue_proofs`.** The invariant has a part for each thread, `PlaceInv`: who holds
the mutex follows from where each thread is in `put`, `take` and `uv_cond_wait`, and a taker
that has found the queue not empty and not let go of the mutex finds it so when it pops. With
it each step maps to a put, a take or a stutter of the FIFO (`Refinement`, on either kind of
condition variable). `NoLost` adds `Enough`, the count of takers that will come and signals to
be made, on `CONDITION_VARIABLE`: a put brings a signal of its own, a signal a taker, a pop
takes one taker and one element; `Counted` is the cardinality argument. On the event fallback
the property is false with two takers, as `queue_lost_wakeup` shows, and true with one:
`NoLostAlone`, by `Awaits`, which says that while the taker is between letting go of the mutex and
`WaitForMultipleObjects` the event is set or each element has a thread that will signal, and while it
sleeps each element has. The two theorems say where the fallback goes wrong: nowhere but between two
takers on their way to sleep. `TypeCorrect` needs `CountInv`: `waiters_count` is the number of threads in
a wait of the fallback, so that it never goes below zero, and a taker inside `take` has one
to take.

**`Condition_proofs`.** The invariant has a part for each guard of `uv_once` and one for each
thread. `GuardInv`: at most one thread is making what the guard guards, nothing is built while
there is no event, and the event is set and `ran` written only when it is built, once.
`ThreadInv`: a thread is past a guard only then, and as long as the handle of a begun thread
is not written the thread is suspended and its `ThreadPrivate` is there. Steps inside the
condition variable leave both alone. Theorems: `Built` (`BuiltBeforeUse`), `HandleWritten`
(`HandleInTime`). A second induction, `WaitInv`, is about the condition variable: `MutexIsHeld` (the
mutex is held by the thread that is between a lock and an unlock, or in `uv_cond_wait` before its
release or after its relock), `WaitersAreCounted` (`waiters_count` is the number of threads between its
two changes, though both are made away from the mutex), `TypeCorrect`; and with them a third for
`BroadcastReaches`: as long as a broadcast is the only one, each thread that was blocked at it and
has not come through is at `WaitForMultipleObjects` with the event set and nobody about to reset it,
whatever other threads signal meanwhile (`LoneBroadcastReaches`). It holds
because the last of those the broadcast woke finds `waiters_count` at 1 only when none of them is left.

**`TcpServer_proofs`.** The invariant says that `reqs_pending` is the number of accept requests
that are not idle, that a listening server has all of them at work and a freed one none, that only a closing
server has its endgame queued, and, for each connection, by whom it is
held in each state (`Owned`). `AcceptReqsSafe` follows from the count: the server is freed only in
`Endgame`, when none is left. The lemmas on counting show that an accept request that comes or goes
changes the number by one; `ReleasedOwned` is the argument about the last `shared_ptr`. Theorems:
`TypeCorrect`, `RequestsSafe`, `Listening`, `Ownership`. Two more have inductions of their own.
`EndgameComes`: a closing server has its endgame queued exactly when its last accept request has come
to rest, never before and never not at all, and the endgame then finds the count at zero; the safety part of
`ServerFreed`. `AnnouncedOnce` (`EstablishedOnce`): a connection the kernel has established is in one place, once in the
backlog or in one accept request or with one `TcpConnection`, so that none is announced twice,
though requests are queued again and again; `Answered` adds that it is nowhere before the
kernel has answered its connect.

**`Stream_proofs`.** The invariant is `TypeOK /\ SlabInv /\ FailInv` and, for each connection,
`Good`. `SlabInv`: the slab is out only in a callback that reads from it; `FailInv`: a read request has
failed only if the peer has reset the connection or it is closing. `Good` has three parts. `Counts`
is `CountsExact`, the core: `reqs_pending` is the number of requests in the kernel and in the queue,
`activecnt` that of registered writes, the shutdown and reading. `Shape`: a closing stream neither
reads nor writes, and a shutdown is begun once and answered after the writes. `ReadInv`: the read
request is out once, and when it is out without `READ_PENDING`, nothing can queue it again
before it is processed. `Frame`, `Stay` and `Turn` carry that a step changes one stream
and where the loop thread goes. Theorems: `TypeCorrect`, `CountsRight`, `EndFromPeer`, and
`ReadReqInOnePlace` under the assumption `Stops \cap Refused = {}`, without which the run
`stream_read_twice` shows it false. `Refinement`: each step changes one stream, in the way
`StreamContract` allows, or none (`Change`, `SameElsewhere`). `ReadsStayArmed` is the safety part of
`DataIsRead`: a stream that reads has its read request in the kernel or in the queue, unless the loop thread
is just now at work on it, and then it is about to queue it again or to stop reading. There is a lemma
for each kind of step (`ArmedUser`, `ArmedEnvironment`, `ArmedRead`, `ArmedEnd`, `ArmedOther`).

**`Timers_proofs`.** The invariant says of the tree and the endgame list (`ListsInv`) that no timer is
twice in either, the tree has only open timers and the list just the closing ones; of the due
times (`DueInv`) that each is the time asked for or the last there is; and of the history
(`PassedInv`) that a timer which has been passed while due is still in the tree and due, and
precedes there, by due time or by start, each of those that passed it. `FiresOnTime` (`NeverEarly`)
follows from `DueInv`: the loop's time never reaches the last time of the width, and
`DueTimeIs` shows by the arithmetic of `%` that `get_clamped_due_time` gives no other time that is not
the sum. `FiresInTurn` (`NoOvertaking`) follows from the last, which holds as the loop's time
never goes back and a timer that restarts goes behind in `order`: `PutIn` and `TakeOut` are
that argument, `FirstIs` says what `RB_MIN` finds, and `RemoveSeq`, `Requeue` what restarts and
stops do to lists. `TypeCorrect` is the third theorem. Two more follow uv_run through its phases.
`PollsInTime` (`PollInTime`): while the poll is under way its timeout takes it past the due time of no
active timer, an overdue one or one that counts as such leaves it none, and it waits only when the loop is not
stopped and has no handle to close and no request to process; it rests on `NextTimeoutIs`, which computes
`uv__next_timeout` through its two conversions. It is the safety part of `TimersFire` and
`StopIsHeard`. `AwaitedTimerFires` (`AwaitedFires`): a poll with a timeout has nothing else to
process, so that nothing comes between its end and the timer it has waited for; by `AwaitedInv`
that timer stays due and the loop not stopped until `uv_process_timers` gets to it, in the same iteration or the next.

**Only model-checked.** Liveness, as liveness under fairness is beyond the prover. Of most of
these properties the part that is safety, what is owed to whom at each moment, is proved, and
only that the threads go on and the loop turns is left to TLC:

| Liveness | Its safety part, proved |
|---|---|
| `RefinesFairContract` of a handle | `Refinement`, `CloseOwed` |
| `LoopDrains` | `ActiveCount` |
| `EveryFunctorRuns` | `WakeupNotLost` |
| `RefinesFairContract` of a work | `Refinement`, `NoLostSignal`, `NoLostLoopWakeup`, `LocksInOrder` |
| `EveryTakeReturns` | `NoLost` |
| `RefinesFairContract` and `DataIsRead` of a stream | `Refinement`, `CountsRight`, `ReadsStayArmed` |
| `TimersFire`, `StopIsHeard` | `PollsInTime` |
| `ServerFreed` | `EndgameComes` |
| `LoopGoesOn`, `ConnectAnswered` | none |

Every other property of the passing runs is a theorem.

## 5. What is not modelled

- `Pipe`: the wrapper adds `bind` and `connect` to `Stream`, no sample uses it, and most of
  `pipe.c` is the passing of sockets between processes, for which the wrapper has no
  operation. Its reading, writing and endgame differ from tcp's in every request, so that
  it needs a model as long as `Stream`.
- `Thread::join`: it waits for the thread and then reads and writes the handle in the
  `ThreadPrivate` that the thread has deleted before it ended, so there is no order of steps in
  which a property could hold.
- `ThreadLocal` never creates its key, so there is nothing to say of it but that;
  `ScopeExit` is one destructor.
- Assigning `m_functor` in the call of that function itself (`Timer::start` or `stop` from its
  own callback): what the timer does next is modelled, the closure's lifetime is not.
- `uv_loop_close`; the prepare and check phases, read-write locks, semaphores and barriers, for
  which the wrapper has no class; `trylock`; a second `listen` on one server, sockets shared or
  imported, the emulated completion port, a changed number of accept requests.
- The HTTP parser is a vendored character automaton; the other libuv handles (udp, tty,
  fs, process, signal) are not used by the wrapper; the Unix backend is the other half
  of a choice made at compile time. They are most of the repository's lines.
- Failures of system calls at initialisation, which end the process in `uv_fatal_error`.

## 6. What could come next

1. The native broadcast, and runs for the two promises above that the code does not keep and no
   run shows: `core.c:356` and the assertion at `tcp.c:403`.
2. `Pipe`, as far as its endgame differs from tcp's.
3. An abstract specification of a timer queue that fires in order of due time and never early, and
   `Timers` shown to implement it.
