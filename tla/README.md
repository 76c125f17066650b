# A verification of Moduvex

TLA+ specifications of Moduvex, model-checked with TLC on small instances and, for the
results that matter most, proved with TLAPS for every value of the constants.

Every definition is translated from the Rust source. `PROJECT.json` lists, for each
definition, the lines it stands for ("map"), for each run the properties it checks, with a
variant of the code that breaks each of them ("mutants"), the hazards of the code with the
properties that watch them, and every component with what is modelled of it.

## 1. The system and its parts

Moduvex is a Rust application framework in ten crates. From the bottom up:

| Crate | Parts | Modules |
|---|---|---|
| `moduvex-runtime` | tasks, wakers, JoinHandles; both executors and their run queues; oneshot, mpsc, async mutex; timer wheel, sleep, interval; reactor, TCP, UDP; signals; task-locals | `Task`, `Executor`, `MultiExecutor`, `Queues`, `Oneshot`, `Mpsc`, `AsyncMutex`, `TimerWheel`, `Interval`, `Reactor`, `Net`, `Signal`, `TaskLocal` |
| `moduvex-core` | builder, registry, lifecycle engine, shutdown handle, dependency injection, errors | `Boot`, `Lifecycle` |
| `moduvex-config` | layered configuration | `Config` |
| `moduvex-observe` | logs, metrics, traces, health | `Tracing`, `Monitoring` |
| `moduvex-db` | pool, PostgreSQL driver, authentication, transactions, migrations, queries | `Pool`, `PgCodec`, `PgConnection`, `Migrate`, `Query` |
| `moduvex-http`, `moduvex-starter-web` | server, HTTP/1.1, HTTP/2, HPACK, TLS, WebSocket, routing, middleware, extractors | `Http`, `H1Connection`, `HttpServer`, `H2Codec`, `H2Connection`, `TlsStream`, `WsStream`, `Routing`, `Middleware`, `Extract` |
| `moduvex-macros`, `moduvex-starter-data`, `moduvex` | code generation and re-exports | none |

How they interact: a *future* runs on an executor; when it has to wait it leaves its
*waker* with a channel, a mutex, the timer wheel or the reactor, and returns Pending; the
waker's `schedule_task` puts the task's header back into the executor's queue. The
lifecycle engine is such a future (the root future of `block_on`), so are the pool's
`acquire`, its health monitor, every HTTP connection and every HTTP/2 request. A wake-up
lost at the bottom is a request that never ends at the top.

## 2. Modules

| Module | Models | State and steps |
|---|---|---|
| `Task` | `executor/task.rs`, `executor/waker.rs` | `TaskHeader`, the global queue and the map of owned Tasks; one action per atomic access. The executors extend it. |
| `Executor` | `Executor::block_on` | the loop's program counter: tick, poll the root, exit test, pop, load, cancel or run, poll, IDLE or COMPLETED, second exit test, park. |
| `MultiExecutor` | `run_worker_0`, `executor/worker.rs` | the same, once per worker, over one task map. |
| `Queues` | `executor/scheduler.rs`, `executor/work_stealing.rs` | rings with wrapping indices, stealing, `next_task`; driven as the unit tests drive them, since the executors only use `GlobalQueue`. |
| `TaskLocal` | `executor/task_local.rs` | the thread's slots, and the stack of polls that are under way. |
| `Oneshot`, `OneshotChannel` | `sync/oneshot.rs`, and what it promises | sender and receiver on two threads, one atomic access per step; the abstract channel. |
| `Mpsc`, `AsyncMutex` | `sync/mpsc.rs`, `sync/mutex.rs` | each critical section of the std Mutex is one step. |
| `TimerWheel` | `time/wheel.rs`, `time/sleep.rs` | where each sleep's entry is, `last_tick_ms`, the clock; `tick` is one action with its drain and its cascade. |
| `Interval` | `time/interval.rs` | the next deadline, the missed counter, a pending tick. |
| `Reactor`, `Net` | `reactor/*`, `net/*` | a reactor is a record of registrations and wakers, epoll or kqueue; operations on sockets try, arm and wait. |
| `Signal` | `signal/unix_signal.rs` | pipe, pending list, waiters, futures. |
| `Lifecycle` | `lifecycle/*.rs`, `app/builder.rs` | the engine's place in `run()`, which modules started and stopped, the shutdown flag and signals. |
| `Boot` | builder, `AllDepsOk`, `TypeMap`, `error/*`; in its last section, `topological_sort` | registered modules, singletons, the error on its way up with its contexts; Kahn's algorithm with its heap, one pop per step, over every graph in `RgInit`. |
| `Config` | `moduvex-config` | trees of values; a call of a loader, then calls of `scope`. |
| `Tracing`, `Monitoring` | `moduvex-observe`: spans and logs; metrics and health | threads with a program counter per atomic access, lock or await. |
| `Pool` | `pool/mod.rs`, `pool/health.rs`, `PoolTransactionBoundary` | idle, live, closed, waiters; a program counter per client and for the monitor. |
| `PgCodec` | the wire format | operators. Hashes are symbolic terms. |
| `PgConnection` | `parse_url`, `ScramClient`, the driver and `Transaction`; the backend (external) | two queues of messages; a client step reads one message. |
| `Migrate` | `migrate/*` | instances over one database, one statement per step. |
| `Query` | `query/*`, `pg_types.rs` | a builder under construction; in its last section, a row that goes out as parameters and comes back. |
| `Http`, `H1Connection` | data types, parser, chunks, encoder, `server/connection.rs` | a connection is a record; an action is the code between two awaits. |
| `HttpServer` | `server/mod.rs`, `server/listener.rs` | the accept loop, a task per connection, the drain; extends `H1Connection`. |
| `H2Codec`, `H2Connection` | `protocol/h2/*`, `server/h2_handler.rs` | frames as bytes; streams, windows, tables; the loop, a task per request, the client. |
| `TlsStream` | the handshake of `server/tls.rs` | bytes of the flights, the readiness wait, the adapter. |
| `WsStream` | `websocket/*` | buffered bytes, fragments, replies. |
| `Routing` | `routing/*` | a tree per method as a function on paths of nodes. |
| `Middleware` | `middleware/*`, `tracing_middleware.rs`, `trace/context.rs` | concurrent requests, each at a frame of the chain, going down or up. |
| `Extract` | `extract/*`, `websocket/handshake.rs`, `upgrade.rs`, `Extensions` | one request shared by the arguments of a handler. |

`*Proof` modules hold the theorems. The runs about one component check its module as it is;
`MCRuntime`, `MCDb`, `MCCore` and `MCHttp` give the instances of several components: a
behaviour runs one of them, which `part` names. Components with theorems are extended, so that
TLC evaluates their assumptions; of the others the properties are re-exported with
`part = ... =>` in front.
Operators whose names end in a capitalised suffix (`evict_Full`, `recv_value_NoWake`, ...)
are plausible bugs; nothing uses them except the mutants.

### Abstractions

* A future is the number `Need[t]` of events it waits for. A poll that has seen as many
  events is Ready; otherwise it registers its waker and is Pending.
* `Racing` are the tasks whose wakers are called by other threads, or by their own future
  during the poll. Wakers of other tasks are called by the executor's thread, outside the
  poll of their own task.
* `WorkerNotifier`, the self-pipes' bytes and `next_deadline` only shorten a park, which
  ends after 10 ms at the latest: a park is a step that always returns.
* Wakers in the channels and the mutex are pairs of a task and the call that registered
  them: `will_wake` distinguishes what the code distinguishes.
* `composed`, chosen in `Init`, says that futures are combined with others (select,
  timeout): they may be polled without a wake-up of their own and be dropped at any time.
* In `Pool` the async mutex is taken to grant `lock().await`; its own behaviour is
  `AsyncMutex`'s subject. Time is a deadline that may pass at any moment.
* Memory orderings are those of sequentially consistent interleavings. Reorderings between
  different atomics are not modelled.
* Text is a sequence of tokens: a character where a decoder looks at characters, a word
  where it does not. Limits and window sizes are constants, scaled down in the instances;
  the names and values of HPACK's static table are numbered.
* In `HttpServer` a connection that turns out to be HTTP/2 is one step, `h2_done`, and a
  TLS handshake may succeed or fail; `H2Connection` and `TlsStream` model them alone.
* External and modelled from their use: the kernel's epoll, kqueue and pipes, the
  PostgreSQL server, rustls, serde, the clients.

## 3. Runs

### Properties that hold

| Run | States | Parts and properties |
|---|---|---|
| `executor` | 149,735 | Wakers, aborts and joins on other threads. `ScheduledIsQueued`: a SCHEDULED task has exactly one header on its way to a poll, an IDLE one none, and a task being polled has its future. `EveryTaskFinishes` (liveness). |
| `multi` | 231,107 | Two workers. `ExclusiveTask`: a Task has one owner. `ShutdownStops` (liveness): the workers end once worker 0 has left. |
| `runtime` | 174,368 | oneshot: `NoLostWake`, `ImplementsChannel` (the refinement of `OneshotChannel`); mpsc: `SendResumes`; mutex: `QueuedLockResumes`; wheel: `ShortSleepFires`; interval: `TicksAccounted`; sockets: `WaiterArmed`; signals: `SignalsConserved`; run queues: `NoHeaderLost`; task-locals: `InnermostScope`. |
| `db` | 429,076 | pool: `Accounting`, `AcquireReturns`; a session: `MutualAuth`, `ResultsExact`; migrations: `AppliedOnce`; text of statements: `InlinedExact`; rows: `RowReturnsParam`. |
| `core` | 1,266,833 | lifecycle: `StopsReverse`, `ShutdownEnds`; sort: `SortsDependencyFirst`; builder and errors: `BootWired`; configuration: `ScopedIsHighest`; spans: `TraceIsRoot`; histograms: `MetricsExact`; logs: `LogLinesExact`; health: `AggregateIsWorst`. |
| `http` | 438,010 | HTTP/1.1: `RequestsExact`, `AnswersExact`, `ShutdownEnds`; HTTP/2: `HeadersExact`, `SentWithinGrant`, `GoawayEnds`; WebSocket: `MessagesExact`; extractors: `ExtractsExact`; middleware: `LayersApplied`; router: `RouteBest`. |

The comment above each property says in words what it states. Several compare the code's
algorithm with a definition of a different shape: `RouteBest` ranks all registered routes
instead of walking a tree, `ScopedIsHighest` asks each layer in turn instead of merging,
`SortsDependencyFirst` uses the transitive closure, `HeadersExact` the client's own copy
of the table, `ExtractsExact` and `InlinedExact` an encoder or a reader of the other side.

Some properties name a case in which the code does not keep the promise, and hold in every
other case:

* `EveryTaskFinishes` leaves out a `Racing` task that lost a wake: it met the task RUNNING
  and was dropped.
* `ExclusiveTask` does not say that a header dropped by a worker while another one holds
  the Task is queued again, nor that worker 0 waits for that worker before it leaves.
* `SendResumes` and `QueuedLockResumes` leave out a future that is `Forgotten`: it was
  woken, found the place or the lock taken, and was not queued again. Both are about
  futures awaited to the end.
* `WaiterArmed` is about the last task to arm an fd, and about a connect in progress: on
  epoll a waiter of the other direction replaces the interest of the first, and a second
  `accept` its waker.
* `SignalsConserved` counts a signal that stays in the pipe as conserved: after the
  one-shot registration fired, nothing re-arms it on epoll.
* `TicksAccounted` holds until a poll is more than `MaxAdvance` (`u32::MAX`) periods late.
* `Accounting` counts as `lost` the slots of connections that were dropped instead of
  released, which is what a failed BEGIN, COMMIT or ROLLBACK does.
* `MutualAuth` is about names and passwords in ASCII: `percent_decode` makes a character of
  each byte, so that a letter of two bytes becomes two letters.
* `ResultsExact` leaves out connections with a response left half read, by a protocol
  error or a dropped future, and after `close_prepared`: its CloseComplete is a message the
  codec does not know, so the call fails with the ReadyForQuery unread.
* `AppliedOnce` is about distinct versions; of two files with one version the second fails
  at first and is skipped when run again. Without a lock an instance may report an error.
* `InlinedExact` leaves out what `Mangled` names: a statement with bytes outside ASCII (each
  becomes a character), a float that is not finite (a bare word to the server), and a negative
  number right behind a minus sign (a comment). That a missing parameter is an error is about
  numbers within `usize`; beyond it the code panics. The instance has no `E''` strings, no
  dollar quoting, and no literal with no space before a placeholder. `RowReturnsParam`
  leaves out `Bytes`.
* `ShutdownEnds` of `Lifecycle` is about a signal, or a `request()` before
  `wait_for_shutdown` parks: on Unix `request()` wakes nobody. `StopsReverse` is about the
  errors of `on_start` and `on_stop`; a hook's error, or the drain timeout, may leave
  modules running.
* `MetricsExact` relates a scrape to the calls around it; the buckets of one scrape need not
  be cumulative, since it reads them one by one.
* `RequestsExact`: `read_chunked_body` clears the buffer, so the clients of the instance
  send nothing behind a chunked request before its answer, and no chunk's data contains
  the terminator `0\r\n\r\n`.
* `ShutdownEnds` of `HttpServer` leaves out connections that are `Held`: in the reading of a
  body, in the error answer to one (`send_error` writes without a timeout), in a WebSocket or
  in HTTP/2. Every other read and write has a timeout.
* `GoawayEnds` is about a client that goes on reading (`ClientReads`): `write_all` of
  `connection_io.rs` has no timeout, so one that stops reading holds the connection. It says
  that the connection ends, not when a response is sent.
* `HeadersExact` leaves out connections on which a HEADERS or CONTINUATION frame was answered
  with an error: the frame is not decoded, or its fragment ended inside a field, and the
  tables differ from then on. Repeated fields keep the last value (`HeaderMap::insert`), an
  unknown method becomes GET, a path that is not UTF-8 becomes `/`, and a trailing `?` is
  lost; the method and the authority are not compared.
* `SentWithinGrant` allows on an open stream the excess that a lowered initial window size
  should have taken away: `process_frame` changes no open stream.
* `MessagesExact` says nothing of what follows a frame whose length plus its header exceeds
  `usize`: the code panics there.
* `RouteBest` compares the names of the captured values only where no earlier route named a
  shared hole otherwise (`Renamed`): the node keeps its first name.
* `LayersApplied` is about requests that get a response: a `traceparent` with a character of
  several bytes across the end of a slice makes the layer panic.
* `ExtractsExact` leaves out what an earlier argument took: the body goes to the first
  that asks, `Path` takes the parameters, and `Request` everything. Pairs with an empty
  key are dropped. The names of a part are compared when its head is `Readable`: the header
  in one of the two casings the code looks for and no `;` between quotes.
* `AcquireReturns` takes the async mutex to grant its lock; `LockResumes` shows that it may
  not. `SortsDependencyFirst` is about `topological_sort`, which `run()` does not call.

### Disagreements between the code and what it says of itself

Each of these runs checks one sentence of a comment or test against the model and finds a
behaviour of the code that contradicts it. `PROJECT.json` quotes the sentence.

| Run | What happens |
|---|---|
| `executor_lost_wake` | a wake during the poll of its task is dropped (`NoLostWake`) |
| `mutex_stuck` | a woken waiter that finds the lock taken is not queued again (`LockResumes`) |
| `timer_cascade` | a tick past a deadline leaves the timer in the wheel (`TickFiresExpired`) |
| `tls_handshake` | every wait for readability consumes a byte of the handshake (`HandshakeSound`) |
| `lifecycle_hook` | a failing hook returns with started modules not stopped (`HookErrorRollsBack`) |
| `db_commit` | `commit()` of an aborted transaction reports success (`CommitCommits`) |

`db_commit` has a server that sends no BackendKeyData, the only kind `connect` accepts.
Others, visible in the models, have no run of their own:

* `task.rs:270-271` says that an aborted task is dropped on its next scheduling pass; an
  idle one has none, and `block_on` waits for it.
* `interval.rs:3-5` says that the missed counter goes down again; nothing decreases it.
* `server/mod.rs:184-186` says that connections still alive after the drain are dropped;
  their tasks live on, and `block_on` waits for them.
* `codec.rs:251` refuses BackendKeyData, which PostgreSQL sends after authentication: `connect`
  fails with a server that does. CloseComplete is refused too, so `close_prepared`
  (`prepared.rs:259`) always fails.
* `pool/mod.rs` percent-decodes userinfo "to support special characters in passwords"; one
  outside ASCII is decoded to other characters, and a `%` right before one panics.
* `param.rs:158` says "safe: only digits" of a `parse().unwrap()`; a number beyond `usize`
  panics. The literals of `param.rs:37-43` are not always literals, and bytes outside ASCII do
  not survive (`Mangled`).
* `h2/connection.rs:281` says that `send_response` "Respects `max_frame_size` and flow-control
  windows"; a lowered initial window size is not applied to open streams. Header fragments are
  decoded one by one (`connection.rs:187`, `:208`), which fails inside a field.
* `websocket/frame.rs:188-193`: the end of a frame overflows for the greatest length and the
  stream panics, by the addition in a debug build and by the slice in a release build.
* `radix.rs:137-138`: a parameter node keeps the name the first route gave it, and later
  routes' handlers find their value under that name.
* `tracing_middleware.rs:61` slices the header at byte positions, which panics inside a
  character; `from_str_radix` accepts a plus sign as a hex digit.
* `multipart.rs:144` splits Content-Disposition at every `;`, between quotes too;
  `multipart.rs:214-219` knows two casings of the header's name.
* `frame.rs` says that unknown HTTP/2 frames are ignored; they become DATA.
* `WsStream::recv` is documented to answer a Ping and go on waiting; it returns the Ping.
* `builder.rs:92-93` allows modules in any order; `AllDepsOk` accepts only dependencies
  registered earlier. `module/mod.rs:79` says dependency order; modules start by priority.
* `moduvex-config/src/lib.rs:93` says "if missing, just use defaults"; any error of a file,
  a syntax error too, leaves the defaults.
* `observe/src/lib.rs:84-85`: a second `init_logging` is not without effect, it changes
  the global level.

### Bounds

* Executors: two tasks are the least with which one can run while another is woken, joined
  or aborted; two workers the least that compete for a header. In `executor` the racing and
  abortable task waits for one event and the other for two: two events let a task be
  woken again while it is SCHEDULED.
* mpsc: `channel(0)`, which the code turns into capacity 1, with two tasks and three
  sends each fills the buffer, overtakes a waiter and cancels a future at the limit. Mutex:
  three lockers, two locks each: a holder, a waiter and a newcomer.
* Wheel: the code's 6 levels of 64 slots, two sleeps over instants at the edges of a
  revolution of levels 0 and 1, in half milliseconds, so that rounding occurs. Interval:
  period 3, up to 25 units, so that polls are late by none, one and several periods, on
  both sides of `MaxAdvance`.
* Sockets: two threads and two fds with tokens that are reused. Two tasks make three calls
  (`FewCalls`), enough to arm both directions of an fd and close it; or, in the part `reuse`,
  one task makes seven (`MaxCalls`), enough to close an fd, reuse it and drop it late. Threads
  and tasks that nothing tells apart act in order (`FirstActs`). Signals: two tasks and
  two signals. Queues: rings of 2 with indices modulo 4, four headers, two workers, so
  that every ring is full, empty and wrapped. Task-locals: three tasks, nested scopes.
* Pool: two clients and the monitor with `max_size` 1, so that somebody waits, and one
  sweep. Session: three calls without a password, one after md5 or SCRAM, with one
  unexpected notice; servers with and without BackendKeyData, with the right password, a
  wrong one and none; URLs with encoded characters of one and two bytes. Migrations: two
  instances, three runs. Query: two conditions with quotes and dollars in values and
  literals, negative and not finite numbers. Integers have scaled-down limits (`I4Max` 1,
  `I8Max` 2, `UsizeMax` 99), so that values above 32 bits, above 64 bits and above `usize` exist.
* Registry: three modules with every set of dependencies, two priorities, so that ties and
  inversions occur. Lifecycle: the same with at most one dependency each. Boot: three
  modules, two of which may provide one type. Spans: three; the clock may stand still
  between two. Histogram: one bound, observations on it and above. Health: two changes
  between the start and the end of an aggregation.
* HTTP/1.1: heads of a few tokens against a buffer of 30, bodies against a limit of 2,
  three requests per connection, two clients and one place. HTTP/2: two streams with one
  allowed at a time, windows of 2, at most 3, frames of 1, three frames of the client; SETTINGS that
  raise and lower the initial window, and ones that are refused; blocks cut at any byte; the
  dynamic table holds 36 octets, exactly the size of one entry, and can be made too small
  for it. WebSocket: scripts of three frames, or of one and a frame cut short that
  announces four octets or as many as `LenBytes` (8 in the code, 3 here) can say; a limit of
  3, read at any cut. Router: three routes, with literals, parameters and wildcards at each place, and a nested router.
  Middleware: three chains of four or five layers and the empty one, two requests,
  sequence numbers that wrap.

### Fairness

* Executors: threads keep running (weak fairness of the loop). Events happen
  (`root_event`, `remote_event`; strong fairness of `local_event`, since the executor's
  thread is in user code only now and then). A thread inside a Mutex leaves it.
* Channels and mutex: the executor polls a new future and one whose task was woken; it
  need not poll any other. Senders and guards are dropped in the end: without
  this nothing could be promised.
* Pool: timers fire, opening a connection ends, connections are released. Nobody has to
  call `close()` or `acquire()`.
* Lifecycle: hooks and `on_start` return and the drain timer fires. An `on_stop` may
  hang, except in the rollback after a failed start, where the code has no timeout.
* HTTP server: the accept loop is polled (weak fairness of its own steps, not of clients that
  connect), and so is each connection's task where the code bounds the step by a timer or
  does not wait. Where it waits without a timer there is none: reads of bodies that have not
  arrived, the error answer to a body, WebSocket and HTTP/2 frames. `FairTask` says this of
  the task's own steps; what the client does gets no fairness.
* HTTP/2: weak fairness of `OwnStep`, the steps of the connection's loop that neither read
  nor write. Requests may hang, and the client need not send or grant anything. A write ends
  only if the client reads: `GoawayEnds` assumes that itself (`ClientReads`).

Deadlock is checked for the executors. Elsewhere (`CHECK_DEADLOCK FALSE`) the system may
stop: all values are sent, all locks released, the engine has returned, the client has gone.

## 4. Theorems

All are proved for every value of the constants that satisfies the named assumptions
(`TaskAssumption`, `RacingAssumption`, `WorkersAssumption`, `NoValueAssumption`,
`MpscAssumption`, `MutexAssumption`, `IntervalAssumption`, `WheelAssumption`,
`SignalAssumption`, `ScopeAssumption`, `QueuesAssumption`, `PoolAssumption`,
`MigrateAssumption`, `LifecycleAssumption`, `RegistryAssumption`, `NetAssumption`,
`BootAssumption`, `HealthAssumption`), which say no more than the types of the constants,
what the constructors and `PoolConfig::validate` demand, that the wheel has at least two
levels, that ring indices go around at a multiple of the capacity and a batch fits a ring,
that the files of a directory have different names, and that no health check is both sync
and async. Each inductive invariant was checked by TLC on a small instance before it was
proved.

* **Single-threaded executor** (`ExecutorProof`). `ScheduledIsQueued` counts headers; it is
  not inductive, because it does not say what the loop knows of the task in its hands.
  `QueueInv` adds that: a header is in one place (the queue, a push under way, the loop's
  hand) exactly while its task is SCHEDULED or was when an abort overtook it (`HeaderInv`);
  a task being polled is RUNNING and nobody else changes that (`HandInv`); a task owns its
  future while it is in the map, up to its last poll (`BodyInv`). It gives
  `ExecutorScheduledIsQueued`, `ExecutorCompletedIsFinal` and `ExecutorLocalWakes`: a task
  that only its own thread wakes, between polls, loses no wake. The run `executor_lost_wake`
  shows that the last one needs its restriction.
* **Multi-threaded executor** (`MultiExecutorProof`). The state of a header says little
  (aborts and wakes change it at any time), so the invariant `OwnInv` is about
  ownership: a Task is in the map, or in the hands of one worker that knows how far
  it got, or gone: finished, its future freed and its joiner told. One lemma for each
  kind of step (a worker moves on, takes a Task, works on it, lets go of it; a wake or
  abort marks it; a joiner moves; spawn) shows that it is kept. It gives
  `MultiExclusiveTask` (the SAFETY comments of `poll_task` and `cancel`),
  `MultiFutureOwned`, `MultiJoinNotMissed` and `MultiCompletedIsFinal`.
* **Oneshot** (`RuntimeProof`). Inductive invariant `OneshotIInv`: types; `OneshotValue`, who
  owns the value at each point of `send`; `OneshotWake`, that a receiver between its
  registration and its return has its waker stored or was woken. From it follow
  `OneshotNoPanic`, `OneshotNoLostWake` and `OneshotRefinement`: each atomic access is
  a step of the abstract channel or a stutter.
* **mpsc** (`RuntimeProof`). `ChannelInv` with `WaitInv` (a pending receiver has stored its
  waker or was woken) and `ClosedInv`; from it `MpscRecvNotMissed` and
  `MpscWithinCapacity`.
* **Async mutex** (`RuntimeProof`). `MutexGuardExclusive`: exclusion does not depend
  on the wait queue at all.
* **Interval** (`RuntimeProof`). `IntervalTicksAccounted`, for every period and every
  lateness. `TicksAccounted` is inductive with the types and the fact that the deadline to
  come lies past the last one returned.
* **Signals** (`RuntimeProof`). `SignalsConserved` counts; that a future is not left asleep while
  a signal of its kind is pending needs to know where each future is registered. `SigIInv` has
  both: `SigCounted`, every signal raised is in the pipe, in the pending list or has resolved one
  future; `SigWaits`, a future that waits and is not scheduled is among the waiters of its kind,
  and no signal of that kind is pending. Lemmas say how `Append`, concatenation and
  `Vec::remove` change the number of occurrences in a list, which is a cardinality of a set of
  positions, not a fold. It gives `SignalConserved`, for any tasks and both back ends.
* **Timer wheel** (`SchedulerProof`). `ShortSleepFires` compares a tick with the tick before it.
  `WheelIInv`: an entry in level 0 is less than a revolution from `last_tick_ms` and in the slot
  of its millisecond (`Level0Inv`), and only a pending Sleep has an entry (`EntryInv`). The lemma
  `Revolution` (within one revolution the quotients of two instants are equal or follow one
  another) then shows that the slots a tick visits contain the slot of every due entry, whether
  or not they wrap. It gives `WheelShortSleepFires`, for any number of slots, levels and sleepers
  and any delay of the tick. The run `timer_cascade` shows that it does not extend to the
  other levels.
* **Run queues** (`SchedulerProof`). `QIInv` adds to `NoHeaderLost` that the two indices of every
  ring are below the index width and at most a capacity apart. The slots between them are
  pairwise different (`SlotsDiffer`) even when the indices go around, so a push overwrites
  nothing and a drain reads what was pushed: one lemma for each operation of a ring says what
  it does to the sequence of headers in it (`RingPush`, `RingPop`, `RingDrain`, `RingPushAll`).
  Three lemmas then speak of sequences only: nothing is lost when a header is put into a queue,
  taken from one to be run, or moved from one to another (`LosslessPut`,
  `LosslessTake`, `LosslessMove`). It gives `QueuesNoHeaderLost`, for every capacity, batch,
  index width and number of workers.
* **Task-locals** (`RuntimeProof`). `InnermostScope` is about the slots; to
  keep it when a poll ends, `ScopeIInv` says the same of what every poll on the stack has saved
  (`SavedInv`): the value of the innermost poll outside it that had set its key. It gives
  `ScopeInnermost`, for any tasks, scopes and nesting.
* **Lifecycle** (`CoreProof`). `LifecycleIInv` says which modules are started, stopped and
  still to be stopped at each point of `run()`: the started ones are a prefix of the boot
  order (`StartInv`), the stopped ones the end of that prefix in reverse, and a rollback
  still holds the rest (`StopInv`). It gives `LifecycleStopsReverse`,
  `LifecycleNoStartAfterStop` and `LifecycleStartsByPriority`, for any number of modules and
  whatever fails.
* **Registry** (`CoreProof`). `RegistryIInv`: `in_degree` counts the dependencies that are not
  placed yet, the heap holds the modules for which that is 0, and what is placed came after
  its dependencies. That a sort which ends early has met a cycle would need an induction;
  instead the invariant carries that no module of a *knot* (a set each member of which depends
  on a member) is ever placed. A cycle is a knot, and so is what is left when the heap is empty.
  `RegistrySortsDependencyFirst` is the correctness of `topological_sort` for every graph.
* **Pool** (`DbProof`). `Accounting` is inductive together with the types and
  `CheckInv` (only a running sweep holds connections outside the pool). The lemmas
  count the processes at a label before and after one of them moves. `live` never
  saturates at 0, and `PoolAtMostMaxSize` follows.
* **Migrations** (`DbProof`). `AppliedOnce` needs to know why two instances cannot both
  commit a version, and why none commits out of order. `RowInv`: a row that is inserted
  and not committed is in no other transaction and not in the table. `LoopInv`: an instance at
  its i-th file finds all files before it recorded. `TableInv`: the table has no gap, with a
  version it has every lower one on disk; so a higher version cannot have been committed
  before the one about to be, or that one would be there too. It gives `MigrateAppliedOnce`
  and `MigrateCommitsLowest` (what a step may do to the tracking table).
* **Sockets** (`NetProof`). `WaiterArmed` speaks of registrations; what could break it is an fd
  or a token that points at somebody else's. `NetIInv` excludes that first: each open socket has
  a token of its own (`SockInv`), what a reactor has registered is an open fd under a token no
  other socket has (`RegInv`), and an `IoSource` dropped on another thread is known neither by
  its fd nor by its token when its deregistration comes late (`DropInv`). Then, per task
  (`TaskOK`): the last to arm a direction is armed in some thread's reactor, with its waker, or
  is about to be polled, and so is a connect in progress, whose fd no other task uses; on epoll
  the one-shot mask is its direction alone, so no other event spends it. One lemma for each operation of a reactor, for both back ends, says which fds and
  tokens it leaves alone. `NetWaiterArmed` follows, for any fds, tasks and threads.
* **Builder and errors** (`AppProof`). `BootWired` is about the end of a boot; `BdIInv` follows
  it there. `OrderInv`: after the compile-time check and the sort a dependency comes before the
  module that requires it, unless it has a lower rank (here the proof uses that a sorted list
  keeps modules of one rank in the order of registration). `MapInv`: the `TypeMap` holds, of each
  type, the value of the last module started. `FoundInv`: what each hook that has run found.
  `ErrorInv`: the error on its way up is of the entry that is starting and has, under any
  contexts, the answers of the one that was raised. It gives `BootIsWired`.
* **Health** (`AppProof`). `HlIInv`: the lists hold each check once (`ListsInv`); an aggregation
  has the result of every check that was registered when it began, or still awaits it, and none
  twice, whatever is registered meanwhile (`CallInv`). That `aggregate_results`
  yields the worst status uses that a set of indices has a least and a greatest element. It gives `HealthAggregated`.

Only model-checked, and why:

* liveness under fairness and anything with ENABLED, for which the prover has no rule;
* what recursive definitions compute for every input, which needs an induction over data
  that the installed provers cannot do, and whose RECURSIVE operators they do not accept:
  `RouteBest`, `HeadersExact`, `SentWithinGrant`, `RequestsExact`, `AnswersExact`,
  `MessagesExact`, `ExtractsExact`, `ScopedIsHighest`, `MutualAuth`, `ResultsExact`,
  `InlinedExact`, `RowReturnsParam`, `TraceIsRoot`, `LogLinesExact`;
* `MetricsExact`, which sums observations with a fold over sequences of any length, whose only
  definition is by recursion;
* `LayersApplied`: a layer rewrites the header list with `HeaderMap::insert`, which filters
  a sequence, and what a filtered sequence holds is again an induction.

## 5. Not modelled

* **Windows' IOCP** (`iocp.rs`): an alternative to epoll and kqueue with completions instead
  of readiness; only the Unix back ends are modelled.
* **TLS after the handshake**: by `HandshakeSound` the code does not get there. What
  `HttpServer` does with an accepted TLS connection over-approximates it.
* **Hash functions** (SHA-1, SHA-256, MD5, HMAC, base64): symbolic; what is modelled is who
  knows which term. Cryptography is out of TLC's reach.
* **Macros, re-exports** (`moduvex-macros`, `moduvex-starter-data`, the umbrella crate):
  code generation and names, without state.
* **Code nothing calls**: `Phase::can_transition_to` and `transition`,
  `GlobalQueue::steal_batch`, the executors' local queues (empty, since nothing pushes).
* **Setters and accessors**: `PoolConfig`, the server's and the runtime's builders,
  `RequestContext`, isolation levels, `Validate`.
* **Text without a property**: error messages, log timestamps and the pretty layout, media
  types, socket addresses; the file system behind `StaticFiles` is a set of names.
* **Wake-up bytes** of the self-pipes and `next_deadline`: they only shorten a park.
* **A `Sleep` that moves between worker threads**: timer ids count per thread; nothing says
  what such a Sleep may rely on. `Drop for Executor` is left out as well.
* **Composition across crates**: a connection task of `HttpServer` on `MultiExecutor` with
  `Net` below it is the product of state spaces that are each near the limit of a run;
  the layers meet at the contracts the abstractions of section 2 state.
