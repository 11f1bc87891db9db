# Verification of the porcelain crack monitor

TLA+ modules, TLC instances and TLAPS proofs for the backend in `backend/` and the browser front end
in `frontend/js/`: the acquisition pipeline, its queues, the alert worker, the database layer, the
REST handlers, the WebSocket and PROFINET servers, the compute modules with their thread pool, the
reconnecting WebSocket client and the page that shows it all. Paths below are relative to the repository;
`PROJECT.json` lists every run, theorem, hazard and the source lines behind every definition.

## 1. Inventory

The server (`backend/src/main.cpp`) is one process. Boost.Asio io threads receive
PROFINET frames, serve HTTP and write WebSocket messages; one thread per module of the
pipeline handles messages from a queue; AlertManager has one worker. Everything is
stored in PostgreSQL through a connection pool. The compute modules (FEM stress,
strength, Washburn, VR preview) are a library of their own, used by the tests, with a
thread pool each. The browser front end talks HTTP and WebSocket.

| Component | State | Operations | What makes it correct |
|---|---|---|---|
| Lock-free queue (`include/lockfree_queue.h`) | linked list, `head_`, `tail_` | `push` (many threads), `try_pop` (one) | FIFO, nothing lost or twice, no access to freed nodes, hidden messages appear |
| Module pipeline (`module_base.h`, `modules/*_module.h`, `main.cpp`) | a queue per edge, `running_`, a thread per module | `run_loop`, `process`, `start`, `stop`, wiring | branches behind a fan-out agree, results exact and after their cause, `stop` ends and seals the outputs |
| Alert manager (`alert_manager.cpp`) | `alert_queue_`, `running_`, condition variable | threshold checks, `enqueue_alert`, `process_alerts`, `start`, `stop` | every stored alert queued and delivered once, in order; no lost wake-up; `stop` ends |
| Database manager and pool (`database.cpp`, `database_extensions.cpp`) | stack of idle connections; the server's transactions and prepared statements | 27 functions over a few control skeletons | a connection is in one place, clean when pooled; calls atomic and truthful; calls return |
| WebSocket server (`websocket_server.cpp`) | sessions, a send queue each, strands | accept, `broadcast`, `do_send`, `on_write`, `stop` | messages in order, once, one write at a time; delivered |
| Thread pool (`include/modules/common/thread_pool.*`) | task queue, `active_tasks_`, `stop_`, two condition variables | `submit`, workers, `wait_all`, `shutdown` | every task runs once in order; waits are right and end |
| VR preview (`modules/vr_preview/vr_module.cpp`) | `status_`, `cancelled_`, a pool | `execute`, `execute_sync`, async and batch builds, `cancel`, `shutdown` | builds end, tasks do not outlive their input, one build at a time |
| PROFINET server and parser (`tcp_server.cpp`, `profinet_parser.cpp`) | a byte buffer per session | accept, framing, parsing, datagrams, acknowledge, `stop` | result independent of the split into reads; lengths and payloads read where they were written; the whole stream read |
| AlertWs handlers (`include/modules/alert_ws_module.h`) | `processed_` | `handle_laser`, `handle_vibration`, `handle_prediction`, `handle_dem` | cracks stored before their push, each tried whatever became of the others |
| HTTP server (`http_server.cpp`) | route table under `routes_mutex_` | accept, routing, handlers | readers see whole analyses, the latest is not older than another |
| FEM stress, strength, Washburn modules (`modules/*`) | `status_`, `cancelled_`, `worker_thread_` or a detached thread, a pool, models per thread | `initialize`, `execute`, `execute_sync`, batches, `cancel`, `shutdown` | no use of what is gone; nothing runs after `shutdown`; partial results are told; everything accepted is answered |
| IPC channel (`modules/common/ipc_channel.cpp`) | inbox, peer, callback | `send`, `receive`, `close` | each message once; `close` ends waits |
| Physical models (`algorithms/*`, `bayesian_optimization.h`) | none shared | numeric predictions | index ranges, classification, termination |
| Front end (`frontend/js/*`) | socket and timers, selected porcelain, charts | reconnect, heartbeat, selection, requests | no reconnect after `disconnect`; answers match the selection |
| Sensor simulator (`simulator/main.cpp`) | a socket, `connected_`, three timers | `connect`, `send_data`, reconnect, random disconnect | frames as the server reads them; one connection at a time, reconnects end |
| Configuration, logger, metrics, schema, containers, tests | | | not concurrent, or external |

How they interact. A frame arrives on an io thread, which parses it and pushes a
message into the first queue. `LaserFanOut` copies it to AlertWs and to the crack
router; the router turns frames with cracks into detections; `CrackFanOut` copies those
to the fatigue predictor and the DEM simulator; their results go to AlertWs too, as do
the vibration frames. AlertWs stores (database), checks thresholds (alert manager) and
broadcasts (WebSocket server). The alert worker broadcasts as well. HTTP handlers run
on io threads and use the database. A signal makes `main` stop the modules one after
the other and then the io threads.

What is hard: the two-step push of the queue; condition variables notified without
their mutex (alert manager, thread pool); stopping while frames arrive; exceptions
between acquiring and releasing a connection; transactions that are aborted, committed
without an answer or not looked at; handlers of a strand; builds that wait for tasks of
the pool they run on; `cancel` that clears the status of what goes on; timers and
answers in the browser that overtake each other.

## 2. Modules

| Module | Models | Composes / refines |
|---|---|---|
| `Channel` | abstract FIFO channel | |
| `LockFreeQueue` | `push`, `try_pop`, one access to shared memory per step | implements `Channel` |
| `AlertManager` | checks, database insert, queue, condition variable, `start`, `stop` | its queue implements `Channel` |
| `Pipeline` | module threads, wiring, frames, `start`, `stop` | its queues are the channel |
| `MonitorServer` | the AlertWs worker and the REST handlers on shared tables, routes_mutex_, a clock | leaves connections to `Database`, alerts to `AlertManager` |
| `ThreadPool` | workers, `submit`, `wait_all`, `shutdown` | its task queue implements `Channel` |
| `VrPreview` | builds, crack tasks, status | its pool is the channel of tasks of `ThreadPool` |
| `ComputeModule` | life cycle of the FEM stress, strength and Washburn modules | its pool is the channel of tasks of `ThreadPool` |
| `WsClient` | the browser's sockets, reconnect timers, heartbeat | |
| `PorcelainMonitorApp` | selections, displays, REST answers in any order, alert list | extends `WsClient` |
| `Profinet` | sensors' frames, sessions that cut the stream, the parser, datagrams | |
| `Database` | pool, functions, PostgreSQL transactions | |
| `WebSocketServer` | sessions, strands, writes | |
| `*_proofs` | theorems | extend the module they are about |
| `MC*` | constants of the instances | extend the module they instantiate |

In every module a variable with a trailing underscore, or the name of a member, is that
member; a variable called a history records what happened and guards nothing (the
bounds on behaviours excepted). Definitions marked `(mutant)` are wrong variants of the
definition below them: substituting one makes the run find the property named with it
in `PROJECT.json` violated, which shows that the property can fail. No
specification uses them.

**LockFreeQueue.** A producer's `push` is `Exchange` (the new node becomes `tail_`) and
`Link` (the old tail's `next`). The consumer's `try_pop` is `LoadHead`, `LoadNext`, the
compare-and-swap that succeeds or fails, `MoveOut` and `DeleteOld`. Nodes are numbered in
the order of the exchanges. `out = std::move(next->value)` (line 46) assigns an optional
to a message, which does not compile for the types used; its intent, the message of the
node, is modelled. `next` and `value` are read and written with the orderings the code
gives, which make the steps sequentially consistent for one consumer.

**AlertManager.** The checker is the AlertWs worker, which calls `check_*`: alerts are
stored one by one and enqueued under `queue_mutex_` (`InsertAlert`, `enqueue_alert`, `NotifyOne`). `InsertFails` is an insert
whose id does not come back, with the row in the table (`unanswered`) or not, and `CheckerSticks` a call of the database
that never returns. The worker of `process_alerts` is split where the
mutex matters: `TestRunning`, `Acquire`, `TestPredicate`, `Park`, `TakeAlert`, `Drained`, `Deliver`. `stop`
is `ClearRunning`, `NotifyAll`, `JoinWorker`, after the join of the AlertWs worker. An alert's data
is its position among the threshold violations of one message.

**Pipeline.** `Pop`, `Push` and `Throw` are the parts of `run_loop` and of `process`: a message
becomes the list `todo` of the pushes its handler makes, and an exception drops the rest.
AlertWs polls its four queues in order (`PollHit`, `PollMiss`); its handlers may wait for a connection for ever ("stuck"), and its `stop` includes that of the
alert manager and of the WebSocket server, in which, as at the join of the io threads, `main` may hang ("hung"). `Main` is `MonitorServer::start` and `stop`. `Preset` is
what the fan-outs' `input()` returns before the wiring. `main.cpp:96` and `:103` pass it on
although nobody has set it: it is null, and the first laser frame is pushed through a null
pointer (run `pipeline_banner`). The other pipeline runs give the fan-outs a queue, the wiring
that the banner at `main.cpp:198` describes, so that the rest can be examined. A push through a null
queue is undefined; its outcome in a build, an access near address 0, ends the process (`Crash`). A frame is [crack_detected, cracks]; results are
identified by frame and crack.

**ThreadPool.** One action per critical section or atomic access. A thread between its
predicate and its sleep is at `park` and holds the mutex. `stop_`, `active_tasks_` and the
notifications of `shutdown` and of finished tasks do not take it.

**VrPreview.** Several clients call `execute` and `execute_sync`, whose test of `status_` (`Check`) and set (`SetRunning`) are steps of their own;
`races` counts the sets over RUNNING by a call that another set came before, since its test. A task is <<build, crack>>, crack 0 being the build itself. `SubmitCrack`,
`Submitted` and `GetCrack` are the two loops of `build_preview_sync`. A mesh may throw.

**Database.** The functions follow the skeletons *one statement* and *transaction with one
statement per row*; sets such as `Batches` name the functions and `StopsAtError`, `ChecksCommit`,
`MayThrow` say how they differ. A statement is stored, refused, or stored with its answer lost.
In an aborted transaction PostgreSQL refuses everything but its end, and COMMIT reports
success. The batch inserts call `gmtime_r` with its arguments swapped, which does not compile; the
time stamp is data the model does not have.

**WebSocketServer.** `strand[s]` holds the handlers posted for session s. A handler is one step
because `mutex_` is used in handlers of one strand only, with one exception: `on_write` holds it
and calls `do_send`, so the io thread and the strand hang (`hung`). `Upgrade` chooses between
`handle_accept`, which serves the connections and performs no handshake, and
`handle_http_request`, which does and has no caller. `IoThreadLost` is a REST handler that never returns or that throws, `StopIo` the
`ioc_.stop()` right after the servers' `stop`; both leave `LOST` in `hung`. Without an io thread nothing posted runs any more.

**MonitorServer.** Each database call of a handler is a step; `Fails` covers a call that did nothing and one whose
answer was lost. `Take` to `CheckAndPush` are a turn of the polling loop and the handler it calls; a crack's code
`CRK-<porcelain>-<second>` is the pair of both, which the schema declares unique. `Request` is `route_request`, which
holds `routes_mutex_` until the handler returns or throws (`HUGE` is an id that `std::stoi` refuses). `ReadCracks` answers with the newest `Limit`
rows, which of those of one date is open; 100 in the code. Of the routes
those that make several calls on the same tables are there: `/cracks`, the stress analysis (`ReadCracks`, `Analyze`,
`InsertAnalysis`, `InsertGrid`) and the latest one (`ReadLatest`, `ReadGrid`). Points of cracks are not: see
"Not modelled". `tried` and `faulty` are histories.

**ComputeModule.** `kind` says whether an execution runs on `worker_thread_`, which `shutdown` joins, or on a detached
thread. Calls are split where another thread can see the difference (`Check`, `ClearCancelled`, `SetRunning`, `Start`;
`Cancel`, `CancelEnds`; `Shutdown`, `Join`, `ShutdownEnds`), a run is `Compute` or `Submit`, `Got`, `Decide`, `Store`,
`Answer`, and a chunk `Predict`s crack by crack until it looks at `cancelled_`. A task of a batch may `Throw`, in a Washburn batch all or none, since the
material that does it is shared (`OneMaterial`); `Rethrow` is `predict_batch` left at the first such future, with tasks outstanding.
`Join` waits for the pool and may find that its notify was missed (`StopMissed`). `misuse` remembers calls outside
`initialize` .. `shutdown`, a second `execute` on a joinable thread that was not joined, and a Washburn run in progress at
`shutdown`, and a Washburn batch left by an exception; undefined behaviour after such a use ends the process (`crash`).

**WsClient and PorcelainMonitorApp.** A handler of the browser is one step, up to its first `await`. `ws` is the socket of
`this.ws`, `old` counts earlier ones whose close event is still to come; the handlers of all of them work on the same
fields. The page's requests are a bag; `newest` says that no later request asked for the same display, and a display is
`fresh` if its last change was the answer of such a request. `changes` counts what the alert list is loaded again for (alerts pushed, status updates
answered, changes of the type filter), `alerts` the count at which the list shown was asked for. What the list holds is the server's: this
one answers 404 to every target with a query string (`http_server.cpp:473`) and has no `PUT /alerts/id/status`, so with it the page shows mock alerts and
mock cracks; the model has good and failed answers alike, for servers that route such targets.

**Profinet.** `DoRead`, `ParseFrame` (one round of the loop) and `ParseDone` are the handler of
`async_read_some`; a session's handlers never overlap, since each arms the next. Lengths are counted in
words of four bytes: the real frames have other lengths, but the code compares and adds lengths only, and
the words keep apart the three ideas of a frame there are: `try_parse_frames` takes 16 bytes of header and the
length from bytes 12 and 13, the parser 20 bytes and the length from bytes 18 and 19 (bytes 8 to 15 are the
timestamp), and `build_profinet_packet` writes 24. `TimeBits` are the values bytes 12 and 13 of a timestamp may
have. `ends` is a history: where, in the words read, each frame cut ended. The buffer may hold 4 MiB, far more than the
65551 bytes at which 16 bits of length complete a frame, so `frame_buf_.clear()` in `ParseDone` is never reached. Callbacks are the outcome "handed over"; what they push belongs to `Pipeline`. The simulator never
reads acknowledges, so that closing its socket resets the connection once one was sent.

## 3. Runs

| Run | Question | Bounds |
|---|---|---|
| `lockfree_queue` | memory safety, hidden messages, FIFO refinement, delivery | 2 producers, 2 payloads, 4 pushes: two pushes can be unlinked in either order while the consumer is at any step, and a node is freed while a third push goes on |
| `alert_manager` | conservation, order, no lost wake-up, alerts handled and `stop` returns unless the gap, a lost answer or a stuck call | 5 alerts from messages with none, one or several of them; any insert may fail, with or without its row, any call may stick, any sleep may end spuriously |
| `pipeline` | branches agree, results exact, outputs sealed, everything handled and `stop` completes unless stuck | 2 laser frames with up to two cracks, 1 vibration frame, 1 exception, stop at any time |
| `pipeline_banner` (violation) | does the laser branch of the banner exist? | 1 laser frame, the wiring of `wire_pipeline` |
| `thread_pool` | order, waits and shutdowns right, and ended unless the gap | 2 workers, 2 clients, 4 tasks: one worker sleeps while the other one is the last to finish |
| `database` | sound pool, atomicity, truth, grids saved unless left, calls return unless leaked | 2 callers, 1 connection, 2 calls of 2 rows, 2 refused statements, 1 lost link; one function of each skeleton |
| `websocket` | order, conservation, one write, delivery unless stuck | 2 clients, 2 io threads, 3 messages; any thread lost, `ioc_` stopped at any time after the server: one session hangs, or its thread is lost, while the other is served |
| `vr_preview` | outliving tasks, one build at a time plus one per cancel or race, ends unless all workers wait | 2 clients, 2 workers, 2 builds of 1 or 2 cracks of which one may throw, 1 cancel: as many builds as workers, the smallest deadlock; an old build may end while a newer one runs, and a call may overtake another one between its test and its set |
| `compute` | crashes only after misuse, `shutdown` final, partial results told, all answered unless crashed or hung | 2 clients, 2 workers, 2 runs of 3 cracks (chunks of 2 and 1) or batches of 2, 1 cancel, 2 lives: a second run meets each step of the first, a chunk breaks while the other one goes on, and a task of a batch throws while the other one is queued or running |
| `browser` | one connection unless overlap, displays settle unless overtaken, alert list loaded after what the page is told of unless missed, reconnects unless given up | 2 porcelains, 2 filters, 3 events from outside (the server's coming back is free), 1 failed request, 2 attempts: answers for one porcelain overtake those for the other; an alert is pushed while the socket is lost; a disconnect, a connect and a server that goes down leave an older socket open when the newer one gives up |
| `monitor` | pushed cracks are readable, the latest analysis is whole and current | 2 messages with up to 2 cracks, 3 requests on 2 io threads, 2 seconds, 1 failed call, answers of 1 row: two analyses of one porcelain and a reader; codes of one second clash; a crack falls out of the newest rows; symmetry of the threads |
| `profinet` | framing independent of reads, frames that fit decoded, stream read | 1 connection (sessions share nothing), 2 frames, 1 datagram, 2 readings with 0 and 1 items, the buffer limit of the code; time bits that end a frame at its header, at its true end, or inside the next |

The instances are the smallest in which two actors of each kind meet, the second of two
messages, rows or cracks fails, and something is left behind for a third call to find.
Bounds are constants named `Max...` and appear in guards of inputs only (calls, frames, failures),
never in the steps of the code. Runs with CHECK_DEADLOCK FALSE are of systems that end or wait for
input. The database has one connection, because what matters happens when a caller waits for a
connection, meets what another one left on it, or finds it gone; a second connection only delays it.
`monitor` has one porcelain: rows of two porcelains never clash, and a handler asks for one.

Each module defines a type invariant. It is proved where section 5 says so; the runs spend their time on the other
properties.

What the violation shows: the laser branch is not wired (finding `BannerPath`).

Other weaknesses appear as the exceptions of passing properties, whose names contain "Unless" and the like. In the model, nothing else
makes the property fail; what the model leaves out (section 6), and what a server answers to the page, it does not speak of:

* `HandlesAndStopsUnlessMissed`: `AlertManager::stop` clears `running_` and notifies without the mutex its worker
  waits with; when both fall between the predicate and the sleep, `stop` never returns. It does not either when the AlertWs thread waits
  for a database connection for ever. An alert whose row is stored and whose answer is lost is never queued (`StoredIsQueuedUnlessUnanswered`).
* `HandlesAllAndStopsUnlessStuck`: the same two keep `main`, or the polling thread, for ever. Frames are bounded, so it says nothing of the
  order of the four queues: with laser frames that never pause the code serves no other queue.
* `RunsAndReturnsUnlessMissed`: the thread pool's flag and counter are changed without the mutex, too, so
  `shutdown` and `wait_all` can be missed.
* `CallsReturnUnlessLeaked`: a payload that is not UTF-8 throws past the release of a connection.
* `GridIsSavedUnlessLeft`: a refused stress grid leaves a prepared statement of its name on the connection, and
  later grids on it fail.
* `PushedUnlessStuck`: a write error stops a session's sends; `on_write` waits for its own mutex; REST handlers may keep or end the io threads; and
  `ioc_` is stopped right after the server, with what was posted.
* `OneBuildPerCancelOrRace`: `cancel` clears the status of a build that goes on; `execute` tests the status and sets it two statements later.
* `EndsUnlessAllWait`: builds run on the workers whose tasks they wait for; when all workers do, none ends. `shutdown` may miss a worker of the pool.
* `NoCrashInLife`: a second `execute` of a FEM stress or strength module assigns over a joinable thread; a Washburn
  run in progress at `shutdown` goes on with a pool and models that are gone; a Washburn batch left by an exception leaves
  tasks whose arguments are gone. `AnsweredUnlessCrashedOrHung` adds that `shutdown` may hang as that of the pool.
* `PartialIsTold`: `execute_sync` stores COMPLETED without a look at `cancelled_`, and a later `execute` takes a
  cancellation back.
* `OneConnectionUnlessOverlap`: `disconnect` leaves a pending reconnect timer, and `connect` right after `disconnect`
  runs beside a closing socket, whose close event then clears the state of the new one.
* `SettledUnlessOvertaken`: nothing checks that an answer belongs to the porcelain still selected; when the answer of
  an older request comes last, the page shows it.
* `ListFollowsPushesUnlessMissed`: alerts pushed while the socket is down are not loaded on reconnection; and nothing keeps the answer of an
  earlier request for the list from coming last.
* `ReconnectsUnlessGivenUp`: after the last attempt the client stays as it is, even if a socket that an overlapping `connect` left behind is open.
* `LatestIsWholeAndCurrent`: an analysis knows the newest 100 cracks only, and two analyses of one second have no order.
* `PushedIsReadable`: codes have the resolution of a second, so of two cracks of a porcelain in one second the later one
  is refused; of what is stored, an answer holds the newest 100.

## 4. Fairness

Weak fairness of the steps of threads that the operating system schedules: workers, module loops,
io handlers (accepts and sessions included), `main` once a signal came. Arrivals (frames, calls, connections,
signals), resets and failures are never fair.
Spurious wake-ups are allowed and not fair. In the pipeline one strong fairness condition
stands for a push that another thread finishes in the end: the poll of the vibration queue, which
may miss a message behind an unfinished push, is not missed for ever; `LockFreeQueue` shows
that such a push is all that can hide a message (`HiddenOnlyByPendingLink`). The steps of the pipeline other than that are one
condition (`Progress`): each message takes finitely many, and inputs are finitely many, so no part of them can go on for ever
while another waits. The same argument gives `ComputeModule` one condition for the steps of all runs and one for those of
all tasks. In the browser its events and timers are fair (`ClientFairness`), the user, the server's ups and downs and the
answers of requests are not. `MonitorServer` states safety only. A database server
answers or its link breaks. An asynchronous write completes in one way or the other.

## 5. Proofs

TLAPS checks, for every number of threads, producers, alerts, requests and so on, every safety property that a run
checks, and the steps of every refinement. Each component has one inductive invariant, sometimes a second one on top:

* `Pipeline_proofs`, the list: `QueueTypeCorrect`, `MemorySafe`, `HiddenOnlyWhileLinking`, `QueueImplementsChannel`. The
  inductive invariant (`QueueInv`) says that nodes exist from the dummy to the tail, that every `next` is the
  following node or null exactly while its producer is about to link it, and where the consumer's
  local pointers are. The types alone are not inductive: that the node just linked still exists needs
  the order of `head_` and the unlinked nodes. The abstract queue is everything exchanged and not popped.
* `Pipeline_proofs`, the queues: `PipelineTypeCorrect`, `FanOutBranchesAgree`, `ResultsAreExact`, `StoppedOutputsSealed`.
  `FlowInv` explains every message by the frames: a queue keeps the order of the frames and holds only what was
  accepted (`QueuesOK`, `GenuineOK`); what a stage has pushed is what it popped, but for the message in process
  (`TodoOK`) and those whose `process` threw (`FailedOK`, `BranchOK`, `ResultsOK`). That a stopped module's outputs stay as they are needs
  only that `stop` joins the thread before it returns (`StopsOK`). Proved for both wirings.
* `Pipeline_proofs`, the frames of the sensors: `FramesAreThoseOfTheStream`, `FittingFramesAreDecoded`, `SensorTypeCorrect`.
  `SessionOK` says that a session has cut what it read at its ends, each the length of a frame after the one before (`Cut`),
  and that its buffer is the rest. `Laid` says that positions exist at which the words read and under way are the packets written,
  one behind another, and that the ends are those positions if all frames fit; because positions are asserted to exist and not computed from the
  stream, no recursion is needed. That a packet decodes to its reading is `PacketDecodes`.
* `MonitorServer_proofs`, alerts: `AlertsConserved`, `AlertsFollowDatabase`, `NeverSleepsOnWork`, `AlertsImplementChannel`. The
  invariant ties the queue to the histories of stored, unanswered, enqueued and delivered alerts and says which
  thread holds `queue_mutex_` and whether a notification is still to come.
* `MonitorServer_proofs`, cracks and analyses: `TypeCorrect`, `LatestIsRight`, `PushedCracksAreReadable`. The invariant says that a
  handler between two calls holds `routes_mutex_` (`Locked`), so that the others wait or answer; that analyses are stored in the order
  of their times and of what they know (`Ordered`); that points belong to the analysis of the request that stored them and are missing
  only while it is about to store them, or after a failure (`Whole`); and what a handler knows at each step (`JobOK`). Without the
  lock neither `Ordered` nor `Whole` survives two handlers, which the mutant of `Request` shows. What was pushed can be read because
  the worker stores before it pushes and a row once stored stays (`Readable`); no lock is needed for that. An answer of at most `Limit` rows
  has each row of the table or is full of rows no older (`Covers`, `Knows`), hence each row that an earlier answer had.
* `ThreadPool_proofs`: `TypeCorrect`, `ShutdownIsComplete`, `WaitAllIsComplete`, `PoolImplementsChannel`. The queue
  holds what was submitted and not taken, in order (`Fifo`); `active_tasks_` counts what is queued and what a worker runs or has run and not
  counted yet (`Counted`), so zero means done although it is an atomic of its own; a task that was taken is done or in the
  hands of a worker (`Tracked`); a worker left because of `stop_` with an empty queue, which stays empty (`Leaving`).
* `VrPreview_proofs`: `TypeCorrect`, `BuildsBoundedByCancels`, `OutlivingTasksOfFailedBuilds`. Every client may call; counting the builds in charge needs two
  more facts to be inductive: a build sits in the pool's queue once and only before it begins, so that no
  worker restarts one that has ended, and after `shutdown` the status is never RUNNING again. That only a failed build leaves
  tasks behind needs that a future is where its task is, and how far each build is with its futures (`TasksInv`).
* `ComputeModule_proofs`: `ComputeTypeCorrect`, `ModulesWithstandTheirUse`, `ShutdownLeavesNothing`, `PartialResultsAreTold`.
  `ComputeInv` joins what each part keeps for the others: a run its cracks, predicted, in a task or still to be submitted
  (`RunsOK`), so that a run that did not fail is complete unless its mark tells of a cancel; the pool the tasks of runs that wait
  for them, no crack in two (`PoolOK`); a client the run it waits for, and a run its client (`ClientsOK`, `Awaited`); the module its life
  (`ModuleOK`). For a module used within its life, no batch of it left by an exception, no crash is possible (`WithinOK`), for one used properly nothing outlives `shutdown`
  (`ProperOK`); both are inductive because uses only ever become worse (`MisuseGrows`). `ChunksParts` proves that
  rounding up twice in `predict_chunked` still divides the cracks: every crack is in one chunk and no chunk is empty.
* `WebSocketServer_proofs`: `TypeCorrect`, `WritesOneAtATime`, `NothingLostOrReordered`. Per session (`Sound`): at most one `on_write` is
  on the strand, and it or a write under way, never both, keeps its message at the front of the queue. `do_send` starts a write only when
  the queue was empty, which excludes both. On top of it (`Keeps`), every message posted to a session is received, in its queue or on its strand (`Complete`), once and
  in the order of the broadcasts (`InOrder`).
* `Database_proofs`: `TypeCorrect`, `PoolStaysSound`, `RowsAreAtomic`, `ResultsAreTrue`, `GridsAreSavedUnlessLeft`. The invariant says where every
  connection is (`Pool`), that a broken link has no transaction and only an open transaction keeps rows (`Server`), that calls differ and no row
  is older than its call (`Ids`), and, for each place in a function, what its transaction holds (`Good`): the rows before the next one while
  it is open, none of them in the tables before COMMIT, success only with an open transaction. That every error path passes
  ROLLBACK or a failed COMMIT before `release` is what makes `Pool` inductive. As long as no link broke and no grid was refused, no connection of the
  pool has a prepared statement left, and a caller has one only between its PREPARE and its DEALLOCATE (`GridInv`).
* `PorcelainMonitorApp_proofs`: `OneConnection`, `SettledDisplays`, `AlertListFollowsPushes`, `AppTypeCorrect`. As long as `connect` never overlapped,
  no earlier socket is alive, a timer is the only one and the socket is closed then, the heartbeat's handle is known exactly while the socket
  is open (`Single`); that a disconnected client stays so needs that `disconnect` used up the attempts. A display is good (`Good`) if its newest
  pending request asks for what is current and, fresh with none pending, it shows that (for the alert list: all changes so far, unless a push is on its way or missed); every change of the requests is one `Exchange`, whose
  effect on the newest ones is proved once (`ExchangeFacts`).

Assumptions are those named `...Assumption` in the modules; TLC evaluates them in every run. They say
only that workers and connections are finitely many, that there is a worker and a batch may have a row, that bounds are natural numbers and `NULL` and
the like no other values. `ProfinetAssumption` also keeps the widths of the code: two bytes of a timestamp, payloads whose bytes 16 bits count (the simulator's
have at most 22 kB), 32 bits of a sensor id and of the cycle counter, and a buffer limit above the longest frame.

Only model-checked: liveness, of which `PROJECT.json` lists a property for most components, the refinements' fairness, and the
violation; the provers have no fairness and no ENABLED.

## 6. Not modelled, and what is left

Not modelled:

* Floating point numerics of the physical models and solver adapters, index arithmetic inside their grids included: no state
  outlives a call and nothing runs concurrently. They are most of the code that is not vendored; the vendored
  `include/nlohmann/json.hpp` is two thirds of all lines. What the modules above leave is therefore little control.
* The external solver programs and `IpcChannel`: a program creates one end of a channel in its own process, no peer can reach
  it, and `is_connected()` stays false. `ipc_channel.cpp:47` waits for a message without looking at `close()`; only
  tests connect two ends.
* Simulator timers, viewers, panels of the page that show the result of their own button, configuration, logging, metrics,
  SQL texts, containers, `ModuleFactory`, `StressAnalysisModule`, which nobody creates.
* HTTP: routes with one query, static files, the life of a socket. `http_server.cpp:468` destroys the socket while the
  answer is being written, so that a client may get a part of it; routes outside `/api/` such as `/metrics` are never looked up.
* PROFINET acknowledges: the buffer of `tcp_server.cpp:81` is gone before the write; nothing reads them.

Seen while reading, and stated in the modules as what the code does:

* `websocket_server.cpp:138`: `handle_accept` reads from the stream without the WebSocket handshake and calls no `run()`, so
  no session it serves is ever open; README.md:210 promises real-time pushes. `PushedUnlessStuck` speaks of upgraded sessions.
* `tcp_server.cpp:29` takes the length from bytes 12 and 13, which `profinet_parser.cpp:83` and `simulator/main.cpp:348`
  use for the timestamp, and reads the payload four bytes before it is written, so no frame of the simulator gets through the TCP
  server unless its timestamp fits (`FittingFramesDecode`).
* `crack_points.point_3d` is a geometry (`init.sql:115`); `database.cpp:263` inserts a `numeric[]` and `:540` reads it with subscripts, so
  no point of a crack is ever stored or read.
* `app.js:62`: stress results of the porcelain selected before stay on display. `washburn_module.cpp:80`: remainder by zero before
  `initialize`, the crash "divide" of `ComputeModule`.
* Alerts queued at `stop` stay PENDING in the database and nothing delivers them later; messages in the pipeline's queues at `stop`
  are dropped; AlertWs may handle a prediction before its own laser frame, since each has a queue of its own.

Left to do: the simulator's four timers and its reconnects; a joint model of the AlertWs worker with
`WebSocketServer` and the browser.
