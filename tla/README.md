# manapi-http in TLA+

This directory holds a formal model of manapi-http, a C++ HTTP server library
(HTTP/1.1 over TCP/TLS, HTTP/3 over QUIC): TLA+ modules translated from the
source, TLC runs that check them on small instances, and TLAPS proofs, for every
instance, of the safety properties of the pools, the server's life cycle, the
QUIC side, the router, and the reading and answering of an HTTP/1.1 request. Source paths are relative to the
repository root; `PROJECT.json` maps every definition to its lines.

Contents: 1 the system; 2 the modules and how they correspond to the code;
3 the plan; 4 the runs; 5 fairness; 6 the proofs; 7 disagreements between code
and comments, and what the properties except; 8 what is not modelled.

## 1. The system

### Components, state, operations

| component (source) | state | operations | what must hold |
|---|---|---|---|
| **task pool** `src/ManapiThreadPool.cpp`, joined by `site::tasks_pool_stop` | a deque per level, `is_stop`, a condition variable, `stopped`, N worker threads | `append_task`, `getTask`, `run`, `task_doit` with `to_retry`, `stop`, `all_tasks_stopped` | a task is executed by one thread and not lost; order by level and age; the join means quiet |
| **timer pool** `src/ManapiTimerPool.cpp` | map id -> (instant, callback), `index`, mutex `mx` | `append_timer`, `remove_timer`, the scanning loop, `stop` | not early, not twice, none skipped or lost when ids wrap, no erasure under the iterator |
| **server lifecycle** `src/ManapiHttp.cpp`, `http_pool::{run,doit,stop}`, the `site` operations | `m_running`, `m_initing`, `stopping`, pools, promise, event-loop thread | `pool`, `stop`, `stop_pool`, `doit` | one run at a time; nothing is used after it was destroyed; the future means down; a restart serves |
| **QUIC connections** `http_pool::new_connection_quic`, `http_task::{udp_loop_event,quic_flush_egress,quic_timeout_cb,quic_delete_conn_io}` | `quic_map_conns`, per connection a mutex, buffered datagrams, the gate `is_responsing`, a timer id | a datagram, a loop's run, a timer's callback, `stop` | one loop per connection, no datagram stays behind a shut gate, a loop's connection is not destroyed, the timer chain does not break |
| **QUIC streams and requests** `http_task::{udp_loop_event,udp_doit}`, `quic_set_to_delete` | per request three timed mutexes `quic_m_{read,write,worker}`, `quic_v_{body,read}`, the buffer mode | headers and data events, writable streams; `mask_read`, `mask_write`, `mask_write_file`, the request's end | loop and handler never use the library together; no wake-up is lost; every wait ends |
| **router** `src/ManapiSite.cpp` | the tree of `http_uri_part` | `build_uri_part`, `set_handler`, `get_handler` | the answer depends on the patterns, not on insertion or hash order |
| **request execution and response** `http_task::{handle_request,send_response,send_file}`, `src/ManapiHttpResponse.cpp` | response type, headers, ranges, replacers | layers, handler, error page; partial content; replacing keys while sending | the announced length is what is sent; one head per request |
| **request body** `src/ManapiHttpRequest.cpp` | `body_index`, `body_part`, `body_left`, multipart state | `_read_body`, form readers, `set_file` | the result does not depend on how the body is cut into blocks |
| **HTTP/1.1 connection** `http_task::tcp_doit` | a socket, a buffer | read head, parse, handle, close | a short read is an error and not data |
| **JSON mask** `src/ManapiJsonMask.cpp` | the resolved mask | `initial_resolve_information`, `recursive_valid` | accepts what the mask describes |
| **JSON value, JSON builder** `src/ManapiJson.cpp`, `src/ManapiJsonBuilder.cpp` | a variant; a parser's stack | conversions; incremental parsing | the parse does not depend on the pieces |
| **fetch, task API** `src/ManapiFetch.cpp`, `src/ManapiApi.cpp` | a curl handle; a reference to the task pool | `doit`; `await`, `async` | headers are handled when known |
| **compressed-file cache** `src/ManapiSite.cpp` | a JSON map, without a lock | look up, insert, erase, save | entries are as fresh as their files |
| **support** configuration, `safe_unordered_map`, `before_delete`, strings, files, hashes, big integers, base64, compression | - | pure, or I/O | - |

### How they interact

* The event-loop thread (libev) accepts sockets and datagrams. A socket becomes
  a task of level 1; a datagram is stored in its connection and, if the gate
  `is_responsing` was open, a loop task of level 2 is appended.
* A loop task decodes the connection's datagrams and appends one task per
  request. It then hands the connection to the request's handler and waits,
  and takes it back when the handler waits for data or for capacity.
* The timer pool's own loop is a task that occupies a worker. Its callbacks are
  tasks; those of QUIC connections flush or destroy a connection and append the
  next timer.
* A request's handler runs in a worker and may call anything, `stop` included.
* `pool()` spawns a stop thread, which closes the timer pool and the task pool,
  waits for the workers, stops the event loop, resets and fulfils the future.

### What is hard

Shared state without one common lock (the flag and the queues of the task pool;
the map's lock, the connection's mutex and the gate); a condition variable
notified without its mutex; mutexes locked by one thread and unlocked by
another; timed waits that race with late answers; raw pointers kept across
waits; teardown while work is in flight; ids that wrap. `PROJECT.json` lists
each of these under "hazards" with its line and the properties about it.

## 2. The modules

```
TaskPool  (abstract: what a task pool promises)
   ^ implemented by            ^ used by
ThreadPool                  TimerPool          HttpServer
                            (loop + callbacks  (pool, stop, stop_pool,
                             on a TaskPool)     event-loop thread)

QuicConn   (map, gate, loop, timers, stop)   one key, connections in succession
QuicStream (one connection: loop and handlers, three mutexes per request)

Router     (set_handler in any order, then get_handler, both step by step)

JsonMask  <-- JsonBuilder  <-- JsonBody
(resolve,     (operator<<,     (a mask, then a body under it,
 valid)        get)             and what both should say)

TcpRequest  <-- RequestBody  --+
(read_next,     (text, form,   +-- HttpExchange
 the head)       set_file)     |   (one request and its answer)
                HttpResponse --+
                (handle_request, send_response, send_file)
```

`ThreadPoolProofs`, `TimerPoolProofs`, `HttpServerProofs`, `QuicConnProofs`,
`QuicStreamProofs`, `RouterProofs` and `HttpExchangeProofs` hold the theorems
about the modules they are named after (section 6). `Folding` has those about
folds; `HttpExchangeProofs` instantiates it once for each operator that is
folded.

A step is what the code does between two points where another thread can act on
what it touches: a region under a mutex is one step where nothing outside the
region can be seen half done, and the mutex then has no variable. Histories
(`fate`, `point`, `began`, `touched`, `late`, `in_use`, `refused`, `cut`) are marked as such and
guard nothing. An operator introduced as "Mutant of X" is a plausible wrong X;
it is not used by the specification but to test that a property can fail.

**ThreadPool.** Workers, clients (the callers of `append_task`) and the threads
`append_task` detaches for a level that has no queue. `Append_task` is the test
of `is_stop` before the mutex, `Push` the insertion under it (no second test),
`Notify` the `notify_one`; `Check`, `GetTask`, `Park`, `Doit` are the four parts
of the loop in `run`. The window between `GetTask` (queues empty) and `Park` is
real: `cv.wait` has no predicate and its mutex is taken by no notifier. A
detached thread that outlives the call it refers to is `Dangle`. `Stop`,
`NotifyAll`, `Join` are `tasks_pool_stop`. A task in `Lasting` ends only once
the server is being stopped: the timer pool's loop is one, and keeps its worker
from everything else until then.

**TaskPool.** The promise: executed at most once per submission, by at most
`Width` workers at once, refused only when closed, quiet when joined. It does
not promise execution, because the code does not keep that promise (section 7).
`ThreadPool!ImplementsTaskPool` is the refinement, with the mapping of `state`
given there; it is checked by TLC and proved. `TimerPool` uses `TaskPool` in place of the detailed pool.

**TimerPool.** One member of `Timers` per call of `append_timer`; ids are
0..MaxId-1 and wrap as `ULLONG_MAX` does. The scan visits the ids in `todo` in
any order, which is what an `unordered_map` gives, and holds `mx` throughout:
other operations wait for `phase # "scan"`.

**HttpServer.** Callers, handlers, the stop thread (`st`), the event-loop
thread (`lp`); the task pool is open or closed. The return of the future at the
end of `pool()` is a step of its own (`Pool_get`), so that a stop thread may
reset the promise first. A worker that leaves a closed pool may have missed its
`notify_all` (`"missed"`, the window of ThreadPool), and the join then waits for
it. Where the code follows a null
pointer the run ends with `crashed`. The detached loop thread may reach
`m_initing` after the stop thread, as in the code.

**QuicConn.** One key of `quic_map_conns`, the connection objects that bear it
in order of creation, the reader, workers that execute loop or callback tasks,
timers, and the stop of the server: the task pool is closed (`Stop_pool`, after
which it refuses tasks, `refused`), its workers leave, then `http_pool::stop`
runs. `quic_flush_egress` is two steps, and either of its early exits: the
library makes no packet, or the socket does not take one, which is an exception
(`failed`). The gate is turned on under the map's lock
(`Pass`) and off by the loop (`Loop_exit`). An erased object keeps its contents
for those who still point to it, and `in_use` records that this happened to a
connection with a loop due or running; properties about what loops do are
stated while `in_use` is empty, because what follows is undefined behaviour.

**QuicStream.** One connection. The loop's program counter names the line it is
at; handlers have their own. The three mutexes are binary semaphores, which is
what the build gives them (they are unlocked by other threads than lock them).
Any timed wait may expire at any time; `late` records it. Of a file's parts the
model keeps how many are left, what the stream's capacity allows and what
framing takes of it. quiche is external: it announces data once and again only
after a receive found none. A text is sent in parts as well, each of which
may have to ask for capacity. The closed pool refuses a request and destroys it
while the loop goes on to wait for it; headers that cannot be read, and headers
that come once more for a request still registered (trailers), end the loop by
an exception. `touched` records the loop's use of a request after
the pool destroyed it.

**Router.** `tree` maps every node, named by the keys on its way from the root,
to its pages and parameter titles. `Set_handler` begins a call, `Build_uri_part`
enters one part of the pattern (`Enter`: the node is made if it is not there),
and `Add_page` sets the page, or throws after the nodes were made. `titles` is
`regexes_title`, the titles that no part has taken yet; `cur` is the node the
call is at. One call runs at a time and before any request: `set_handler` takes
no lock and is meant for the time before the server starts. `Get_handler` starts a walk, each
iteration of its loop is a step (`Walk_literal`, `Walk_regex`), and it ends in
`Not_found`, `Arrive` or the early return of a regex part whose titles are not
as many as its groups. `Inserted` and `Insert` keep what is there, as
`std::map::insert` does. A pattern is a sequence of parts; a regular expression
is a model value with the groups it captures of each segment. `Way`,
`Enclosing` and `Named` read the registrations without the tree, for reference.

**JsonMask, JsonBuilder, JsonBody.** `JsonMask` resolves the text of a mask
token by token (one action per branch of `initial_resolve_information`) and
defines `Valid`, the code's `recursive_valid`. `JsonBuilder` is the parser:
`frames` are the builders from the root to the innermost, `Feed` is
`operator<<` with one piece and runs the member function of the state over its
characters, `Get` is `get`. A limit of a size is a signed number and is compared
with an unsigned one by `valid` (`AsSize`, modulo `SizeValues`), and not by the
builder, as in the code. `JsonBody` composes the two: a mask is resolved,
registered bare or under a key of an object, and a body is read under it; or
there is no mask and texts are read in pieces. For reference it renders values
(`Render`) and writes down what an expression of masks means (`Written`,
`Satisfies`). A character is a token; words and quoted strings of a mask are
one token; numbers are kept in tenths.

**TcpRequest, RequestBody.** A block arrives (`Arrives`) with any of `Sizes`
bytes, the client may have closed, or the read fails. `ParseHead` runs the
parser of the head over the buffer as the code does, to the end of the buffer
and not of what was read into it; what nobody sent is the byte `"?"`, so that a
use of it is seen. `StartBody` computes what of the last block is body.
`RequestBody` keeps the locals of the readers in `local` and makes a step of
each iteration that can end at the end of a block: `*_block` takes the next
block, `Param_boundary`, `Param_line`, `Param_byte` are the three branches of
`multipart_read_param`. Sizes are modulo `Width`, so that the stored -1 is the
large number it is in the code; reading behind the buffer is the stage
`"undefined"`. What the reader of params keeps of a value or a line from one
block to the next is `local.extra`, and has the room of `buff_extra`
(`Extra_size`: `ExtraMin`, 4096 in the code, or four blocks). Copying more is
undefined in the code, which does not look; the exchange ends there, in
the stage `"overflow"` (`Param_overflow`).

**HttpResponse.** `Handle` is `handle_request`: layers in order until one stops
or throws, then handler or static file, or the error page by `Send_error`.
`Send_response` decides mode, length and range (`PlanOf`, `Refused`),
`Send_head` writes the head, of which less than all may be taken without the
code noticing (`cut`), `Send_text` and `Send_file` write blocks that may
be taken in part. With replacers the file has its keys found first (`Found`)
and is then sent block by block: `Keys_top` reads, `Keys_replace` puts a value
into the block and moves the rest (`Shrunk`) or goes on over several blocks
(`Grown_block`), `Keys_write` writes.

**HttpExchange** composes the three: `Receive`, then `Read` while the handler
reads its body, `Answer`, `Respond`. Its constant `Exchanges` gives for every
exchange what is sent, what is registered, and what should come of it; the last
of these is looked at by properties alone.

## 3. The plan

Done, in this order: ThreadPool and TaskPool, TimerPool, HttpServer,
QuicStream, QuicConn, ThreadPoolProofs; Router; JsonMask, JsonBuilder and
JsonBody; TcpRequest, RequestBody, HttpResponse and HttpExchange; the theorems
about timers, server, QUIC, the order of the task pool and its refinement, the
router, and the blocks and the answer of an HTTP/1.1 exchange. Next:

1. Theorems about what multipart forms and files with keys contain: that the
   params of a form are those between its boundaries, and that a replaced file is
   the file with its keys replaced (section 6, only model-checked).
2. Composition: QuicConn's loop step refined by QuicStream; HttpServer on
   TaskPool with the timer loop; Router's answer as the page of HttpExchange.
3. Responses by proxy, and the compressed-file cache as a sequential component.

Modules to be proved about use no RECURSIVE operator: recursion over sequences
is done with folds and recursive functions, or one step at a time. JsonMask,
JsonBuilder and JsonBody are not such modules (values are trees); all others are.

## 4. The runs

Each run answers one question; its properties are commented where they are
defined.

| run | instance | shows |
|---|---|---|
| `pool_safety` | 2 workers, 2 clients, 1 detached thread, 3 tasks of levels 0, 1, 2 with 2 queues, 1 retry | `OneOwner`: no task in two places; `NoneForgotten`: no accepted task vanishes; `AllStoppedQuiescent`: the join means quiet |
| `pool_order` | 2 workers, 1 client, 3 tasks in 2 queues, one of which lasts until the stop, 1 retry | `TakenInOrder`, the refinement `ImplementsTaskPool`, `BusyWorkerServes` (one worker outside the window and the lasting task takes the first of what is queued), `StopReachesOthers` |
| `pool_stranded` | 2 workers, 2 tasks | finding: `NoStrandedTask` is violated |
| `timer_pool` | 3 timers, ids 0..2, durations 0 and 2, clock to 2, 2 workers | `PendingOnce`, `NeverEarly`, `IteratorValid`, `LapComplete`, `LostOnlyByRemoval`; `HandedOver` and `StopQuiets` |
| `server_lifecycle` | 2 callers, 2 handlers, 3 runs, workers that may miss the close | `OneRun`, `NoUseAfterClear`, `FutureMeansDown`, `StopWaits`, `StopHeard` |
| `quic_stream` | 2 streams, bodies of up to 2 parts, texts and files of 1 | `ReadersAlone`, `NoLostWakeup`, `DataReachesReader` |
| `quic_stream_progress` | 1 stream, bodies of up to 3 parts, texts and files of up to 2 | `LoopComesBack`, `RequestsEnd` |
| `quic_stream_outlive` | 1 stream | finding: `TaskOutlivesLoop` is violated |
| `quic_conn` | 2 workers, 2 connections, 3 datagrams, 2 timers, flushes that fail, the stop of the server | `OneLoop`, `LoopKeepsConn`, `GateOpens`, `TimerKept`, `WorkersReturn` |
| `router` | every sequence of up to 3 of 16 registrations, then one of 14 requests | `HandlerByPattern`, `LayersEnclose`, `ParamsNamed` |
| `json` | 300 mask texts, each with 60 bodies given whole; without a mask the texts of 97 documents, with and without blanks, cut anywhere, and texts of up to 4 tokens made of 42 pieces | `EveryCut`, `BodyMasked`, `ValueMasked`, `KeysMasked` |
| `http1` | 499 exchanges: 14 requests, 17 answers, the rest files with keys to replace | `BodyAsSent`: texts, params and files are what the client sent; `BodyAsOne`: no cut of the body into blocks makes a difference to where a reader stands, and `buff_extra` is outgrown by long params alone; `AnswerInFull`: all of the body and, if no head was cut, one head that announced its length; `AnswerAsAnnounced`: the content is what the page makes of it |

### Bounds and why they are enough

* `MaxRetries` 1: a retried task passes every hand-over twice. Three tasks on
  two queues give order within and across levels; the level without a queue
  gives the detached thread. Two workers are the least with which one can be in
  the window while the other works.
* `MaxId` 3 with three timers: index wraps while ids are pending, and all ids
  can be taken. Durations 0 and 2 give timers due at once and due after one lap
  or more, on either side of `now`; the clock's bound ends registrations, not
  the loop.
* `MaxRuns` 3: a third start follows a complete second cycle; two callers start
  and stop against each other; two handlers can both be in `stop`.
* Two streams make the loop wait for one request while another is ready; a body
  of two or three parts is read partly, waited for and read again.
* Two connections: the second is made under the key while someone may still
  point to the first. Three datagrams: one that creates, one that is stored
  during a loop and one after it. Two timers: an appended one and its
  successor.
* `MaxRoutes` 3: three registrations are the least with which a part made by
  one, entered by a second, is left wrong for a third. The set of patterns has
  literals and regex parts beside each other at both depths, a regex with two
  groups, and all four kinds of page.
* `MaxText` 4 bounds texts made of arbitrary pieces; the texts of documents are
  longer, with nesting of two levels, and are cut in all ways. The masks have
  one or two alternatives of every type, with every comparison, arrays and
  `none`.
* `Sizes` {1, 6, 7, 11, 13}: the sizes of reads, so that a boundary, an escape,
  a pair and the head are cut at many places over several reads, and buffers of
  6 to 16 bytes are filled or not. `Taken` {0, 1, 3}: what a write of a file
  with keys may take when it does not take all. `MaxHeader` 14 is reached by
  one request and wraps in `Width` 256; `PartialMin` 4 has files on either
  side; `MaxPlain` 64 is larger than every body, so that refusal is not met.
  Files with keys have one or two, values shorter and longer than the key by one and by
  more, blocks of 7 and 8 bytes, and text that looks like a key. `ExtraMin` 20
  is less than four blocks of every buffer, as 4096 is than four of the default
  1350; values of 49 and 50 bytes and a head line of 53, with buffers of 14,
  outgrow `buff_extra` in each of the three places that copy.
* `SizeValues` 1024 is larger than every size of the instance; masks with the
  limits `>=0` and `=0` are among them, which become -1 and so 1023.

Type invariants are stated in the concurrent modules and proved for every
instance (section 6), as is `JoinedIsQuiet` of the timer pool; no run repeats
them, since a type says little that the properties do not. The router's is the
first part of its inductive invariant, and what is known of the types of an
exchange is in `ReadOK` and `AnswerOK` of `HttpExchangeProofs`. JSON values are
built by typed constructors and have none.

Deadlock is not checked: the programs may stop (the bounds, a server that was
stopped, clients that do nothing). What must not stop is a liveness property.

Symmetry is used in `pool_safety` and `quic_stream`, which check invariants
and action properties that treat the permuted values alike, and in no run with
a liveness property.

## 5. Fairness

* ThreadPool: weak fairness per thread. Threads are scheduled by the operating
  system; a task ends, a lasting one once the server is being stopped. Not
  assumed: clients append, stop is called, spurious wake-ups.
* TimerPool: time passes, a loop that runs proceeds, callbacks end, a stop that
  began closes the pool. Not assumed: that the pool takes a task, since
  ThreadPool may strand one, nor that its join ends, since a worker may miss the
  `notify_all`.
* HttpServer: weak fairness per thread; strong fairness on the end of a handler
  that may also enter `stop`, which it does not do for ever. Not assumed: that
  anything wakes a worker that missed the `notify_all`.
* QuicStream: the loop's thread and each handler's worker proceed and timed
  waits expire. No packet is promised, and no start of a request that is queued when the
  task pool is closed.
* QuicConn: weak fairness per worker, and strong fairness on taking the
  connection's mutex: a `std::mutex` that is freed again and again is taken in
  the end by each who waits. No datagram, timer or stop is promised.

The sequential modules (Router, JsonBody, HttpExchange) state no fairness and
no liveness. Where a loop of `send_file` would read or write outside its file or
its block the model goes no further (phase `"undefined"`), which `AnswerInFull`
and `AnswerAsAnnounced` exclude.

## 6. What is proved

The theorems hold for every value of the constants that satisfies the module's
assumption, which TLC evaluates for the constants of each run:

| assumption | says |
|---|---|
| `PoolAssumption` | finitely many workers, at least one; the kinds of thread are disjoint; at least one queue; levels are natural numbers |
| `TimerAssumption` | the loop is not a timer; the pool has a worker; durations and the clock's bound are natural numbers; at least two ids |
| `ServerAssumption` | callers are not handlers; the number of runs is bounded |
| `ConnAssumption` | connections are numbered from 1; the stop thread is not a worker; datagrams and timers are bounded |
| `LastingAssumption` | the lasting tasks are tasks |
| `StreamAssumption` | bodies, texts and files have a natural number of parts |
| `RequestAssumption` | sizes of reads and the limit of a head are natural numbers, a `size_t` has at least one value, and `None` is no number |
| `BodyAssumption` | the room of `buff_extra` is a natural number, the boundary a sequence of bytes |
| `PagesAssumption` | texts and files of pages are sequences of bytes, also when packed; layers and handlers make finitely many calls |
| `ExchangesAssumption` | an exchange has a sequence of bytes, a page, one of the readers, ranges of numbers or -1, and a block buffer smaller than the largest `size_t` (which is the -1 of a read that failed) |
| `RouterAssumption` | a part is a regular expression exactly if it has titles, and then captures a group for each (`build_uri_part` escapes the text around them); regular expressions and segments are told apart, as by the two maps of a part |

The bounds (`MaxRetries`, `MaxRuns`, `MaxPackets`, `MaxTimers`, `MaxBody`,
`MaxText`, `MaxFile`, `MaxId`, `MaxClock`, `MaxRoutes`, `Sizes`, `Taken`) are constants as
well, so the theorems hold for each of their values. No invariant below is inductive alone. Each
strengthening was checked by TLC on the module's instance before it was proved. The proofs go
action by action and name which conjunct an action can disturb.

### Task pool: ThreadPoolProofs

| theorem | states |
|---|---|
| `TypeCorrect`, `TasksHaveOneOwner`, `TasksAreNotForgotten`, `StoppedMeansQuiescent` | `TypeOK`, `OneOwner`, `NoneForgotten`, `AllStoppedQuiescent` always hold |
| `TasksAreNotOvertaken` | every step satisfies `TakenInOrder` |
| `ThreadsImplementThePool` | `LevelsHaveQueues` and `Spec` imply `ImplementsTaskPool` |

The invariants are proved in three layers, each used by the next.

* **Typed**: `TypeOK` and `Hands`: at which program points a thread holds a
  task, and that a detached thread still at its first line refers to a client
  of its own that has not returned. Without it `Doit` could write `fate` at
  `Null`, and two detached threads could move the same task.
* **Ownership**: `OneOwner`, `NoneForgotten`, and that whatever is held or
  queued is live. A client may take a fresh task because fresh tasks are
  nowhere; `Push` makes no second place because the pusher gives the task up.
* **Counted**: `stopped` is the number of workers at `"exited"`, which by
  `Hands` hold nothing. With cardinalities of finite sets,
  `stopped >= Cardinality(Workers)` then means all of them.

Order: a step takes at most one task out of the queues, the head of the highest
non-empty level (`TakesTheHead`); whatever it precedes stays behind it.

The refinement adds two conjuncts: `NoDetached` (no detached thread exists) and
`Stopping` (the stop thread past its first line has set `is_stop`, and has
joined only after `All_tasks_stopped`). Initial states map to
initial states; each action maps to a step of `TaskPool` or a stutter.
`LevelsHaveQueues`, every level used is smaller than the number of queues, is a
hypothesis: `append_task` runs a task without a queue on a detached thread, in
excess of the width that `TaskPool` promises. It holds of the server, which
passes the levels 0, 1 and 2 to a pool that has three queues by default
(`ManapiThreadPool.hpp:19`).

### Timer pool: TimerPoolProofs

| theorem | states |
|---|---|
| `TypeCorrect` | `TypeOK` always holds |
| `OneIdPerTimer` | `PendingOnce` |
| `CallbacksWait` | `NeverEarly` |
| `ScanIsSafe` | `IteratorValid` |
| `NobodyMissed` | `LapComplete` |
| `QuietAfterJoin` | `JoinedIsQuiet` |
| `NoTimerLost` | every step satisfies `LostOnlyByRemoval` |

The invariant adds to these: **Registered**, the map holds registered timers,
and no other task than a registered one has been appended (so a new
timer is nowhere yet when its id wraps onto a free place); **LoopTask**, the
loop is in its body exactly while its task runs, and a joined pool runs nothing
(so no scan follows a join); **Scan**, the time a scan read lies between its
beginning and the present (so what it left was not due when it began, and what
it handed over is due now).

### Server life cycle: HttpServerProofs

| theorem | states |
|---|---|
| `TypeCorrect` | `TypeOK` always holds |
| `RunsDoNotOverlap` | `OneRun` |
| `PoolOutlivesUsers` | `NoUseAfterClear` |
| `FutureIsTrue` | `FutureMeansDown` |
| `StopIsSynchronous` | every step satisfies `StopWaits` |

The life of a run is a relay of `m_running`, held from `pool()` to the last line
of the stop thread, first by the caller and then by that thread. **Relay** says
that without it there is no stop thread and no `http_pool`, that who has just
taken it finds nothing of the run before, and that past the join no worker is
left and past `pools.clear()` no `http_pool`. `StopWaits` follows: a
caller leaves `stop(true)` when `m_running` is free, there is then no
`http_pool`, and by `NoUseAfterClear` nobody who would use one.

### QUIC connections: QuicConnProofs

| theorem | states |
|---|---|
| `TypeCorrect` | `TypeOK` always holds |
| `ShutGateIsManned` | `GateOpens` |
| `LoopsUseTheEntry` | `LoopKeepsConn` |
| `OneLoopAtATime` | `OneLoop` |
| `FlushedIsWoken` | `TimerKept` |

* **Typed**: pointers lead to connections that were made, and a datagram that
  was counted is stored in at most one connection and appends at most one task.
* **Gate**: while no connection was erased in use, what is due, running or about
  to be appended exists once, for the connection in the map, whose gate is shut
  (`Single`). Three properties need each other here: the gate admits a loop
  only if none is there, a loop opens the gate only if it is the only one, and
  both are about the same object only if that object is the entry.
* `GateOpens` excepts the time after the closed task pool has refused a task, and
  `TimerKept` that too and a connection whose last flush failed.
* **Kept**: timer ids are not shared between connections, so that a flush
  removes no timer but its own, and the worker that is about to append the next
  timer does so for the entry (`Woken`).

### QUIC streams and requests: QuicStreamProofs

| theorem | states |
|---|---|
| `TypeCorrect` | `TypeOK` always holds |
| `ReaderHasTheConnection` | `ReadersAlone` |
| `WakeupIsNotLost` | `NoLostWakeup` |
| `DroppedDataIsUnwanted` | every step satisfies `DataReachesReader` |

The loop and a request's handler take turns through mutexes that one locks and
the other unlocks. **Turns** says for every place of the handler whose turn it
is, which flags are set and whether the library owes an announcement, for each
stream that is not in `late`: on which no wait has timed out. The code gives up
on turns there and so do the properties. **BodyLeft** relates what the handler
still expects to what the peer and the library hold.

### Router: RouterProofs

| theorem | states |
|---|---|
| `TreeIsWhatWasRegistered` | nodes, pages and titles of the tree are functions of the calls made so far, while one is half done too (`Nodes`, `PagesKept`, `TitlesKept`) |
| `HandlerIsByPattern` | `HandlerByPattern` |
| `LayersAlwaysEnclose` | `LayersEnclose` |
| `ParametersAreNamed` | `ParamsNamed` |

* **TreeInv**: the statement of the first theorem with types, and **Waiting**:
  titles are left over in a call exactly if its last regular expression was
  there before. This decides at the next new one whether it is `Spoiled`, and no
  later call changes that.
* **Walked**: a request is at a node of the way its path prefers, and every way
  that could be the end of the walk goes through that node. When it is
  answered there is one such way, and `Way`, stated with CHOOSE, is the node
  it is at. Uniqueness is carried along the
  walk, one step at a time.
* **Served**: what has been collected is what is registered above the node. The
  list of enclosing pages grows by at most one element for one node more
  (`EnclosingNext`, `RankedNext`), which is what a step of the walk appends.

### HTTP/1.1 exchange: HttpExchangeProofs, Folding

| theorem | states |
|---|---|
| `BodyIsReadAsOne` | `BodyAsOne` |
| `AnswerIsInFull` | `AnswerInFull` |
| `FoldEmpty`, `FoldAppend`, `FoldConcat`, `FoldKeeps` (lemmas) | what `FoldLeft` computes, element by element and over two sequences one after the other; what each element keeps holds at the end |

The first invariant follows the bytes, for any that a client may send (they need
not be a request):

* **HeadRead**: after one read the buffer begins with the first bytes and the
  stream is the rest of them. The parser of the head may go over bytes nobody
  sent behind them; `whole` says that it ended before those.
* **BodyFound**: so the part behind the head is the beginning of the body
  (`FirstPart`), although it may be longer than what was announced, which the
  first step of each reader corrects (`Clamped`). The part of -1 after a read
  that failed is not `whole`, because it is larger than any read.
* **Fetched**, **Placed**: the part at hand is the one of the body that follows
  what was taken, and while more of the body is to come the stream goes on after
  it. Text and pairs take a part whole. The reader of params stands within it,
  may go back by what a broken boundary had taken but not before the part, and
  may jump behind the body; when the client has closed, the part is gone and the
  stream with it. `read_next_part` keeps this, and with it no reader looks behind
  the buffer.
* **Room**: what is kept came before the part at hand, but for the beginning of a
  boundary that is put to it when the boundary broke off in a line. So a body
  that with one boundary more fits into `buff_extra` does not reach the stage
  `"overflow"`; about what follows that stage the theorem says nothing.
* **BodyRead**: what was made of the bytes so far is what one block of them
  would give. For pairs this is `FoldConcat`: the state kept from part to part
  is all that a cut leaves behind.

The second follows the answer, for any pages, any calls their layers and
handlers make and any sizes of the writes:

* **ResponseOK** is kept by each call, so by `FoldKeeps` by layers, handlers and
  error pages.
* **PlanMade**: when the head is about to be written, the plan begins where the
  range begins and what it has left is what it announces.
* **PlanSent**: while it is sent, what was sent lies before the place of the plan
  and makes with what is left what the head announced; so it is all sent when
  nothing is left. A short write of the head sets `cut`, and
  the claim is then about the body alone.

Folds over sequences are proved by induction without the library's theorem:
`Induct` of `Folding` speaks of a set of numbers and not of an operator. It
rests on the well-foundedness of the finite sets 0..i.

### Only model-checked

* Liveness: `BusyWorkerServes`, `StopReachesOthers`, `HandedOver`, `StopQuiets`,
  `StopHeard`, `LoopComesBack`, `RequestsEnd`, `WorkersReturn`. They depend on
  fairness and so on ENABLED, which these proofs cannot express.
* JSON: `EveryCut`, `BodyMasked`, `ValueMasked`, `KeysMasked`. They compare
  RECURSIVE operators over trees, for which the provers are not available.
* HTTP/1.1: `BodyAsSent`, `AnswerAsAnnounced`. They compare with an expectation
  that is a constant of the instance: what a multipart form or a file with keys
  should give. `BodyIsReadAsOne` proves that the reader of a form stands where it
  should, and `AnswerIsInFull` all that `AnswerAsAnnounced` says of the length of
  texts, files and parts; that the params are those between the boundaries, and
  that keys are found and replaced, is left to TLC.

## 7. Disagreements between the code and its comments

Two statements in comments are refuted by a run that ends in the
counterexample.

1. `ManapiThreadPool.cpp:81` "wake up the thread waiting for the task": a task
   appended between a worker's `getTask` and its `cv.wait` wakes nobody
   (`NoStrandedTask`, run `pool_stranded`). The next task appended drains both.
   The same window makes `stop` miss a worker, for which `tasks_pool_stop` then
   spins without end: `StopReachesOthers` holds for workers outside it only,
   `StopQuiets` does not promise that the join ends, and `StopHeard` excepts a
   worker that is never woken.
2. `ManapiTaskHttp.cpp:542` "its bad, but we know that its works": the request
   can be destroyed before the loop's last unlock of its mutex, by its handler's
   end, or at once by a closed pool that refuses it
   (`TaskOutlivesLoop`, run `quic_stream_outlive`).

Five more are stated in the modules and refuted by TLC when they stand alone in
a copy of the named configuration. They have no run of their own, because what
the code shall do there is less plain from its comments.

| statement | configuration | what the code does |
|---|---|---|
| `RestartServes` (`ManapiHttp.cpp:158` "reset") | MCHttpServer, `MaxRuns` 2 | after a stop the task pool stays closed; a second `pool()` starts a server that executes nothing |
| `DeletedAfterSetup` (`ManapiHttpPool.cpp:358` "say, that it can be deleted") | MCHttpServer, `MaxRuns` 1 | `stop` can pass before the detached loop thread has created what it stops |
| `UsedIsKept` (`ManapiTaskHttp.cpp:1760` "This connection is used by the main pool") | MCQuicConn | a datagram between the callback's test of `is_responsing` and its erasure starts a loop on a connection that is then destroyed |
| `TitlesFitGroups` (`ManapiSite.cpp:274` calls it a bug) | MCRouter | titles collected at a regex part that is there already are given to the next new one |
| `PartIsLastBlock` (a PROPERTY; `tcp_doit`, "calculate how much space contains headers in the last block") | MCHttpExchange | the size of the first read, less the bytes of the head in the last one |

The other properties are stated so that they hold with these defects present,
and name what they except:

* concurrency: `late`, `in_use`, `Awake`, the cases of `StopHeard`; `refused`, a
  task that a closed pool refused without anybody looking (`GateOpens`,
  `TimerKept`); `failed`, a connection whose last flush ended early, which leaves
  no timer behind (`TimerKept`); a writer that asks for capacity for ever, and a
  request that the closed pool never starts (`RequestsEnd`);
* router: `Spoiled`, a part behind a regex part that other patterns had made;
* JSON: `Lenient`, texts that are not JSON and are taken, or are taken as
  another value; `Plain`, pieces that come after the end of the value;
  `ArrayOnce`, masks in which more than one alternative is an array or `any`,
  read under the first for the items and any for the size. Stated and not
  excepted: while a body is read, numbers, booleans and null are not told
  apart, missing keys are not looked for, and `numeric` is never met;
  `valid` refuses every value under a limit of size of `>=0` or `=0` (stored as
  -1, compared unsigned), looks at no limit of a number and throws at the first item of an
  array of a mask. `README.md:97` shows a mask of a form with
  `{number(>=18 <100)}`: a form's values are strings;
* HTTP/1.1: `whole`, a head that came in more than one read, or a first part
  whose read failed; `failed`, and `Open`, ranges with an end or behind the file
  (`AnswerInFull`); `cut`, a head of which one write took a part only, which
  `tcp_send_response` reports as a success; what is kept of a param beyond the
  size of `buff_extra`, which the code copies without a look at it
  (`BodyAsOne`, `BodyAsSent`); `Dashed`, values that begin like the end of a boundary;
  `Replaceable`, values not longer than their key in a file of several blocks; a
  write that fails, after which an error page may give a second head. What was
  not sent of a body is read as zeros, and a field given twice counts once: both
  are in the exchanges as what is to come of them.

## 8. What is not modelled

* Responses by proxy and what fetch does (libcurl); replacers and ranges of
  QUIC's own send functions; TLS, which is a read and a write like the others.
* Query parameters, of which `parse_map_url_param` stores none; the check of a
  form against a mask within an exchange (JsonBody checks masks).
* What is behind an overflow of `buff_extra`; trailers on a stream whose request
  has ended, which would make another request of it.
* More than one request on a TCP connection: the code closes it after the first.
* What JSON masks say of `bigint` and the arithmetic of JSON values.
* The compressed-file cache: its hazard is a data race on a container, for
  which there is no set of outcomes to choose from. A compressor is a function
  of the bytes.
* A data race on `conn_io->tasks` when handlers erase their entries: the model
  makes each erasure one step.
* libev, OpenSSL, quiche, libcurl, zlib: external; the models keep the calls
  made to them and the ways these may answer.
* Configuration, and strings, files, hashes, big integers, base64, tokens: pure
  functions and I/O.
