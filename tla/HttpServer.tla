----------------------------- MODULE HttpServer -----------------------------
(***************************************************************************)
(* Starting, stopping and restarting a server: http::pool, http::stop and  *)
(* http::stop_pool of src/src/ManapiHttp.cpp, with the site operations     *)
(* they call and one http_pool (src/src/ManapiHttpPool.cpp).               *)
(*                                                                         *)
(* Threads: callers of pool() and stop(); handlers, which are workers of   *)
(* the task pool that execute a request and may call stop() themselves;    *)
(* the stop thread that each pool() spawns; the event-loop thread of the   *)
(* http_pool.  m_running (server) is locked by pool() and unlocked by the  *)
(* stop thread.  The mutexes m_stopping and http_pool::m_running are       *)
(* represented by the positions of the threads that hold them.             *)
(*                                                                         *)
(* The task pool appears only as open or closed, and its workers with what *)
(* ThreadPool shows of them: one that is between the test of is_stop and   *)
(* cv.wait when the pool is closed misses the notify_all.  Undefined       *)
(* behaviour (a null or a destroyed object is followed) ends the run with  *)
(* crashed.                                                                *)
(***************************************************************************)
EXTENDS Naturals

CONSTANTS
  Callers,      \* threads outside the server
  Handlers,     \* workers that execute a request handler
  Null,
  MaxRuns       \* bound: how often the server is started

ASSUME ServerAssumption ==
  /\ Callers \cap Handlers = {}
  /\ Null \notin Callers
  /\ MaxRuns \in Nat

VARIABLES
  pc,         \* where each caller and handler is
  m_running,  \* whether the server's m_running is locked
  m_initing,  \* the caller that holds m_initing across steps, or Null
  stopping,   \* the flag stop() raises
  st,         \* where the stop thread is
  task_pool,  \* "none", "open" or "closed" (threadpool::is_stop)
  timers,     \* "none", "running", "stopped", or "dead": its loop was refused
  http_pool,  \* whether the http_pool object exists
  lp,         \* where the event-loop thread is
  ready,      \* whether the loop thread has created its watcher ev_io
  lp_promise, \* whether http_pool::pool_promise is non-null
  done,       \* whether the current pool_promise has its value
  runs,       \* how many times the server was started
  crashed

procvars == <<pc, m_running, m_initing, stopping, st>>
poolvars == <<task_pool, timers>>
loopvars == <<http_pool, lp, ready, lp_promise>>
vars     == <<procvars, poolvars, loopvars, done, runs, crashed>>

Goto(t, at) == pc' = [pc EXCEPT ![t] = at]

Busy == {h \in Handlers : pc[h] \notin {"idle", "missed", "left"}}

Init ==
  /\ pc = [t \in Callers \cup Handlers |-> "idle"]
  /\ m_running = FALSE
  /\ m_initing = Null
  /\ stopping = FALSE
  /\ st = "none"
  /\ task_pool = "none"
  /\ timers = "none"
  /\ http_pool = FALSE
  /\ lp = "none"
  /\ ready = FALSE
  /\ lp_promise = FALSE
  /\ done = FALSE
  /\ runs = 0
  /\ crashed = FALSE

-----------------------------------------------------------------------------
(* Mutant of Pool_lock: m_running is not taken, a second start overlaps. *)
PoolNoLock(c) ==
  /\ pc[c] = "idle"
  /\ runs < MaxRuns
  /\ m_running' = TRUE
  /\ runs' = runs + 1
  /\ Goto(c, "init")
  /\ UNCHANGED <<m_initing, stopping, st, poolvars, loopvars, done, crashed>>

(* pool(): m_running.lock() waits for the end of an earlier run. *)
Pool_lock(c) ==
  /\ pc[c] = "idle"
  /\ runs < MaxRuns
  /\ ~m_running
  /\ m_running' = TRUE
  /\ runs' = runs + 1
  /\ Goto(c, "init")
  /\ UNCHANGED <<m_initing, stopping, st, poolvars, loopvars, done, crashed>>

(* tasks_pool_init creates the task pool only once, and its start() spawns *)
(* only threads it never had: a pool that was stopped stays closed.  The   *)
(* loop of the new timer pool is then refused.  The pool_promise of the    *)
(* server is replaced, which a caller of an earlier pool() may be reading. *)
(* http_pool::run makes a pool_promise of its own and spawns the loop      *)
(* thread.                                                                 *)
Pool_init(c) ==
  /\ pc[c] = "init"
  /\ m_initing = Null
  /\ m_initing' = c
  /\ task_pool' = IF task_pool = "none" THEN "open" ELSE task_pool
  /\ timers' = IF task_pool = "closed" THEN "dead" ELSE "running"
  /\ done' = FALSE
  /\ http_pool' = TRUE
  /\ lp' = "created"
  /\ ready' = FALSE
  /\ lp_promise' = TRUE
  /\ crashed' \in {FALSE, \E d \in Callers : pc[d] = "get"}
  /\ Goto(c, "run")
  /\ UNCHANGED <<m_running, stopping, st, runs>>

(* http_pool::run returns the future of its own pool_promise, which the    *)
(* loop thread may already have reset; then the stop thread is spawned and *)
(* m_initing released.                                                     *)
Pool_run(c) ==
  /\ pc[c] = "run"
  /\ \/ /\ ~lp_promise
        /\ crashed' = TRUE
        /\ UNCHANGED procvars
     \/ /\ lp_promise
        /\ st' = "test"
        /\ m_initing' = Null
        /\ Goto(c, "get")
        /\ UNCHANGED <<m_running, stopping, crashed>>
  /\ UNCHANGED <<poolvars, loopvars, done, runs>>

(* pool() returns the future of the server's pool_promise, without a lock: *)
(* when the run has ended and another began, that is the other's, and the  *)
(* second caller to ask gets an exception.                                 *)
Pool_get(c) ==
  /\ pc[c] = "get"
  /\ Goto(c, "idle")
  /\ UNCHANGED <<m_running, m_initing, stopping, st, poolvars, loopvars, done, runs, crashed>>

(* stop(wait): the flag is raised under m_initing ... *)
Stop_set(c) ==
  /\ \/ c \in Callers /\ pc[c] = "idle"
     \/ c \in Handlers /\ pc[c] = "busy"
  /\ m_initing = Null
  /\ stopping' = TRUE
  /\ Goto(c, "notify")
  /\ UNCHANGED <<m_running, m_initing, st, poolvars, loopvars, done, runs, crashed>>

(* Mutant of Stop_notify: nobody is notified. *)
StopSilent(c) ==
  /\ pc[c] = "notify"
  /\ Goto(c, IF c \in Callers THEN "idle" ELSE "busy")
  /\ UNCHANGED <<m_running, m_initing, stopping, st, poolvars, loopvars, done, runs, crashed>>

(* ... the condition variable notified without m_stopping, and with wait   *)
(* the caller then acquires m_running.                                     *)
Stop_notify(c) ==
  /\ pc[c] = "notify"
  /\ st' = IF st = "waiting" THEN "test" ELSE st
  /\ \/ Goto(c, IF c \in Callers THEN "idle" ELSE "busy")
     \/ Goto(c, "wait")
  /\ UNCHANGED <<m_running, m_initing, stopping, poolvars, loopvars, done, runs, crashed>>

(* Mutant of Stop_return: m_running is not waited for. *)
StopReturnsEarly(c) ==
  /\ pc[c] = "wait"
  /\ Goto(c, IF c \in Callers THEN "idle" ELSE "busy")
  /\ UNCHANGED <<m_running, m_initing, stopping, st, poolvars, loopvars, done, runs, crashed>>

Stop_return(c) ==
  /\ pc[c] = "wait"
  /\ ~m_running
  /\ Goto(c, IF c \in Callers THEN "idle" ELSE "busy")
  /\ UNCHANGED <<m_running, m_initing, stopping, st, poolvars, loopvars, done, runs, crashed>>

(* A worker takes a request of a connection the loop accepted.  It may     *)
(* still do so when the pool has just been closed.                         *)
Handler_begins(h) ==
  /\ pc[h] = "idle"
  /\ lp = "running"
  /\ task_pool # "none"
  /\ Goto(h, "busy")
  /\ UNCHANGED <<m_running, m_initing, stopping, st, poolvars, loopvars, done, runs, crashed>>

(* After the request it tests is_stop and leaves, for good, or goes on. *)
Handler_ends(h) ==
  /\ pc[h] = "busy"
  /\ Goto(h, IF task_pool = "closed" THEN "left" ELSE "idle")
  /\ UNCHANGED <<m_running, m_initing, stopping, st, poolvars, loopvars, done, runs, crashed>>

(* An idle worker leaves a closed pool, unless it had tested is_stop       *)
(* before and comes to cv.wait after the notify_all.                       *)
Handler_leaves(h) ==
  /\ pc[h] = "idle"
  /\ task_pool = "closed"
  /\ Goto(h, "left") \/ Goto(h, "missed")
  /\ UNCHANGED <<m_running, m_initing, stopping, st, poolvars, loopvars, done, runs, crashed>>

(* Such a worker leaves if something else wakes it: the notify_one of an   *)
(* append_task that was under way, or nothing at all.                      *)
Handler_woken(h) ==
  /\ pc[h] = "missed"
  /\ Goto(h, "left")
  /\ UNCHANGED <<m_running, m_initing, stopping, st, poolvars, loopvars, done, runs, crashed>>

-----------------------------------------------------------------------------
StAt(from, to) == st = from /\ st' = to
StKeeps == UNCHANGED <<pc, m_initing, runs>>

(* stop_pool: cv_stopping.wait with its predicate, which is tested before  *)
(* every wait; the flag may be raised and notified in between.             *)
St_test ==
  /\ \/ stopping /\ StAt("test", "tasks")
     \/ ~stopping /\ StAt("test", "window")
  /\ StKeeps
  /\ UNCHANGED <<m_running, stopping, poolvars, loopvars, done, crashed>>

St_wait ==
  /\ StAt("window", "waiting")
  /\ StKeeps
  /\ UNCHANGED <<m_running, stopping, poolvars, loopvars, done, crashed>>

(* timer_pool_stop, then tasks_pool_stop, which closes the task pool ... *)
St_tasks ==
  /\ StAt("tasks", "join")
  /\ timers' = IF timers = "running" THEN "stopped" ELSE timers
  /\ task_pool' = "closed"
  /\ StKeeps
  /\ UNCHANGED <<m_running, stopping, loopvars, done, crashed>>

(* Mutant of St_join: the workers are not waited for. *)
StNoJoin ==
  /\ StAt("join", "pools")
  /\ StKeeps
  /\ UNCHANGED <<m_running, stopping, poolvars, loopvars, done, crashed>>

(* ... and waits until every worker has left. *)
St_join ==
  /\ StAt("join", "pools")
  /\ \A h \in Handlers : pc[h] = "left"
  /\ StKeeps
  /\ UNCHANGED <<m_running, stopping, poolvars, loopvars, done, crashed>>

(* http_pool::stop, under the m_initing that _pool holds while it sets up: *)
(* it uses ev_io, then breaks the loop.                                    *)
St_pools ==
  /\ lp # "init"
  /\ \/ /\ ~ready
        /\ crashed' = TRUE
        /\ UNCHANGED <<st, lp>>
     \/ /\ ready
        /\ StAt("pools", "loop")
        /\ lp' = IF lp = "running" THEN "ending" ELSE lp
        /\ UNCHANGED crashed
  /\ st = "pools"
  /\ StKeeps
  /\ UNCHANGED <<m_running, stopping, poolvars, http_pool, ready, lp_promise, done>>

(* Mutant of St_loop: http_pool::m_running is not waited for. *)
StLoopEarly ==
  /\ StAt("loop", "reset")
  /\ http_pool' = FALSE
  /\ StKeeps
  /\ UNCHANGED <<m_running, stopping, poolvars, lp, ready, lp_promise, done, crashed>>

(* Its last line waits for the loop thread; then pools.clear(). *)
St_loop ==
  /\ StAt("loop", "reset")
  /\ lp = "none"
  /\ http_pool' = FALSE
  /\ StKeeps
  /\ UNCHANGED <<m_running, stopping, poolvars, lp, ready, lp_promise, done, crashed>>

St_reset ==
  /\ StAt("reset", "fulfil")
  /\ stopping' = FALSE
  /\ StKeeps
  /\ UNCHANGED <<m_running, poolvars, loopvars, done, crashed>>

(* before_delete: the promise gets its value, m_running is unlocked. *)
St_fulfil ==
  /\ StAt("fulfil", "unlock")
  /\ done' = TRUE
  /\ StKeeps
  /\ UNCHANGED <<m_running, stopping, poolvars, loopvars, crashed>>

St_unlock ==
  /\ StAt("unlock", "none")
  /\ m_running' = FALSE
  /\ StKeeps
  /\ UNCHANGED <<stopping, poolvars, loopvars, done, crashed>>

StopThread ==
  \/ St_test \/ St_wait \/ St_tasks \/ St_join \/ St_pools
  \/ St_loop \/ St_reset \/ St_fulfil \/ St_unlock

-----------------------------------------------------------------------------
LpAt(from, to) == lp = from /\ lp' = to
LpKeeps == UNCHANGED <<procvars, poolvars, http_pool, done, runs, crashed>>

(* _pool takes m_initing and creates the watcher. *)
Lp_init ==
  /\ LpAt("created", "init")
  /\ st # "loop"
  /\ ready' = TRUE
  /\ LpKeeps
  /\ UNCHANGED lp_promise

(* Setup succeeds and the loop runs, or fails (the port is in use). *)
Lp_run ==
  /\ LpAt("init", "running") \/ LpAt("init", "ending")
  /\ LpKeeps
  /\ UNCHANGED <<ready, lp_promise>>

(* The thread ends: pool_promise is reset, m_running unlocked. *)
Lp_end ==
  /\ LpAt("ending", "none")
  /\ lp_promise' = FALSE
  /\ LpKeeps
  /\ UNCHANGED ready

LoopThread == Lp_init \/ Lp_run \/ Lp_end

-----------------------------------------------------------------------------
CallerStep(c) ==
  Pool_init(c) \/ Pool_run(c) \/ Pool_get(c) \/ Stop_notify(c) \/ Stop_return(c)

HandlerStep(h) ==
  Stop_notify(h) \/ Stop_return(h) \/ Handler_ends(h) \/ Handler_leaves(h)

Next ==
  /\ ~crashed
  /\ \/ \E c \in Callers : Pool_lock(c) \/ Stop_set(c) \/ CallerStep(c)
     \/ \E h \in Handlers :
          Handler_begins(h) \/ Stop_set(h) \/ HandlerStep(h) \/ Handler_woken(h)
     \/ StopThread
     \/ LoopThread

Spec == Init /\ [][Next]_vars

(* A thread that can take a step takes it eventually, a handler that does  *)
(* not wait in stop() ends.  Nothing obliges anybody to start or stop, or  *)
(* to wake a worker that missed the notify_all.                            *)
Fairness ==
  /\ \A c \in Callers : WF_vars(~crashed /\ CallerStep(c))
  /\ \A h \in Handlers :
       WF_vars(~crashed /\ HandlerStep(h)) /\ SF_vars(~crashed /\ Handler_ends(h))
  /\ WF_vars(~crashed /\ StopThread)
  /\ WF_vars(~crashed /\ LoopThread)

FairSpec == Spec /\ Fairness

-----------------------------------------------------------------------------
(* Every variable has its type. *)
TypeOK ==
  /\ DOMAIN pc = Callers \cup Handlers
  /\ \A c \in Callers : pc[c] \in {"idle", "init", "run", "get", "notify", "wait"}
  /\ \A h \in Handlers : pc[h] \in {"idle", "busy", "notify", "wait", "missed", "left"}
  /\ m_running \in BOOLEAN
  /\ m_initing \in Callers \cup {Null}
  /\ stopping \in BOOLEAN
  /\ st \in {"none", "test", "window", "waiting", "tasks", "join", "pools", "loop",
             "reset", "fulfil", "unlock"}
  /\ task_pool \in {"none", "open", "closed"}
  /\ timers \in {"none", "running", "stopped", "dead"}
  /\ http_pool \in BOOLEAN
  /\ lp \in {"none", "created", "init", "running", "ending"}
  /\ ready \in BOOLEAN
  /\ lp_promise \in BOOLEAN
  /\ done \in BOOLEAN
  /\ runs \in 0 .. MaxRuns
  /\ crashed \in BOOLEAN

(* What runs has what it runs on: while a handler executes or the loop     *)
(* thread exists, the http_pool whose configuration they use is not        *)
(* destroyed.                                                              *)
NoUseAfterClear == Busy # {} \/ lp # "none" => http_pool

(* The future of pool() tells the truth: once it has its value, and until  *)
(* the next start, no handler executes, the loop thread is gone and the    *)
(* http_pool is destroyed.                                                 *)
FutureMeansDown == done => Busy = {} /\ lp = "none" /\ ~http_pool

(* One run at a time: while the stop thread of a run exists no other start *)
(* is past m_running, and only one start is.                               *)
OneRun ==
  /\ \A c \in Callers : pc[c] \in {"init", "run"} => m_running /\ st = "none"
  /\ \A c, d \in Callers : pc[c] \in {"init", "run"} /\ pc[d] \in {"init", "run"} => c = d

(* stop(true) returns only when the server is down. *)
StopWaits ==
  [][\A c \in Callers : pc[c] = "wait" /\ pc'[c] = "idle" =>
       st = "none" /\ Busy = {} /\ lp = "none"]_vars

(* A stop that finds the stop thread waiting, or that precedes its test of *)
(* the flag, brings the server down, whatever handlers and loop do.  (A    *)
(* stop that falls between the test and the wait may not: the notifier     *)
(* does not hold m_stopping.)  Two cases are excepted, in which            *)
(* tasks_pool_stop spins for ever: a handler that waits in stop(true) for  *)
(* its own worker, and a worker that missed the notify_all of the pool and *)
(* that nothing wakes.                                                     *)
Stuck(h) == pc[h] \in {"wait", "missed"}

StopHeard ==
  \/ \E h \in Handlers : <>[]Stuck(h)
  \/ (stopping /\ (st = "test" \/ (st = "waiting" /\ \E c \in Callers : pc[c] = "notify")))
       ~> (st = "none" \/ crashed)

(* The comment "reset" in stop_pool: the server can be started again.  A   *)
(* started server that nobody stops takes tasks and runs its timers.       *)
RestartServes == st = "waiting" /\ ~stopping => task_pool = "open" /\ timers = "running"

(* The comment "say, that it can be deleted" in _pool: http_pool::stop     *)
(* touches the pool only after the loop thread has come to that line, or   *)
(* has failed; so it always finds the watcher it stops.                    *)
DeletedAfterSetup == ~(crashed /\ st = "pools")
=============================================================================
