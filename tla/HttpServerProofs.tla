---------------------------- MODULE HttpServerProofs ----------------------------
(***************************************************************************)
(* Proofs, for every set of callers and of handlers and any number of      *)
(* restarts, of the safety properties that MCHttpServer checks on a small  *)
(* instance.                                                               *)
(*                                                                         *)
(* The life of a run is a relay: m_running is held from pool() to the last *)
(* line of the stop thread, first by one caller, then by the stop thread.  *)
(* Relay says who holds it and what exists meanwhile; with the two         *)
(* invariants about the http_pool it is inductive.                         *)
(***************************************************************************)
EXTENDS HttpServer, TLAPS

(* Where the stop thread has joined the workers, and where it has also     *)
(* destroyed the http_pool.                                                *)
Joined  == st \in {"pools", "loop", "reset", "fulfil", "unlock"}
Cleared == st \in {"reset", "fulfil", "unlock"}

(* Without m_running there is no run; a caller that has just taken it      *)
(* finds nothing of the previous run; past the join no worker is left, and *)
(* past pools.clear() no http_pool.                                        *)
Relay ==
  /\ ~m_running => st = "none" /\ ~http_pool
  /\ \A c \in Callers : pc[c] = "init" => ~http_pool
  /\ Joined => \A h \in Handlers : pc[h] = "left"
  /\ Cleared => ~http_pool

(* The three invariants, the last one without what the second implies. *)
IInv ==
  /\ TypeOK
  /\ OneRun
  /\ NoUseAfterClear
  /\ Relay
  /\ done => ~http_pool

(* What a handler does of itself. *)
HandlerMove(h) ==
  Handler_begins(h) \/ Handler_ends(h) \/ Handler_leaves(h) \/ Handler_woken(h)

(* The steps of the specification, one disjunct per action. *)
LEMMA NextActions ==
  ASSUME Next
  PROVE  \/ \E c \in Callers : Pool_lock(c)
         \/ \E c \in Callers : Pool_init(c)
         \/ \E c \in Callers : Pool_run(c)
         \/ \E c \in Callers : Pool_get(c)
         \/ \E c \in Callers : Stop_set(c) \/ Stop_notify(c) \/ Stop_return(c)
         \/ \E h \in Handlers : Stop_set(h) \/ Stop_notify(h) \/ Stop_return(h)
         \/ \E h \in Handlers : HandlerMove(h)
         \/ St_test \/ St_wait \/ St_tasks
         \/ St_join
         \/ St_pools
         \/ St_loop
         \/ St_reset \/ St_fulfil
         \/ St_unlock
         \/ Lp_init \/ Lp_run
         \/ Lp_end
BY DEF Next, CallerStep, HandlerStep, HandlerMove, StopThread, LoopThread

(* TypeOK in three parts, for the provers. *)
PcTypeOK ==
  /\ DOMAIN pc = Callers \cup Handlers
  /\ \A c \in Callers : pc[c] \in {"idle", "init", "run", "get", "notify", "wait"}
  /\ \A h \in Handlers : pc[h] \in {"idle", "busy", "notify", "wait", "missed", "left"}

FlagTypes ==
  /\ m_running \in BOOLEAN
  /\ stopping \in BOOLEAN
  /\ http_pool \in BOOLEAN
  /\ ready \in BOOLEAN
  /\ lp_promise \in BOOLEAN
  /\ done \in BOOLEAN
  /\ crashed \in BOOLEAN

PointTypes ==
  /\ m_initing \in Callers \cup {Null}
  /\ st \in {"none", "test", "window", "waiting", "tasks", "join", "pools", "loop",
             "reset", "fulfil", "unlock"}
  /\ task_pool \in {"none", "open", "closed"}
  /\ timers \in {"none", "running", "stopped", "dead"}
  /\ lp \in {"none", "created", "init", "running", "ending"}
  /\ runs \in 0 .. MaxRuns

LEMMA TypeParts ==
  /\ TypeOK => PcTypeOK /\ FlagTypes /\ PointTypes
  /\ PcTypeOK /\ FlagTypes /\ PointTypes => TypeOK
  /\ PcTypeOK' /\ FlagTypes' /\ PointTypes' => TypeOK'
<1>1. TypeOK => PcTypeOK /\ FlagTypes /\ PointTypes
  BY DEF TypeOK, PcTypeOK, FlagTypes, PointTypes
<1>2. PcTypeOK /\ FlagTypes /\ PointTypes => TypeOK
  BY DEF TypeOK, PcTypeOK, FlagTypes, PointTypes
<1>3. PcTypeOK' /\ FlagTypes' /\ PointTypes' => TypeOK'
  BY DEF TypeOK, PcTypeOK, FlagTypes, PointTypes
<1> QED BY <1>1, <1>2, <1>3

-----------------------------------------------------------------------------
LEMMA InitIInv ==
  ASSUME Init
  PROVE  IInv
<1> USE ServerAssumption DEF Init
<1>1. TypeOK
  <2>1. PcTypeOK
    BY DEF PcTypeOK
  <2>2. FlagTypes
    BY DEF FlagTypes
  <2>3. PointTypes
    BY DEF PointTypes
  <2> QED BY <2>1, <2>2, <2>3, TypeParts
<1>2. OneRun /\ NoUseAfterClear
  BY DEF OneRun, NoUseAfterClear, Busy
<1>3. Relay
  BY DEF Relay, Joined, Cleared
<1> QED BY <1>1, <1>2, <1>3 DEF IInv

-----------------------------------------------------------------------------
(* A thread that moves stays at a point of its kind. *)
LEMMA GotoTypeOK ==
  ASSUME PcTypeOK, NEW t \in Callers \cup Handlers, NEW at, Goto(t, at),
         t \in Callers => at \in {"idle", "init", "run", "get", "notify", "wait"},
         t \in Handlers => at \in {"idle", "busy", "notify", "wait", "missed", "left"}
  PROVE  PcTypeOK'
<1>1. DOMAIN pc' = DOMAIN pc
  BY DEF Goto
<1>2. \A x \in DOMAIN pc : pc'[x] = IF x = t THEN at ELSE pc[x]
  BY DEF Goto
<1> QED BY <1>1, <1>2 DEF PcTypeOK

LEMMA StepPcTypeOK ==
  ASSUME PcTypeOK, Next
  PROVE  PcTypeOK'
<1> USE ServerAssumption
<1>1. ASSUME NEW c \in Callers, Pool_lock(c) \/ Pool_init(c) \/ Pool_get(c)
      PROVE  PcTypeOK'
  BY <1>1, GotoTypeOK DEF Pool_lock, Pool_init, Pool_get
<1>2. ASSUME NEW c \in Callers, Pool_run(c)
      PROVE  PcTypeOK'
  <2>1. CASE Goto(c, "get")
    BY <2>1, GotoTypeOK
  <2>2. CASE UNCHANGED pc
    BY <2>2 DEF PcTypeOK
  <2> QED BY <1>2, <2>1, <2>2 DEF Pool_run, procvars
<1>3. ASSUME NEW t \in Callers \cup Handlers, Stop_set(t) \/ Stop_notify(t) \/ Stop_return(t)
      PROVE  PcTypeOK'
  BY <1>3, GotoTypeOK DEF Stop_set, Stop_notify, Stop_return
<1>4. ASSUME NEW h \in Handlers, HandlerMove(h)
      PROVE  PcTypeOK'
  BY <1>4, GotoTypeOK DEF HandlerMove, Handler_begins, Handler_ends, Handler_leaves, Handler_woken
<1>5. CASE UNCHANGED pc
  BY <1>5 DEF PcTypeOK
<1>6. CASE St_test \/ St_wait \/ St_tasks \/ St_join \/ St_pools \/ St_loop \/ St_reset \/ St_fulfil \/ St_unlock
  BY <1>5, <1>6
     DEF St_test, St_wait, St_tasks, St_join, St_pools, St_loop, St_reset, St_fulfil, St_unlock, StKeeps
<1>7. CASE Lp_init \/ Lp_run \/ Lp_end
  BY <1>5, <1>7 DEF Lp_init, Lp_run, Lp_end, LpKeeps, procvars
<1> QED
  BY <1>1, <1>2, <1>3, <1>4, <1>6, <1>7, NextActions

(* A flag stays a flag. *)
LEMMA StepFlagTypes ==
  ASSUME FlagTypes, Next
  PROVE  FlagTypes'
<1> USE ServerAssumption DEF FlagTypes, procvars, poolvars, loopvars, StAt, StKeeps, LpAt, LpKeeps
<1>1. ASSUME NEW c \in Callers, Pool_lock(c)
      PROVE  FlagTypes'
  BY <1>1 DEF Pool_lock
<1>2. ASSUME NEW c \in Callers, Pool_init(c)
      PROVE  FlagTypes'
  BY <1>2 DEF Pool_init
<1>3. ASSUME NEW c \in Callers, Pool_run(c) \/ Pool_get(c)
      PROVE  FlagTypes'
  BY <1>3 DEF Pool_run, Pool_get
<1>4. ASSUME NEW t \in Callers \cup Handlers, Stop_set(t) \/ Stop_notify(t) \/ Stop_return(t)
      PROVE  FlagTypes'
  BY <1>4 DEF Stop_set, Stop_notify, Stop_return
<1>5. ASSUME NEW h \in Handlers, HandlerMove(h)
      PROVE  FlagTypes'
  BY <1>5 DEF HandlerMove, Handler_begins, Handler_ends, Handler_leaves, Handler_woken
<1>6. CASE St_test \/ St_wait \/ St_tasks
  BY <1>6 DEF St_test, St_wait, St_tasks
<1>7. CASE St_join \/ St_pools
  BY <1>7 DEF St_join, St_pools
<1>8. CASE St_loop \/ St_reset
  BY <1>8 DEF St_loop, St_reset
<1>9. CASE St_fulfil \/ St_unlock
  BY <1>9 DEF St_fulfil, St_unlock
<1>10. CASE Lp_init \/ Lp_run
  BY <1>10 DEF Lp_init, Lp_run
<1>11. CASE Lp_end
  BY <1>11 DEF Lp_end
<1> QED
  BY <1>1, <1>2, <1>3, <1>4, <1>5, <1>6, <1>7, <1>8, <1>9, <1>10, <1>11, NextActions

(* Every other variable keeps to its values. *)
LEMMA StepPointTypes ==
  ASSUME PointTypes, Next
  PROVE  PointTypes'
<1> USE ServerAssumption DEF PointTypes, procvars, poolvars, loopvars, StAt, StKeeps, LpAt, LpKeeps
<1>1. ASSUME NEW c \in Callers, Pool_lock(c)
      PROVE  PointTypes'
  BY <1>1 DEF Pool_lock
<1>2. ASSUME NEW c \in Callers, Pool_init(c)
      PROVE  PointTypes'
  BY <1>2 DEF Pool_init
<1>3. ASSUME NEW c \in Callers, Pool_run(c) \/ Pool_get(c)
      PROVE  PointTypes'
  BY <1>3 DEF Pool_run, Pool_get
<1>4. ASSUME NEW t \in Callers \cup Handlers, Stop_set(t) \/ Stop_notify(t) \/ Stop_return(t)
      PROVE  PointTypes'
  BY <1>4 DEF Stop_set, Stop_notify, Stop_return
<1>5. ASSUME NEW h \in Handlers, HandlerMove(h)
      PROVE  PointTypes'
  BY <1>5 DEF HandlerMove, Handler_begins, Handler_ends, Handler_leaves, Handler_woken
<1>6. CASE St_test \/ St_wait \/ St_tasks
  BY <1>6 DEF St_test, St_wait, St_tasks
<1>7. CASE St_join \/ St_pools
  BY <1>7 DEF St_join, St_pools
<1>8. CASE St_loop \/ St_reset
  BY <1>8 DEF St_loop, St_reset
<1>9. CASE St_fulfil \/ St_unlock
  BY <1>9 DEF St_fulfil, St_unlock
<1>10. CASE Lp_init \/ Lp_run
  BY <1>10 DEF Lp_init, Lp_run
<1>11. CASE Lp_end
  BY <1>11 DEF Lp_end
<1> QED
  BY <1>1, <1>2, <1>3, <1>4, <1>5, <1>6, <1>7, <1>8, <1>9, <1>10, <1>11, NextActions

-----------------------------------------------------------------------------
(* What Goto does to the program points. *)
LEMMA GotoMoves ==
  ASSUME PcTypeOK, NEW t \in Callers \cup Handlers, NEW at, Goto(t, at)
  PROVE  /\ pc'[t] = at
         /\ \A x \in Callers \cup Handlers : x # t => pc'[x] = pc[x]
BY DEF Goto, PcTypeOK

Resting == {"idle", "missed", "left"}

(* A step between stop() and the end of a handler: it moves one thread,    *)
(* that neither comes from nor goes to a point of pool().                  *)
LEMMA StopStep ==
  ASSUME PcTypeOK, NEW t \in Callers \cup Handlers,
         \/ Stop_set(t) \/ Stop_notify(t) \/ Stop_return(t)
         \/ t \in Callers /\ Pool_get(t)
         \/ t \in Handlers /\ HandlerMove(t)
  PROVE  /\ \A c \in Callers : pc'[c] \in {"init", "run"} => pc'[c] = pc[c]
         /\ \A h \in Handlers :
              /\ pc[h] = "left" => pc'[h] = "left"
              /\ pc[h] \in Resting /\ pc'[h] \notin Resting => lp = "running"
         /\ UNCHANGED <<m_running, http_pool, lp, done>>
         /\ st' # st => st = "waiting" /\ st' = "test"
<1> USE DEF Resting
<1>1. PICK at : /\ Goto(t, at)
                /\ t \in Callers => at \notin {"init", "run"}
                /\ pc[t] # "left"
                /\ t \in Handlers /\ pc[t] \in Resting /\ at \notin Resting => lp = "running"
  <2>1. CASE Stop_set(t)
    BY <2>1, ServerAssumption DEF Stop_set
  <2>2. CASE Stop_notify(t)
    BY <2>2, ServerAssumption DEF Stop_notify
  <2>3. CASE Stop_return(t)
    BY <2>3, ServerAssumption DEF Stop_return
  <2>4. CASE t \in Handlers /\ Handler_begins(t)
    BY <2>4, ServerAssumption DEF Handler_begins
  <2>5. CASE t \in Handlers /\ Handler_ends(t)
    BY <2>5, ServerAssumption DEF Handler_ends
  <2>6. CASE t \in Handlers /\ (Handler_leaves(t) \/ Handler_woken(t))
    BY <2>6, ServerAssumption DEF Handler_leaves, Handler_woken
  <2>7. CASE t \in Callers /\ Pool_get(t)
    BY <2>7, ServerAssumption DEF Pool_get
  <2> QED BY <2>1, <2>2, <2>3, <2>4, <2>5, <2>6, <2>7 DEF HandlerMove
<1>2. pc'[t] = at /\ \A x \in Callers \cup Handlers : x # t => pc'[x] = pc[x]
  BY <1>1, GotoMoves
<1>3. UNCHANGED <<m_running, http_pool, lp, done>>
  BY DEF Stop_set, Stop_notify, Stop_return, Pool_get, HandlerMove,
         Handler_begins, Handler_ends, Handler_leaves, Handler_woken, loopvars
<1>4. st' # st => st = "waiting" /\ st' = "test"
  BY DEF Stop_set, Stop_notify, Stop_return, Pool_get, HandlerMove,
         Handler_begins, Handler_ends, Handler_leaves, Handler_woken
<1> QED BY <1>1, <1>2, <1>3, <1>4

(* One run at a time: m_running is taken when it is free, and then no stop *)
(* thread exists; the stop thread is spawned by the one caller in pool().  *)
LEMMA StepOneRun ==
  ASSUME IInv, Next
  PROVE  OneRun'
<1> USE ServerAssumption DEF OneRun
<1>0. PcTypeOK /\ OneRun /\ Relay
  BY TypeParts DEF IInv
<1>1. ASSUME NEW c \in Callers, Pool_lock(c)
      PROVE  OneRun'
  <2>1. ~m_running /\ m_running' /\ st = "none" /\ st' = st
    BY <1>0, <1>1 DEF Pool_lock, Relay
  <2>2. \A d \in Callers : d # c => pc'[d] \notin {"init", "run"}
    BY <1>0, <1>1, <2>1, GotoMoves DEF Pool_lock
  <2> QED BY <2>1, <2>2
<1>2. ASSUME NEW c \in Callers, Pool_init(c)
      PROVE  OneRun'
  <2>1. pc[c] = "init" /\ UNCHANGED <<m_running, st>>
    BY <1>2 DEF Pool_init
  <2>2. \A d \in Callers : d # c => pc'[d] = pc[d]
    BY <1>0, <1>2, GotoMoves DEF Pool_init
  <2> QED BY <1>0, <2>1, <2>2
<1>3. ASSUME NEW c \in Callers, Pool_run(c)
      PROVE  OneRun'
  <2>1. CASE UNCHANGED procvars
    BY <1>0, <2>1 DEF procvars
  <2>2. CASE Goto(c, "get") /\ UNCHANGED m_running
    <3>1. \A d \in Callers : pc'[d] \notin {"init", "run"}
      BY <1>0, <1>3, <2>2, GotoMoves DEF Pool_run
    <3> QED BY <3>1
  <2> QED BY <1>3, <2>1, <2>2 DEF Pool_run
<1>4. ASSUME NEW t \in Callers \cup Handlers,
             \/ Stop_set(t) \/ Stop_notify(t) \/ Stop_return(t)
             \/ t \in Callers /\ Pool_get(t)
             \/ t \in Handlers /\ HandlerMove(t)
      PROVE  OneRun'
  <2>1. /\ \A c \in Callers : pc'[c] \in {"init", "run"} => pc'[c] = pc[c]
        /\ m_running' = m_running
        /\ st' # st => st = "waiting" /\ st' = "test"
    BY <1>0, <1>4, StopStep
  <2> QED BY <1>0, <2>1
<1>5. CASE StopThread
  <2>1. st # "none" /\ UNCHANGED pc
    BY <1>5
       DEF StopThread, St_test, St_wait, St_tasks, St_join, St_pools, St_loop, St_reset,
           St_fulfil, St_unlock, StAt, StKeeps
  <2> QED BY <1>0, <2>1
<1>6. CASE LoopThread
  BY <1>0, <1>6 DEF LoopThread, Lp_init, Lp_run, Lp_end, LpKeeps, procvars
<1> QED
  BY <1>1, <1>2, <1>3, <1>4, <1>5, <1>6, NextActions DEF StopThread, LoopThread

(* What keeps the http_pool keeps it under the feet of what uses it.       *)
LEMMA StepNoUseAfterClear ==
  ASSUME IInv, Next
  PROVE  NoUseAfterClear'
<1> USE ServerAssumption DEF NoUseAfterClear, Busy, Resting
<1>0. PcTypeOK /\ OneRun /\ Relay /\ NoUseAfterClear
  BY TypeParts DEF IInv
<1>1. ASSUME NEW c \in Callers, Pool_lock(c)
      PROVE  NoUseAfterClear'
  BY <1>0, <1>1, GotoMoves DEF Pool_lock, loopvars
<1>2. ASSUME NEW c \in Callers, Pool_init(c)
      PROVE  NoUseAfterClear'
  BY <1>2 DEF Pool_init
<1>3. ASSUME NEW c \in Callers, Pool_run(c)
      PROVE  NoUseAfterClear'
  <2>1. UNCHANGED <<http_pool, lp>> /\ (UNCHANGED pc \/ Goto(c, "get"))
    BY <1>3 DEF Pool_run, procvars, loopvars
  <2>2. \A h \in Handlers : pc'[h] = pc[h]
    BY <1>0, <2>1, GotoMoves
  <2> QED BY <1>0, <2>1, <2>2
<1>4. ASSUME NEW t \in Callers \cup Handlers,
             \/ Stop_set(t) \/ Stop_notify(t) \/ Stop_return(t)
             \/ t \in Callers /\ Pool_get(t)
             \/ t \in Handlers /\ HandlerMove(t)
      PROVE  NoUseAfterClear'
  <2>1. /\ \A h \in Handlers :
             pc[h] \in Resting /\ pc'[h] \notin Resting => lp = "running"
        /\ UNCHANGED <<http_pool, lp>>
    BY <1>0, <1>4, StopStep
  <2> QED BY <1>0, <2>1
<1>5. CASE St_loop
  <2>1. lp' = "none" /\ \A h \in Handlers : pc'[h] = "left"
    BY <1>0, <1>5 DEF St_loop, StAt, StKeeps, Relay, Joined
  <2> QED BY <2>1
<1>6. CASE St_pools
  BY <1>0, <1>6 DEF St_pools, StKeeps
<1>7. CASE St_test \/ St_wait \/ St_tasks \/ St_join \/ St_reset \/ St_fulfil \/ St_unlock
  BY <1>0, <1>7
     DEF St_test, St_wait, St_tasks, St_join, St_reset, St_fulfil, St_unlock, StKeeps, loopvars
<1>8. CASE Lp_init \/ Lp_run \/ Lp_end
  BY <1>0, <1>8 DEF Lp_init, Lp_run, Lp_end, LpAt, LpKeeps, procvars
<1> QED
  BY <1>1, <1>2, <1>3, <1>4, <1>5, <1>6, <1>7, <1>8, NextActions

(* The relay goes on: caller, stop thread, nobody. *)
LEMMA StepRelay ==
  ASSUME IInv, Next
  PROVE  Relay' /\ (done => ~http_pool)'
<1> DEFINE Goal == Relay' /\ (done => ~http_pool)'
<1> USE ServerAssumption DEF Relay, Joined, Cleared
<1>0. PcTypeOK /\ OneRun /\ Relay /\ (done => ~http_pool)
  BY TypeParts DEF IInv
<1>1. ASSUME NEW c \in Callers, Pool_lock(c)
      PROVE  Goal
  <2>1. ~m_running /\ m_running' /\ st' = "none" /\ ~http_pool' /\ done' = done
    BY <1>0, <1>1 DEF Pool_lock, loopvars
  <2> QED BY <1>0, <2>1
<1>2. ASSUME NEW c \in Callers, Pool_init(c)
      PROVE  Goal
  <2>1. m_running' /\ st' = "none" /\ ~done'
    BY <1>0, <1>2 DEF Pool_init, OneRun
  <2>2. \A d \in Callers : pc'[d] # "init"
    BY <1>0, <1>2, GotoMoves DEF Pool_init, OneRun
  <2> QED BY <2>1, <2>2
<1>3. ASSUME NEW c \in Callers, Pool_run(c)
      PROVE  Goal
  <2>1. UNCHANGED <<http_pool, done, m_running>> /\ m_running
    BY <1>0, <1>3 DEF Pool_run, procvars, loopvars, OneRun
  <2>2. CASE UNCHANGED procvars
    BY <1>0, <2>1, <2>2 DEF procvars
  <2>3. CASE st' = "test" /\ Goto(c, "get")
    <3>1. \A d \in Callers : pc'[d] = "init" => pc[d] = "init"
      BY <1>0, <2>3, GotoMoves
    <3> QED BY <1>0, <2>1, <2>3, <3>1
  <2> QED BY <1>3, <2>2, <2>3 DEF Pool_run
<1>4. ASSUME NEW t \in Callers \cup Handlers,
             \/ Stop_set(t) \/ Stop_notify(t) \/ Stop_return(t)
             \/ t \in Callers /\ Pool_get(t)
             \/ t \in Handlers /\ HandlerMove(t)
      PROVE  Goal
  <2>1. /\ \A c \in Callers : pc'[c] \in {"init", "run"} => pc'[c] = pc[c]
        /\ \A h \in Handlers : pc[h] = "left" => pc'[h] = "left"
        /\ UNCHANGED <<m_running, http_pool, done>>
        /\ st' # st => st = "waiting" /\ st' = "test"
    BY <1>0, <1>4, StopStep
  <2> QED BY <1>0, <2>1
<1>5. CASE St_test \/ St_wait \/ St_tasks
  <2>1. /\ st \in {"test", "window", "tasks"}
        /\ st' \in {"tasks", "window", "waiting", "join"}
        /\ UNCHANGED <<pc, m_running, http_pool, done>>
    BY <1>5 DEF St_test, St_wait, St_tasks, StAt, StKeeps, loopvars
  <2> QED BY <1>0, <2>1
<1>6. CASE St_join
  BY <1>0, <1>6 DEF St_join, StAt, StKeeps, loopvars
<1>7. CASE St_pools
  <2>1. st' = "pools" \/ st' = "loop"
    BY <1>7 DEF St_pools, StAt
  <2> QED BY <1>0, <1>7, <2>1 DEF St_pools, StKeeps
<1>8. CASE St_loop
  BY <1>0, <1>8 DEF St_loop, StAt, StKeeps
<1>9. CASE St_reset \/ St_fulfil
  BY <1>0, <1>9 DEF St_reset, St_fulfil, StAt, StKeeps, loopvars
<1>10. CASE St_unlock
  BY <1>0, <1>10 DEF St_unlock, StAt, StKeeps, loopvars
<1>11. CASE Lp_init \/ Lp_run \/ Lp_end
  <2>1. UNCHANGED <<pc, st, m_running, http_pool, done>>
    BY <1>11 DEF Lp_init, Lp_run, Lp_end, LpKeeps, procvars
  <2> QED BY <1>0, <2>1
<1> HIDE DEF Goal
<1> QED
  BY <1>1, <1>2, <1>3, <1>4, <1>5, <1>6, <1>7, <1>8, <1>9, <1>10, <1>11, NextActions DEF Goal

LEMMA Invariance == Spec => []IInv
<1>1. Init => IInv
  BY InitIInv
<1>2. IInv /\ [Next]_vars => IInv'
  <2> SUFFICES ASSUME IInv, [Next]_vars
               PROVE  IInv'
    OBVIOUS
  <2>1. CASE Next
    <3>1. TypeOK'
      BY <2>1, TypeParts, StepPcTypeOK, StepFlagTypes, StepPointTypes DEF IInv
    <3> QED BY <2>1, <3>1, StepOneRun, StepNoUseAfterClear, StepRelay DEF IInv
  <2>2. CASE UNCHANGED vars
    <3> USE <2>2 DEF vars, procvars, poolvars, loopvars
    <3>1. TypeOK'
      <4>1. PcTypeOK' /\ FlagTypes' /\ PointTypes'
        BY TypeParts DEF IInv, PcTypeOK, FlagTypes, PointTypes
      <4> QED BY <4>1, TypeParts
    <3>2. OneRun' /\ NoUseAfterClear' /\ Relay' /\ (done => ~http_pool)'
      BY DEF IInv, OneRun, NoUseAfterClear, Busy, Relay, Joined, Cleared
    <3> QED BY <3>1, <3>2 DEF IInv
  <2> QED BY <2>1, <2>2
<1> QED BY <1>1, <1>2, PTL DEF Spec

-----------------------------------------------------------------------------
(* Every variable of the server keeps its type. *)
THEOREM TypeCorrect == Spec => []TypeOK
<1>1. IInv => TypeOK
  BY DEF IInv
<1> QED BY <1>1, Invariance, PTL

(* pool() and the stop thread hand m_running to each other: no two runs of *)
(* the server overlap.                                                     *)
THEOREM RunsDoNotOverlap == Spec => []OneRun
<1>1. IInv => OneRun
  BY DEF IInv
<1> QED BY <1>1, Invariance, PTL

(* stop_pool clears the http_pools only when no request handler executes   *)
(* and the event-loop thread is gone.                                      *)
THEOREM PoolOutlivesUsers == Spec => []NoUseAfterClear
<1>1. IInv => NoUseAfterClear
  BY DEF IInv
<1> QED BY <1>1, Invariance, PTL

(* When the future that pool() returned is ready, the server is down.      *)
THEOREM FutureIsTrue == Spec => []FutureMeansDown
<1>1. IInv => FutureMeansDown
  BY DEF IInv, NoUseAfterClear, FutureMeansDown
<1> QED BY <1>1, Invariance, PTL

(* stop(true), called from outside the server, returns only when no stop   *)
(* thread, request handler or event-loop thread is left.                   *)
THEOREM StopIsSynchronous == Spec => StopWaits
<1> DEFINE Waits == \A c \in Callers : pc[c] = "wait" /\ pc'[c] = "idle" =>
                      st = "none" /\ Busy = {} /\ lp = "none"
<1>1. ASSUME IInv, [Next]_vars
      PROVE  Waits
  <2> SUFFICES ASSUME NEW c \in Callers, pc[c] = "wait", pc'[c] = "idle"
               PROVE  st = "none" /\ Busy = {} /\ lp = "none"
    OBVIOUS
  <2>0. PcTypeOK /\ Relay /\ NoUseAfterClear
    BY <1>1, TypeParts DEF IInv
  <2>1. CASE ~m_running
    BY <2>0, <2>1 DEF Relay, NoUseAfterClear
  <2>2. ASSUME NEW t \in Callers \cup Handlers,
               \/ t \in Callers /\ (Pool_lock(t) \/ Pool_init(t) \/ Pool_run(t))
               \/ Stop_set(t) \/ Stop_notify(t) \/ Stop_return(t)
               \/ t \in Callers /\ Pool_get(t)
               \/ t \in Handlers /\ HandlerMove(t)
        PROVE  ~m_running
    <3>1. t = c
      BY <2>0, <2>2, GotoMoves
         DEF Pool_lock, Pool_init, Pool_run, procvars, Stop_set, Stop_notify, Stop_return, Pool_get,
             HandlerMove, Handler_begins, Handler_ends, Handler_leaves, Handler_woken
    <3> QED BY <2>2, <3>1, ServerAssumption
            DEF Pool_lock, Pool_init, Pool_run, Stop_set, Stop_notify, Stop_return, Pool_get
  <2>3. ~ UNCHANGED pc
    OBVIOUS
  <2>4. ~ StopThread /\ ~ LoopThread /\ ~ UNCHANGED vars
    BY <2>3 DEF StopThread, LoopThread, St_test, St_wait, St_tasks, St_join, St_pools, St_loop,
                St_reset, St_fulfil, St_unlock, StKeeps, Lp_init, Lp_run, Lp_end, LpKeeps,
                vars, procvars
  <2> QED BY <1>1, <2>1, <2>2, <2>4, NextActions DEF StopThread, LoopThread
<1> QED BY <1>1, Invariance, PTL DEF Spec, StopWaits
=================================================================================
