----------------------------- MODULE ThreadPool -----------------------------
(***************************************************************************)
(* The worker pool of src/src/ManapiThreadPool.cpp, with the join that     *)
(* src/src/ManapiSite.cpp performs on it.                                  *)
(*                                                                         *)
(* A pool has thread_number worker threads, a vector of task queues served *)
(* from the highest level down, one condition variable and a flag is_stop. *)
(* Client threads stand for every caller of append_task: the event loops,  *)
(* and also a task that appends another one while a worker executes it     *)
(* (the worker then simply stays in doit while the client makes the call). *)
(*                                                                         *)
(* The body of getTask and the insertion of append_task each run under     *)
(* queue_mutex and touch nothing else, so each is one step and the mutex   *)
(* has no variable.  The mutex m given to cv.wait is taken by no notifier; *)
(* it orders nothing and has no variable either.  is_stop is a plain bool  *)
(* read in a loop that contains lock operations, which the compiler cannot *)
(* move the read across: it is modelled as an atomic flag.                 *)
(***************************************************************************)
EXTENDS Naturals, Sequences, FiniteSets

CONSTANTS
  Workers,      \* the thread_number threads that execute run()
  Clients,      \* the threads that call append_task
  Spawned,      \* identities for the threads append_task may detach
  Tasks,        \* the tasks of the run
  Lasting,      \* those that run until the server is stopped: the timer loop
  Null,         \* the empty unique_ptr
  QueuesCount,  \* the number of task queues
  LevelOf,      \* the level each task is appended with
  MaxRetries    \* bound: how often one task may ask to be retried

Threads == Workers \cup Clients \cup Spawned
Levels  == 0 .. QueuesCount - 1

ASSUME PoolAssumption ==
  /\ IsFiniteSet(Workers)
  /\ Workers # {}
  /\ Workers \cap Clients = {}
  /\ Workers \cap Spawned = {}
  /\ Clients \cap Spawned = {}
  /\ Null \notin Tasks \cup Clients
  /\ QueuesCount \in Nat \ {0}
  /\ LevelOf \in [Tasks -> Nat]
  /\ MaxRetries \in Nat

ASSUME LastingAssumption == Lasting \subseteq Tasks

VARIABLES
  is_stop,      \* the flag stop() raises
  task_queues,  \* level -> tasks, oldest first (push_front, take from back)
  pc,           \* where each thread is
  arg,          \* the task whose unique_ptr the thread holds, or Null
  param,        \* spawned thread -> client whose parameter it refers to
  stopped,      \* the counter of workers that left run()
  stopper,      \* where the thread in tasks_pool_stop is
  fate,         \* history: what has become of each task
  retries       \* history: how often each task was appended again

vars == <<is_stop, task_queues, pc, arg, param, stopped, stopper, fate, retries>>

WorkerPC == {"check", "get", "park", "parked", "doit", "push", "notify", "exited"}
ClientPC == {"idle", "push", "notify", "return"}
SpawnPC  == {"none", "steal", "dangling", "doit", "push", "notify", "ended"}

-----------------------------------------------------------------------------
(* Mutant of Home: a worker waits after every task.                        *)
HomeWaits(th) == IF th \in Workers THEN "park" ELSE "idle"

(* Where a thread continues when the call it is in returns. *)
Home(th) == IF th \in Workers THEN "check"
            ELSE IF th \in Clients THEN "idle" ELSE "ended"

(* task_doit appends with the default level, clients with their own. *)
AppendLevel(th) == IF th \in Clients THEN LevelOf[arg[th]] ELSE 0

Queued(t) == \E l \in Levels : \E i \in DOMAIN task_queues[l] : task_queues[l][i] = t
Waiting   == {w \in Workers : pc[w] = "parked"}

Init ==
  /\ is_stop = FALSE
  /\ task_queues = [l \in Levels |-> <<>>]
  /\ pc = [th \in Threads |-> IF th \in Spawned THEN "none" ELSE Home(th)]
  /\ arg = [th \in Threads |-> Null]
  /\ param = [s \in Spawned |-> Null]
  /\ stopped = 0
  /\ stopper = "idle"
  /\ fate = [t \in Tasks |-> "fresh"]
  /\ retries = [t \in Tasks |-> 0]

-----------------------------------------------------------------------------
(* Mutant of Append_task: is_stop is not tested. *)
AppendUnchecked(c, t) ==
  /\ pc[c] = "idle"
  /\ fate[t] = "fresh"
  /\ fate' = [fate EXCEPT ![t] = "live"]
  /\ pc' = [pc EXCEPT ![c] = "push"]
  /\ arg' = [arg EXCEPT ![c] = t]
  /\ UNCHANGED <<is_stop, task_queues, param, stopped, stopper, retries>>

(* append_task: the test of is_stop, made before the mutex is taken.  A    *)
(* refused task is destroyed with the parameter that owns it.              *)
Append_task(c, t) ==
  /\ pc[c] = "idle"
  /\ fate[t] = "fresh"
  /\ \/ /\ is_stop
        /\ fate' = [fate EXCEPT ![t] = "refused"]
        /\ UNCHANGED <<pc, arg>>
     \/ /\ ~is_stop
        /\ fate' = [fate EXCEPT ![t] = "live"]
        /\ pc' = [pc EXCEPT ![c] = "push"]
        /\ arg' = [arg EXCEPT ![c] = t]
  /\ UNCHANGED <<is_stop, task_queues, param, stopped, stopper, retries>>

(* push_front under queue_mutex.  is_stop is not read again. *)
Push(th) ==
  /\ pc[th] = "push"
  /\ AppendLevel(th) < QueuesCount
  /\ task_queues' = [task_queues EXCEPT ![AppendLevel(th)] = Append(@, arg[th])]
  /\ arg' = [arg EXCEPT ![th] = Null]
  /\ pc' = [pc EXCEPT ![th] = "notify"]
  /\ UNCHANGED <<is_stop, param, stopped, stopper, fate, retries>>

(* A level without a queue: a detached thread that captures the parameter  *)
(* of append_task by reference.                                            *)
PushDetached(c, s) ==
  /\ pc[c] = "push"
  /\ pc[s] = "none"
  /\ AppendLevel(c) >= QueuesCount
  /\ param' = [param EXCEPT ![s] = c]
  /\ pc' = [pc EXCEPT ![c] = "return", ![s] = "steal"]
  /\ UNCHANGED <<is_stop, task_queues, arg, stopped, stopper, fate, retries>>

(* The detached thread moves the task out of the caller's parameter. *)
Steal(s) ==
  /\ pc[s] = "steal"
  /\ arg' = [arg EXCEPT ![s] = arg[param[s]], ![param[s]] = Null]
  /\ pc' = [pc EXCEPT ![s] = "doit"]
  /\ UNCHANGED <<is_stop, task_queues, param, stopped, stopper, fate, retries>>

(* append_task returns: its parameter, and a task still in it, is          *)
(* destroyed.  A detached thread that has not moved the task refers to     *)
(* dead storage from now on.                                               *)
Return(c) ==
  /\ pc[c] = "return"
  /\ fate' = [t \in Tasks |-> IF t = arg[c] THEN "destroyed" ELSE fate[t]]
  /\ arg' = [arg EXCEPT ![c] = Null]
  /\ pc' = [th \in Threads |->
              IF th = c THEN "idle"
              ELSE IF th \in Spawned /\ pc[th] = "steal" /\ param[th] = c THEN "dangling"
              ELSE pc[th]]
  /\ UNCHANGED <<is_stop, task_queues, param, stopped, stopper, retries>>

(* The detached thread reads the dead parameter.  Undefined: whatever it   *)
(* then executes is no task of the pool.                                   *)
Dangle(s) ==
  /\ pc[s] = "dangling"
  /\ pc' = [pc EXCEPT ![s] = "ended"]
  /\ UNCHANGED <<is_stop, task_queues, arg, param, stopped, stopper, fate, retries>>

(* cv.notify_one: some waiter, or nobody when none waits. *)
Notify(th) ==
  /\ pc[th] = "notify"
  /\ \/ /\ Waiting = {}
        /\ pc' = [pc EXCEPT ![th] = Home(th)]
     \/ \E w \in Waiting : pc' = [pc EXCEPT ![th] = Home(th), ![w] = "check"]
  /\ UNCHANGED <<is_stop, task_queues, arg, param, stopped, stopper, fate, retries>>

-----------------------------------------------------------------------------
(* run: the loop condition; leaving the loop increments stopped. *)
Check(w) ==
  /\ pc[w] = "check"
  /\ \/ /\ is_stop
        /\ stopped' = stopped + 1
        /\ pc' = [pc EXCEPT ![w] = "exited"]
     \/ /\ ~is_stop
        /\ pc' = [pc EXCEPT ![w] = "get"]
        /\ UNCHANGED stopped
  /\ UNCHANGED <<is_stop, task_queues, arg, param, stopper, fate, retries>>

(* Mutant of Served: the levels are searched from the lowest. *)
ServedLowest(l) ==
  /\ task_queues[l] # <<>>
  /\ \A h \in Levels : h < l => task_queues[h] = <<>>

(* The highest level that has a task. *)
Served(l) ==
  /\ task_queues[l] # <<>>
  /\ \A h \in Levels : h > l => task_queues[h] = <<>>

(* Mutant of GetTask: the task is read, pop_back is missing. *)
GetTaskKeeps(w) ==
  /\ pc[w] = "get"
  /\ \/ /\ \A l \in Levels : task_queues[l] = <<>>
        /\ pc' = [pc EXCEPT ![w] = "park"]
        /\ UNCHANGED arg
     \/ \E l \in Levels :
          /\ Served(l)
          /\ arg' = [arg EXCEPT ![w] = Head(task_queues[l])]
          /\ pc' = [pc EXCEPT ![w] = "doit"]
  /\ UNCHANGED <<is_stop, task_queues, param, stopped, stopper, fate, retries>>

(* getTask under queue_mutex: the oldest task of the highest level. *)
GetTask(w) ==
  /\ pc[w] = "get"
  /\ \/ /\ \A l \in Levels : task_queues[l] = <<>>
        /\ pc' = [pc EXCEPT ![w] = "park"]
        /\ UNCHANGED <<arg, task_queues>>
     \/ \E l \in Levels :
          /\ Served(l)
          /\ arg' = [arg EXCEPT ![w] = Head(task_queues[l])]
          /\ task_queues' = [task_queues EXCEPT ![l] = Tail(@)]
          /\ pc' = [pc EXCEPT ![w] = "doit"]
  /\ UNCHANGED <<is_stop, param, stopped, stopper, fate, retries>>

(* cv.wait with no predicate: what happened since getTask is not seen. *)
Park(w) ==
  /\ pc[w] = "park"
  /\ pc' = [pc EXCEPT ![w] = "parked"]
  /\ UNCHANGED <<is_stop, task_queues, arg, param, stopped, stopper, fate, retries>>

(* A condition variable may wake a waiter on its own. *)
SpuriousWake(w) ==
  /\ pc[w] = "parked"
  /\ pc' = [pc EXCEPT ![w] = "check"]
  /\ UNCHANGED <<is_stop, task_queues, arg, param, stopped, stopper, fate, retries>>

(* Mutant of Doit: to_retry is reset, the task is not appended again. *)
DoitForgets(th) ==
  /\ pc[th] = "doit"
  /\ \/ fate' = [fate EXCEPT ![arg[th]] = "done"] /\ UNCHANGED retries
     \/ /\ retries[arg[th]] < MaxRetries
        /\ retries' = [retries EXCEPT ![arg[th]] = @ + 1]
        /\ UNCHANGED fate
  /\ arg' = [arg EXCEPT ![th] = Null]
  /\ pc' = [pc EXCEPT ![th] = Home(th)]
  /\ UNCHANGED <<is_stop, task_queues, param, stopped, stopper>>

(* task_doit ends the task (its exceptions are caught), or appends it      *)
(* again when it set to_retry; the result of that append_task is ignored.  *)
Doit(th) ==
  /\ pc[th] = "doit"
  /\ LET t == arg[th] IN
     \/ /\ fate' = [fate EXCEPT ![t] = "done"]
        /\ arg' = [arg EXCEPT ![th] = Null]
        /\ pc' = [pc EXCEPT ![th] = Home(th)]
        /\ UNCHANGED retries
     \/ /\ retries[t] < MaxRetries
        /\ retries' = [retries EXCEPT ![t] = @ + 1]
        /\ \/ /\ is_stop
              /\ fate' = [fate EXCEPT ![t] = "refused"]
              /\ arg' = [arg EXCEPT ![th] = Null]
              /\ pc' = [pc EXCEPT ![th] = Home(th)]
           \/ /\ ~is_stop
              /\ pc' = [pc EXCEPT ![th] = "push"]
              /\ UNCHANGED <<fate, arg>>
  /\ UNCHANGED <<is_stop, task_queues, param, stopped, stopper>>

-----------------------------------------------------------------------------
(* site::tasks_pool_stop: threadpool::stop raises the flag ... *)
Stop ==
  /\ stopper = "idle"
  /\ is_stop' = TRUE
  /\ stopper' = "notify"
  /\ UNCHANGED <<task_queues, pc, arg, param, stopped, fate, retries>>

(* Mutant of NotifyAll: cv.notify_one. *)
NotifyAnyone ==
  /\ stopper = "notify"
  /\ \/ Waiting = {} /\ UNCHANGED pc
     \/ \E w \in Waiting : pc' = [pc EXCEPT ![w] = "check"]
  /\ stopper' = "spin"
  /\ UNCHANGED <<is_stop, task_queues, arg, param, stopped, fate, retries>>

(* ... then cv.notify_all wakes those that wait at that moment ... *)
NotifyAll ==
  /\ stopper = "notify"
  /\ pc' = [th \in Threads |-> IF th \in Waiting THEN "check" ELSE pc[th]]
  /\ stopper' = "spin"
  /\ UNCHANGED <<is_stop, task_queues, arg, param, stopped, fate, retries>>

(* Mutant of All_tasks_stopped: one worker too early. *)
AllButOneStopped == stopped + 1 >= Cardinality(Workers)

All_tasks_stopped == stopped >= Cardinality(Workers)

(* ... and the caller spins until every worker has left run(). *)
Join ==
  /\ stopper = "spin"
  /\ All_tasks_stopped
  /\ stopper' = "joined"
  /\ UNCHANGED <<is_stop, task_queues, pc, arg, param, stopped, fate, retries>>

-----------------------------------------------------------------------------
WorkerStep(w) == Check(w) \/ GetTask(w) \/ Park(w) \/ Doit(w) \/ Push(w) \/ Notify(w)
ClientStep(c) == Push(c) \/ Notify(c) \/ Return(c) \/ (\E s \in Spawned : PushDetached(c, s))
SpawnStep(s)  == Steal(s) \/ Dangle(s) \/ Doit(s) \/ Push(s) \/ Notify(s)
StopStep      == NotifyAll \/ Join

Next ==
  \/ \E c \in Clients, t \in Tasks : Append_task(c, t)
  \/ \E c \in Clients : ClientStep(c)
  \/ \E w \in Workers : WorkerStep(w) \/ SpuriousWake(w)
  \/ \E s \in Spawned : SpawnStep(s)
  \/ Stop
  \/ StopStep

Spec == Init /\ [][Next]_vars

(* A task ends, but one that lasts need not before the server stops: the   *)
(* timer pool's loop is told to end just before tasks_pool_stop is called. *)
Ends(th) == Doit(th) /\ (arg[th] \in Lasting => stopper # "idle")

WorkerTurn(w) == Check(w) \/ GetTask(w) \/ Park(w) \/ Ends(w) \/ Push(w) \/ Notify(w)
SpawnTurn(s)  == Steal(s) \/ Dangle(s) \/ Ends(s) \/ Push(s) \/ Notify(s)

(* Every running thread makes progress: the operating system schedules it, *)
(* and tasks end as above.  Nothing obliges a client to append, the server *)
(* to stop, or a condition variable to wake anyone by itself.              *)
Fairness ==
  /\ \A w \in Workers : WF_vars(WorkerTurn(w))
  /\ \A c \in Clients : WF_vars(ClientStep(c))
  /\ \A s \in Spawned : WF_vars(SpawnTurn(s))
  /\ WF_vars(StopStep)

FairSpec == Spec /\ Fairness

-----------------------------------------------------------------------------
(* The program points a thread of each kind can be at. *)
PCTypeOK ==
  /\ pc \in [Threads -> WorkerPC \cup ClientPC \cup SpawnPC]
  /\ \A w \in Workers : pc[w] \in WorkerPC
  /\ \A c \in Clients : pc[c] \in ClientPC
  /\ \A s \in Spawned : pc[s] \in SpawnPC

(* Every variable has its type. *)
TypeOK ==
  /\ is_stop \in BOOLEAN
  /\ task_queues \in [Levels -> Seq(Tasks)]
  /\ PCTypeOK
  /\ arg \in [Threads -> Tasks \cup {Null}]
  /\ param \in [Spawned -> Clients \cup {Null}]
  /\ stopped \in Nat
  /\ stopper \in {"idle", "notify", "spin", "joined"}
  /\ fate \in [Tasks -> {"fresh", "live", "done", "refused", "destroyed"}]
  /\ retries \in [Tasks -> 0 .. MaxRetries]

(* A task is in one place only: one position of one queue, or the hands of *)
(* one thread.  So no two workers ever execute the same task, and none is  *)
(* executed while it is still queued or being appended again.              *)
OneOwner ==
  /\ \A a, b \in Threads : arg[a] # Null /\ arg[a] = arg[b] => a = b
  /\ \A k, l \in Levels : \A i \in DOMAIN task_queues[k], j \in DOMAIN task_queues[l] :
       task_queues[k][i] = task_queues[l][j] => k = l /\ i = j
  /\ \A th \in Threads, l \in Levels : \A i \in DOMAIN task_queues[l] :
       arg[th] # task_queues[l][i]

(* No accepted task is forgotten: until it is done, refused or destroyed   *)
(* it is queued or in the hands of a thread, through every hand-over       *)
(* between append_task, getTask, task_doit and the retry.                  *)
NoneForgotten ==
  \A t \in Tasks : fate[t] = "live" => Queued(t) \/ \E th \in Threads : arg[th] = t

(* What tasks_pool_stop relies on before the server tears its pools down:  *)
(* once all_tasks_stopped answers true, every worker has left run() and    *)
(* none of them executes a task or will take another one.                  *)
AllStoppedQuiescent ==
  All_tasks_stopped => \A w \in Workers : pc[w] = "exited" /\ arg[w] = Null

(* A task that is queued while another one of the same level precedes it,  *)
(* or while a higher level has one, is not taken before that other task.   *)
Precedes(t, u) ==
  \E k, l \in Levels : \E i \in DOMAIN task_queues[k], j \in DOMAIN task_queues[l] :
    /\ task_queues[k][i] = t /\ task_queues[l][j] = u
    /\ k > l \/ (k = l /\ i < j)

TakenInOrder ==
  [][\A t, u \in Tasks : Precedes(t, u) /\ Queued(t)' => Queued(u)']_vars

(* As long as one worker is awake, the pool serves: the first task of the  *)
(* queues is taken, or gives way to one of a higher level, while a worker  *)
(* is on its way through run() or executes a task that ends, unless the    *)
(* pool is stopped first.  A worker in the timer loop serves nobody, and   *)
(* workers that are all inside the window between getTask and cv.wait, or  *)
(* past it, leave a task behind.  Nothing is promised to a task of a lower *)
(* level while a higher one is fed.                                        *)
Awake(w) == pc[w] \in {"check", "get", "doit", "push", "notify"} /\ arg[w] \notin Lasting

First(t) == \E l \in Levels : Served(l) /\ Head(task_queues[l]) = t

BusyWorkerServes ==
  \A t \in Tasks : (First(t) /\ \E w \in Workers : Awake(w)) ~> (~First(t) \/ is_stop)

(* stop() reaches every worker that is not between the loop condition and  *)
(* cv.wait at that moment: those that execute a task and those that        *)
(* already wait leave run() eventually.                                    *)
StopReachesOthers ==
  \A w \in Workers :
    (stopper = "notify" /\ pc[w] \notin {"get", "park"}) ~> pc[w] = "exited"

(* The comment at line 81 of the pool: appending wakes the thread waiting  *)
(* for the task.  So a task is never left in a queue with every worker     *)
(* waiting and no notification on its way.                                 *)
NoStrandedTask ==
  ~ /\ \E t \in Tasks : Queued(t)
    /\ ~is_stop
    /\ Waiting = Workers
    /\ \A th \in Threads : pc[th] # "notify"

-----------------------------------------------------------------------------
(* The pool implements the promise of TaskPool, for tasks whose level has  *)
(* a queue: a task runs while a worker is in its doit, and is pending from *)
(* the test of is_stop until a worker takes it.                            *)
Executing(t) == \E w \in Workers : pc[w] = "doit" /\ arg[w] = t

StateOf == [t \in Tasks |-> IF fate[t] # "live" THEN fate[t]
                            ELSE IF Executing(t) THEN "running" ELSE "pending"]

Joined == stopper = "joined"

Abstract == INSTANCE TaskPool WITH
  Width  <- Cardinality(Workers),
  closed <- is_stop,
  joined <- Joined,
  state  <- StateOf

(* Refinement: every behaviour of the worker threads, the queues and the   *)
(* condition variable is one of the abstract pool.                         *)
ImplementsTaskPool == Abstract!Spec
=============================================================================
