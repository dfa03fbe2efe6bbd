----------------------------- MODULE TimerPool -----------------------------
(***************************************************************************)
(* The timers of src/src/ManapiTimerPool.cpp on the task pool they run in. *)
(*                                                                         *)
(* The loop of the timer pool is itself a task: timer_pool_setup           *)
(* (src/src/ManapiSite.cpp) appends it, and it occupies a worker until     *)
(* is_stop.  Each lap scans the map of timers under mx, appends the        *)
(* callbacks of the due ones to the same task pool, and sleeps.  The task  *)
(* pool is the abstract TaskPool, which ThreadPool implements.             *)
(*                                                                         *)
(* A member of Timers is one registration, that is one call of             *)
(* append_timer; the number the call returns is its id.  mx is held for    *)
(* the whole scan and, elsewhere, for one step: it has no variable, the    *)
(* other operations wait for phase # "scan".                               *)
(***************************************************************************)
EXTENDS Naturals, FiniteSets, Functions

CONSTANTS
  Timers,     \* the registrations of the run
  Loop,       \* the task that executes timerpool::doit
  Width,      \* the number of workers of the task pool
  Durations,  \* the durations timers are registered with
  MaxId,      \* ULLONG_MAX: the value at which index wraps
  MaxClock    \* bound: the last instant of the run

ASSUME TimerAssumption ==
  /\ Loop \notin Timers
  /\ Width \in Nat \ {0}
  /\ Durations \subseteq Nat
  /\ MaxId \in Nat \ {0, 1}
  /\ MaxClock \in Nat

VARIABLES
  tasks,    \* id -> registration: the map of pending timers
  index,    \* the next id to try
  is_stop,  \* the flag timerpool::stop raises
  point,    \* history: when each registration is due
  used,     \* history: the registrations made
  clock,    \* the time
  phase,    \* where the loop is: "off", "top", "scan", "sleep"
  todo,     \* the ids the scan has not visited yet
  now,      \* the time the scan compares with
  began,    \* history: when the scan began
  closed, joined, state  \* the task pool

loopvars == <<phase, todo, now, began>>
poolvars == <<closed, joined, state>>
timevars == <<tasks, index, point, used>>
vars     == <<timevars, is_stop, clock, loopvars, poolvars>>

Pool == INSTANCE TaskPool WITH Tasks <- Timers \cup {Loop}

Ids == 0 .. MaxId - 1

Init ==
  /\ tasks = [i \in {} |-> Loop]
  /\ index = 1
  /\ is_stop = FALSE
  /\ point = [t \in Timers |-> 0]
  /\ used = {}
  /\ clock = 0
  /\ phase = "off"
  /\ todo = {}
  /\ now = 0
  /\ began = 0
  /\ closed = FALSE
  /\ joined = FALSE
  /\ state = [t \in Timers \cup {Loop} |-> IF t = Loop THEN "pending" ELSE "fresh"]

-----------------------------------------------------------------------------
(* Mutant of FreeId: an id in use is not skipped. *)
AnyId == index

(* The loop at the head of append_timer: the first id at or after index    *)
(* that no pending timer has, continuing from 0 after the largest.         *)
Least(S) == CHOOSE i \in S : \A j \in S : i <= j

FreeId ==
  LET free  == Ids \ DOMAIN tasks
      after == {i \in free : i >= index}
  IN  Least(IF after # {} THEN after ELSE free)

(* index skips 0 when it wraps after the insertion. *)
NextIndex == IF FreeId + 1 = MaxId THEN 1 ELSE FreeId + 1

(* append_timer, under mx. *)
Append_timer(t, d) ==
  /\ phase # "scan"
  /\ t \notin used
  /\ Ids \ DOMAIN tasks # {}
  /\ clock + d <= MaxClock
  /\ used' = used \cup {t}
  /\ point' = [point EXCEPT ![t] = clock + d]
  /\ tasks' = [i \in DOMAIN tasks \cup {FreeId} |-> IF i = FreeId THEN t ELSE tasks[i]]
  /\ index' = NextIndex
  /\ UNCHANGED <<is_stop, clock, loopvars, poolvars>>

(* Mutant of Remove_timer: the lock is not taken. *)
RemoveUnlocked(id) ==
  /\ id # 0
  /\ tasks' = Restrict(tasks, DOMAIN tasks \ {id})
  /\ UNCHANGED <<index, point, used, is_stop, clock, loopvars, poolvars>>

(* remove_timer: id 0 is ignored; an id that is not in the map changes     *)
(* nothing.                                                                *)
Remove_timer(id) ==
  /\ id # 0
  /\ phase # "scan"
  /\ tasks' = Restrict(tasks, DOMAIN tasks \ {id})
  /\ UNCHANGED <<index, point, used, is_stop, clock, loopvars, poolvars>>

-----------------------------------------------------------------------------
(* A worker takes the loop's task, or a callback. *)
Run(t) ==
  /\ Pool!Begin(t)
  /\ phase' = IF t = Loop THEN "top" ELSE phase
  /\ UNCHANGED <<timevars, is_stop, clock, todo, now, began>>

Callback_ends(t) ==
  /\ t # Loop
  /\ Pool!End(t)
  /\ UNCHANGED <<timevars, is_stop, clock, loopvars>>

(* start: the loop condition, and on entry the lock and the time. *)
Lap ==
  /\ phase = "top"
  /\ ~is_stop
  /\ phase' = "scan"
  /\ todo' = DOMAIN tasks
  /\ now' = clock
  /\ began' = clock
  /\ UNCHANGED <<timevars, is_stop, clock, poolvars>>

Leave ==
  /\ phase = "top"
  /\ is_stop
  /\ phase' = "off"
  /\ Pool!End(Loop)
  /\ UNCHANGED <<timevars, is_stop, clock, todo, now, began>>

(* Mutant of Due: the comparison is off by one tick. *)
DueSoon(id) == now + 1 >= point[tasks[id]]

Due(id) == now >= point[tasks[id]]

(* Mutant of HandOver: the timer stays in the map. *)
HandOverKeeps(id) ==
  /\ Pool!Submit(tasks[id])
  /\ todo' = todo \ {id}
  /\ now' = clock
  /\ UNCHANGED tasks

(* Mutant of HandOver: the iterator is advanced after the erase as well,   *)
(* so one more timer is not looked at.                                     *)
HandOverSkips(id) ==
  /\ Pool!Submit(tasks[id])
  /\ tasks' = Restrict(tasks, DOMAIN tasks \ {id})
  /\ now' = clock
  /\ \/ todo = {id} /\ todo' = {}
     \/ \E next \in todo \ {id} : todo' = todo \ {id, next}

(* A due timer: its callback is appended to the task pool (which refuses   *)
(* when it is closed; nobody looks), now is read again, the timer erased.  *)
HandOver(id) ==
  /\ Pool!Submit(tasks[id])
  /\ tasks' = Restrict(tasks, DOMAIN tasks \ {id})
  /\ todo' = todo \ {id}
  /\ now' = clock

(* One turn of the scan, in the arbitrary order of the unordered_map. *)
Visit(id) ==
  /\ phase = "scan"
  /\ id \in todo
  /\ \/ /\ Due(id)
        /\ HandOver(id)
     \/ /\ ~Due(id)
        /\ todo' = todo \ {id}
        /\ UNCHANGED <<tasks, now, poolvars>>
  /\ UNCHANGED <<index, point, used, is_stop, clock, phase, began>>

(* The lock is released; the loop sleeps for delay, then starts over. *)
Sleep ==
  /\ phase = "scan"
  /\ todo = {}
  /\ phase' = "sleep"
  /\ UNCHANGED <<timevars, is_stop, clock, todo, now, began, poolvars>>

(* Mutant of Awaken: the loop body is executed once only. *)
AwakenOnce ==
  /\ phase = "sleep"
  /\ phase' = "off"
  /\ UNCHANGED <<timevars, is_stop, clock, todo, now, began, poolvars>>

Awaken ==
  /\ phase = "sleep"
  /\ phase' = "top"
  /\ UNCHANGED <<timevars, is_stop, clock, todo, now, began, poolvars>>

-----------------------------------------------------------------------------
(* http::stop_pool: first timer_pool_stop ... *)
StopTimers ==
  /\ is_stop' = TRUE
  /\ UNCHANGED <<timevars, clock, loopvars, poolvars>>

(* Mutant of ClosePool: the pool is closed before the timers are stopped. *)
CloseFirst ==
  /\ Pool!Close
  /\ UNCHANGED <<timevars, is_stop, clock, loopvars>>

(* ... then tasks_pool_stop: close the pool and wait for its workers. *)
ClosePool ==
  /\ is_stop
  /\ Pool!Close
  /\ UNCHANGED <<timevars, is_stop, clock, loopvars>>

JoinPool ==
  /\ Pool!Join
  /\ UNCHANGED <<timevars, is_stop, clock, loopvars>>

Tick ==
  /\ clock < MaxClock
  /\ clock' = clock + 1
  /\ UNCHANGED <<timevars, is_stop, loopvars, poolvars>>

LoopStep == Lap \/ Leave \/ Sleep \/ Awaken \/ (\E id \in Ids : Visit(id))

Next ==
  \/ \E t \in Timers, d \in Durations : Append_timer(t, d)
  \/ \E id \in DOMAIN tasks : Remove_timer(id)
  \/ \E t \in Timers \cup {Loop} : Run(t) \/ Callback_ends(t)
  \/ LoopStep
  \/ StopTimers \/ ClosePool \/ JoinPool
  \/ Tick

Spec == Init /\ [][Next]_vars

(* Time passes, a running loop and a running callback make progress, and a *)
(* stop that was begun closes the pool.  Nothing obliges the pool to take  *)
(* a task, nor its join to end: a worker that misses the notify_all of the *)
(* stop never leaves (see ThreadPool).  No client is obliged to call, and  *)
(* the server need not stop.                                               *)
Fairness ==
  /\ WF_vars(Tick)
  /\ WF_vars(LoopStep)
  /\ \A t \in Timers : WF_vars(Callback_ends(t))
  /\ WF_vars(ClosePool)

FairSpec == Spec /\ Fairness

-----------------------------------------------------------------------------
Pending(t) == \E id \in DOMAIN tasks : tasks[id] = t

(* Every variable has its type. *)
TypeOK ==
  /\ DOMAIN tasks \subseteq Ids
  /\ \A id \in DOMAIN tasks : tasks[id] \in Timers
  /\ index \in Ids
  /\ is_stop \in BOOLEAN
  /\ point \in [Timers -> Nat]
  /\ used \subseteq Timers
  /\ clock \in Nat
  /\ phase \in {"off", "top", "scan", "sleep"}
  /\ todo \subseteq Ids
  /\ now \in Nat
  /\ began \in Nat
  /\ closed \in BOOLEAN
  /\ joined \in BOOLEAN
  /\ state \in [Timers \cup {Loop} -> Pool!States]

(* A pending timer is known under one id, and its callback has not been    *)
(* appended: reusing ids after the wrap never replaces a pending timer,    *)
(* and no callback is appended twice.                                      *)
PendingOnce ==
  /\ \A i, j \in DOMAIN tasks : tasks[i] = tasks[j] => i = j
  /\ \A id \in DOMAIN tasks : state[tasks[id]] = "fresh"

(* No timer is lost: one that is registered and not yet handed to the task *)
(* pool can only have left the map through remove_timer.                   *)
LostOnlyByRemoval ==
  [][\A t \in Timers : Pending(t) /\ ~Pending(t)' =>
       state'[t] # "fresh" \/ \E id \in DOMAIN tasks : Remove_timer(id)]_vars

(* A callback is never appended before its time. *)
NeverEarly == \A t \in Timers : state[t] # "fresh" => clock >= point[t]

(* What the scan iterates over stays in the map until it is visited: no    *)
(* other thread erases or replaces an element under the iterator.          *)
IteratorValid == phase = "scan" => todo \subseteq DOMAIN tasks

(* A lap misses nobody: when it ends, every timer that was due when it     *)
(* began has been handed to the task pool.                                 *)
LapComplete ==
  phase = "scan" => \A id \in DOMAIN tasks \ todo : point[tasks[id]] > began

(* Once the task pool is joined, neither the loop nor a callback runs. *)
JoinedIsQuiet == joined => phase = "off" /\ Pool!Running = {}

(* While the loop runs, every timer is handed over in time, unless it is   *)
(* removed or the server stops.                                            *)
HandedOver ==
  \A t \in Timers : (Pending(t) /\ phase # "off") ~> (~Pending(t) \/ is_stop)

(* The loop, which keeps a worker busy until is_stop, is no obstacle to    *)
(* stopping: once the pool is closed, the loop and every callback, one     *)
(* that a worker still took after the close included, leave their workers  *)
(* for good.  That the join then ends is not promised.                     *)
StopQuiets == closed ~> [](phase = "off" /\ Pool!Running = {})
=============================================================================
