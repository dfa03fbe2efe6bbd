---------------------------- MODULE TimerPoolProofs ----------------------------
(***************************************************************************)
(* Proofs, for every set of timers and of durations, every number of ids   *)
(* and every width of the task pool, of the safety properties that         *)
(* MCTimerPool checks on a small instance.                                 *)
(*                                                                         *)
(* The inductive invariant is TypeOK with three parts: Registered (what    *)
(* the map holds, and that nothing else has been appended), LoopTask (the  *)
(* loop's program point against the state of its task) and Scan (what a    *)
(* scan has seen so far).                                                  *)
(***************************************************************************)
EXTENDS TimerPool, FiniteSetTheorems, TLAPS

(* A pending timer is a registered one, known under one id, and neither it *)
(* nor a timer that was never registered has been appended; what has been  *)
(* appended was due.                                                       *)
Registered ==
  /\ \A id \in DOMAIN tasks : tasks[id] \in used
  /\ \A t \in Timers \ used : state[t] = "fresh"
  /\ PendingOnce
  /\ NeverEarly

(* The loop is at a point of its body exactly while its task runs, and a   *)
(* joined pool runs nothing.                                               *)
LoopTask ==
  /\ state[Loop] \in {"pending", "running", "done"}
  /\ phase # "off" <=> state[Loop] = "running"
  /\ joined => Pool!Running = {}

(* During a scan the time read is between its beginning and the present.   *)
Scan ==
  /\ phase = "scan" => began <= now /\ now <= clock
  /\ IteratorValid
  /\ LapComplete

IInv == TypeOK /\ Registered /\ LoopTask /\ Scan

(* The steps of the specification, one disjunct per action. *)
LEMMA NextActions ==
  ASSUME Next
  PROVE  \/ \E t \in Timers, d \in Durations : Append_timer(t, d)
         \/ \E id \in DOMAIN tasks : Remove_timer(id)
         \/ \E t \in Timers \cup {Loop} : Run(t)
         \/ \E t \in Timers \cup {Loop} : Callback_ends(t)
         \/ Lap
         \/ Leave
         \/ \E id \in Ids : Visit(id)
         \/ Sleep
         \/ Awaken
         \/ StopTimers
         \/ ClosePool
         \/ JoinPool
         \/ Tick
BY DEF Next, LoopStep

-----------------------------------------------------------------------------
(* Least is what its name says on every set of naturals that has a member: *)
(* of the initial segments 0 .. i, which are finite, one is minimal.       *)
LEMMA LeastIsLeast ==
  ASSUME NEW S, S \subseteq Nat, S # {}
  PROVE  Least(S) \in S /\ \A j \in S : Least(S) <= j
<1> DEFINE T == {0 .. i : i \in S}
<1>1. T \subseteq FiniteSubsetsOf(Nat) /\ T # {}
  <2>1. \A i \in S : 0 .. i \in SUBSET Nat /\ IsFiniteSet(0 .. i)
    BY FS_Interval
  <2> QED BY <2>1 DEF FiniteSubsetsOf
<1> HIDE DEF T
<1>2. PICK x \in T : \A y \in T : ~ (<<y, x>> \in StrictSubsetOrdering(Nat))
  BY <1>1, FS_StrictSubsetOrderingWellFounded, WFMin
<1>3. PICK m \in S : x = 0 .. m
  BY <1>2 DEF T
<1>4. ASSUME NEW j \in S
      PROVE  m <= j
  <2>1. m \in Nat /\ j \in Nat
    OBVIOUS
  <2>2. <<0 .. j, 0 .. m>> \notin StrictSubsetOrdering(Nat)
    <3>1. 0 .. j \in T
      BY DEF T
    <3> QED BY <1>2, <1>3, <3>1
  <2>3. CASE j < m
    <3>1. 0 .. j \in SUBSET Nat /\ 0 .. m \in SUBSET Nat /\ 0 .. j \subseteq 0 .. m
      BY <2>1, <2>3
    <3>2. m \in 0 .. m /\ m \notin 0 .. j
      BY <2>1, <2>3
    <3> QED BY <2>2, <3>1, <3>2 DEF StrictSubsetOrdering
  <2> QED BY <2>1, <2>3
<1>5. \E i \in S : \A j \in S : i <= j
  BY <1>4
<1> QED BY <1>5, Zenon DEF Least

(* The loop at the head of append_timer ends with an id no pending timer   *)
(* has, and the next id to try is an id again, never 0.                    *)
LEMMA FreeIdIsFree ==
  ASSUME TypeOK, Ids \ DOMAIN tasks # {}
  PROVE  FreeId \in Ids \ DOMAIN tasks /\ NextIndex \in Ids \ {0}
<1> DEFINE free  == Ids \ DOMAIN tasks
           after == {i \in free : i >= index}
<1>1. free \subseteq Nat /\ after \subseteq free /\ free # {}
  BY DEF Ids
<1>2. FreeId \in free
  <2> HIDE DEF free, after
  <2>1. CASE after # {}
    <3>1. Least(after) \in after
      BY <1>1, <2>1, LeastIsLeast
    <3>2. FreeId = Least(after)
      BY <2>1 DEF FreeId, free, after
    <3> QED BY <1>1, <3>1, <3>2
  <2>2. CASE after = {}
    <3>1. Least(free) \in free
      BY <1>1, LeastIsLeast
    <3>2. FreeId = Least(free)
      BY <2>2 DEF FreeId, free, after
    <3> QED BY <3>1, <3>2
  <2> QED BY <2>1, <2>2
<1> HIDE DEF after
<1>3. NextIndex \in Ids \ {0}
  BY <1>2, TimerAssumption DEF NextIndex, Ids
<1> QED BY <1>2, <1>3

-----------------------------------------------------------------------------
LEMMA InitIInv ==
  ASSUME Init
  PROVE  IInv
<1> USE TimerAssumption DEF Init
<1>1. TypeOK
  <2>1. 1 \in Ids /\ DOMAIN tasks = {}
    BY DEF Ids
  <2>2. state \in [Timers \cup {Loop} -> Pool!States]
    BY DEF Pool!States
  <2> QED BY <2>1, <2>2 DEF TypeOK
<1>2. Registered
  BY DEF Registered, PendingOnce, NeverEarly
<1>3. LoopTask
  BY DEF LoopTask
<1>4. Scan
  BY DEF Scan, IteratorValid, LapComplete
<1> QED BY <1>1, <1>2, <1>3, <1>4 DEF IInv

(* Handing over a due timer: what Visit does in its first case. *)
LEMMA VisitCases ==
  ASSUME NEW id \in Ids, Visit(id), IInv
  PROVE  /\ id \in DOMAIN tasks /\ tasks[id] \in Timers /\ tasks[id] # Loop
         /\ \/ /\ now >= point[tasks[id]]
               /\ state' = [state EXCEPT ![tasks[id]] =
                                IF closed THEN "refused" ELSE "pending"]
               /\ tasks' = [i \in DOMAIN tasks \ {id} |-> tasks[i]]
               /\ todo' = todo \ {id}
               /\ now' = clock
            \/ /\ now < point[tasks[id]]
               /\ todo' = todo \ {id}
               /\ UNCHANGED <<tasks, now, state>>
         /\ UNCHANGED <<closed, joined, index, point, used, is_stop, clock, phase, began>>
<1>1. id \in DOMAIN tasks
  BY DEF Visit, IInv, Scan, IteratorValid
<1>2. tasks[id] \in Timers /\ tasks[id] # Loop
  BY <1>1, TimerAssumption DEF IInv, TypeOK
<1>3. point[tasks[id]] \in Nat /\ now \in Nat
  BY <1>2 DEF IInv, TypeOK
<1>4. DOMAIN tasks \cap (DOMAIN tasks \ {id}) = DOMAIN tasks \ {id}
  OBVIOUS
<1>5. CASE Due(id) /\ HandOver(id)
  BY <1>1, <1>2, <1>4, <1>5 DEF Due, HandOver, Visit, Pool!Submit, Restrict
<1>6. CASE ~Due(id)
  BY <1>1, <1>2, <1>3, <1>6 DEF Due, Visit, poolvars
<1> QED BY <1>5, <1>6 DEF Visit

(* Every step keeps the types. *)
LEMMA StepTypeOK ==
  ASSUME IInv, Next
  PROVE  TypeOK'
<1> USE TimerAssumption DEF IInv, TypeOK
<1>1. ASSUME NEW t \in Timers, NEW d \in Durations, Append_timer(t, d)
      PROVE  TypeOK'
  <2>1. FreeId \in Ids /\ NextIndex \in Ids
    BY <1>1, FreeIdIsFree DEF Append_timer
  <2>2. point' \in [Timers -> Nat]
    <3>1. clock + d \in Nat
      BY DEF Ids
    <3> QED BY <1>1, <3>1 DEF Append_timer
  <2>3. DOMAIN tasks' \subseteq Ids /\ \A id \in DOMAIN tasks' : tasks'[id] \in Timers
    BY <1>1, <2>1 DEF Append_timer
  <2> QED BY <1>1, <2>1, <2>2, <2>3 DEF Append_timer, loopvars, poolvars
<1>2. ASSUME NEW id \in DOMAIN tasks, Remove_timer(id)
      PROVE  TypeOK'
  BY <1>2 DEF Remove_timer, Restrict, loopvars, poolvars
<1>3. ASSUME NEW t \in Timers \cup {Loop}, Run(t)
      PROVE  TypeOK'
  BY <1>3 DEF Run, Pool!Begin, Pool!States, timevars
<1>4. ASSUME NEW t \in Timers \cup {Loop}, Callback_ends(t)
      PROVE  TypeOK'
  BY <1>4 DEF Callback_ends, Pool!End, Pool!States, timevars, loopvars
<1>5. CASE Lap
  BY <1>5 DEF Lap, timevars, poolvars
<1>6. CASE Leave
  BY <1>6 DEF Leave, Pool!End, Pool!States, timevars
<1>7. ASSUME NEW id \in Ids, Visit(id)
      PROVE  TypeOK'
  <2>1. state' \in [Timers \cup {Loop} -> Pool!States]
    BY <1>7, VisitCases DEF Pool!States
  <2>2. DOMAIN tasks' \subseteq Ids /\ \A i \in DOMAIN tasks' : tasks'[i] \in Timers
    <3>1. CASE tasks' = [i \in DOMAIN tasks \ {id} |-> tasks[i]]
      BY <3>1
    <3>2. CASE UNCHANGED tasks
      BY <3>2
    <3> QED BY <1>7, <3>1, <3>2, VisitCases
  <2>3. todo' \subseteq Ids /\ now' \in Nat
    BY <1>7, VisitCases
  <2> QED BY <1>7, <2>1, <2>2, <2>3, VisitCases
<1>8. CASE Sleep \/ Awaken
  BY <1>8 DEF Sleep, Awaken, timevars, poolvars
<1>9. CASE StopTimers
  BY <1>9 DEF StopTimers, timevars, loopvars, poolvars
<1>10. CASE ClosePool \/ JoinPool
  BY <1>10 DEF ClosePool, JoinPool, Pool!Close, Pool!Join, timevars, loopvars
<1>11. CASE Tick
  BY <1>11 DEF Tick, timevars, loopvars, poolvars
<1> QED
  BY <1>1, <1>2, <1>3, <1>4, <1>5, <1>6, <1>7, <1>8, <1>9, <1>10, <1>11, NextActions

(* What leaves the map and the states of the tasks alone keeps Registered, *)
(* as long as time does not run back.                                      *)
LEMMA SameRegistered ==
  ASSUME IInv, UNCHANGED <<tasks, point, used, state>>, clock' \in Nat, clock' >= clock
  PROVE  Registered'
<1>1. PendingOnce'
  BY DEF IInv, Registered, PendingOnce
<1>2. NeverEarly'
  <2>1. \A t \in Timers : point[t] \in Nat /\ clock \in Nat
    BY DEF IInv, TypeOK
  <2> QED BY <2>1 DEF IInv, Registered, NeverEarly
<1> QED BY <1>1, <1>2 DEF IInv, Registered

LEMMA StepRegistered ==
  ASSUME IInv, Next
  PROVE  Registered'
<1> USE TimerAssumption
<1>1. ASSUME NEW t \in Timers, NEW d \in Durations, Append_timer(t, d)
      PROVE  Registered'
  <2>1. FreeId \in Ids \ DOMAIN tasks
    BY <1>1, FreeIdIsFree DEF Append_timer, IInv
  <2>2. /\ DOMAIN tasks' = DOMAIN tasks \cup {FreeId}
        /\ tasks'[FreeId] = t
        /\ \A i \in DOMAIN tasks : tasks'[i] = tasks[i]
    BY <1>1, <2>1 DEF Append_timer
  <2>3. state' = state /\ clock' = clock /\ used' = used \cup {t} /\ t \notin used
    BY <1>1 DEF Append_timer, poolvars
  <2>4. state[t] = "fresh" /\ \A i \in DOMAIN tasks : tasks[i] # t
    BY <2>3 DEF IInv, Registered
  <2>5. PendingOnce'
    BY <2>1, <2>2, <2>3, <2>4 DEF IInv, Registered, PendingOnce
  <2>6. NeverEarly'
    <3>1. \A x \in Timers : x # t => point'[x] = point[x]
      BY <1>1 DEF Append_timer, IInv, TypeOK
    <3> QED BY <2>3, <2>4, <3>1 DEF IInv, Registered, NeverEarly
  <2> QED BY <2>2, <2>3, <2>5, <2>6 DEF IInv, Registered
<1>2. ASSUME NEW id \in DOMAIN tasks, Remove_timer(id)
      PROVE  Registered'
  <2>1. tasks' = [i \in DOMAIN tasks \ {id} |-> tasks[i]]
    <3>1. DOMAIN tasks \cap (DOMAIN tasks \ {id}) = DOMAIN tasks \ {id}
      OBVIOUS
    <3> QED BY <1>2, <3>1 DEF Remove_timer, Restrict
  <2>2. UNCHANGED <<state, point, used, clock>>
    BY <1>2 DEF Remove_timer, poolvars
  <2>3. PendingOnce'
    BY <2>1, <2>2 DEF IInv, Registered, PendingOnce
  <2> QED BY <2>1, <2>2, <2>3 DEF IInv, Registered, NeverEarly
<1>3. ASSUME NEW t \in Timers \cup {Loop}, Run(t)
      PROVE  Registered'
  <2>1. UNCHANGED <<tasks, point, used, clock>>
    BY <1>3 DEF Run, timevars
  <2>2. state[t] = "pending" /\ state' = [state EXCEPT ![t] = "running"]
    BY <1>3 DEF Run, Pool!Begin
  <2>3. PendingOnce'
    BY <2>1, <2>2 DEF IInv, Registered, PendingOnce, TypeOK
  <2> QED BY <2>1, <2>2, <2>3 DEF IInv, Registered, NeverEarly, TypeOK
<1>4. ASSUME NEW t \in Timers \cup {Loop},
             UNCHANGED <<tasks, point, used, clock>>,
             state[t] = "running", state' = [state EXCEPT ![t] = "done"]
      PROVE  Registered'
  <2>1. PendingOnce'
    BY <1>4 DEF IInv, Registered, PendingOnce, TypeOK
  <2> QED BY <1>4, <2>1 DEF IInv, Registered, NeverEarly, TypeOK
<1>5. ASSUME NEW id \in Ids, Visit(id)
      PROVE  Registered'
  <2>0. phase = "scan"
    BY <1>5 DEF Visit
  <2>1. id \in DOMAIN tasks /\ tasks[id] \in Timers
    BY <1>5, VisitCases
  <2>2. UNCHANGED <<point, used, clock>>
    BY <1>5, VisitCases
  <2>3. CASE UNCHANGED <<tasks, state>>
    BY <2>2, <2>3, SameRegistered DEF IInv, TypeOK
  <2>4. CASE /\ now >= point[tasks[id]]
             /\ state' = [state EXCEPT ![tasks[id]] = IF closed THEN "refused" ELSE "pending"]
             /\ tasks' = [i \in DOMAIN tasks \ {id} |-> tasks[i]]
    <3>1. \A i \in DOMAIN tasks' : tasks[i] # tasks[id] /\ tasks'[i] = tasks[i]
      BY <2>1, <2>4 DEF IInv, Registered, PendingOnce
    <3>2. \A i \in DOMAIN tasks' : tasks[i] \in Timers /\ i \in DOMAIN tasks
      BY <2>4 DEF IInv, TypeOK
    <3>3. \A i \in DOMAIN tasks' : state'[tasks'[i]] = "fresh"
      BY <2>4, <3>1, <3>2 DEF IInv, Registered, PendingOnce, TypeOK
    <3>4. \A i, j \in DOMAIN tasks' : tasks'[i] = tasks'[j] => i = j
      BY <3>1, <3>2 DEF IInv, Registered, PendingOnce
    <3>5. clock >= point[tasks[id]]
      BY <2>0, <2>1, <2>4 DEF IInv, Scan, TypeOK
    <3>6. NeverEarly'
      BY <2>1, <2>2, <2>4, <3>5 DEF IInv, Registered, NeverEarly, TypeOK
    <3>7. \A t \in Timers \ used' : state'[t] = "fresh"
      BY <2>1, <2>2, <2>4 DEF IInv, Registered, TypeOK
    <3>8. \A i \in DOMAIN tasks' : tasks'[i] \in used'
      BY <2>2, <3>1, <3>2 DEF IInv, Registered
    <3> QED BY <3>3, <3>4, <3>6, <3>7, <3>8 DEF Registered, PendingOnce
  <2> QED BY <1>5, <2>3, <2>4, VisitCases
<1>6. ASSUME NEW t \in Timers \cup {Loop}, Callback_ends(t)
      PROVE  Registered'
  BY <1>4, <1>6 DEF Callback_ends, Pool!End, timevars
<1>7. CASE Leave
  BY <1>4, <1>7 DEF Leave, Pool!End, timevars
<1>8. CASE Lap \/ Sleep \/ Awaken \/ StopTimers
  <2>1. UNCHANGED <<tasks, point, used, state, clock>>
    BY <1>8 DEF Lap, Sleep, Awaken, StopTimers, timevars, poolvars
  <2> QED BY <2>1, SameRegistered DEF IInv, TypeOK
<1>9. CASE ClosePool \/ JoinPool
  <2>1. UNCHANGED <<tasks, point, used, state, clock>>
    BY <1>9 DEF ClosePool, JoinPool, Pool!Close, Pool!Join, timevars
  <2> QED BY <2>1, SameRegistered DEF IInv, TypeOK
<1>10. CASE Tick
  <2>1. UNCHANGED <<tasks, point, used, state>> /\ clock' = clock + 1
    BY <1>10 DEF Tick, timevars, poolvars
  <2> QED BY <2>1, SameRegistered DEF IInv, TypeOK
<1> QED
  BY <1>1, <1>2, <1>3, <1>5, <1>6, <1>7, <1>8, <1>9, <1>10, NextActions

LEMMA StepLoopTask ==
  ASSUME IInv, Next
  PROVE  LoopTask'
<1> USE TimerAssumption DEF IInv, LoopTask, Pool!Running
<1>1. ASSUME UNCHANGED <<phase, joined, state>>
      PROVE  LoopTask'
  BY <1>1
<1>2. ASSUME NEW t \in Timers, NEW d \in Durations, Append_timer(t, d)
      PROVE  LoopTask'
  BY <1>1, <1>2 DEF Append_timer, loopvars, poolvars
<1>3. ASSUME NEW id \in DOMAIN tasks, Remove_timer(id)
      PROVE  LoopTask'
  BY <1>1, <1>3 DEF Remove_timer, loopvars, poolvars
<1>4. ASSUME NEW t \in Timers \cup {Loop}, Run(t)
      PROVE  LoopTask'
  <2>1. /\ ~joined /\ joined' = joined
        /\ state[t] = "pending" /\ state' = [state EXCEPT ![t] = "running"]
        /\ phase' = IF t = Loop THEN "top" ELSE phase
    BY <1>4 DEF Run, Pool!Begin
  <2>2. CASE t = Loop
    BY <2>1, <2>2 DEF TypeOK
  <2>3. CASE t # Loop
    BY <2>1, <2>3 DEF TypeOK
  <2> QED BY <2>2, <2>3
<1>5. ASSUME NEW t \in Timers \cup {Loop}, Callback_ends(t)
      PROVE  LoopTask'
  BY <1>5 DEF Callback_ends, Pool!End, loopvars, TypeOK
<1>6. CASE Leave
  BY <1>6 DEF Leave, Pool!End, TypeOK
<1>7. ASSUME NEW id \in Ids, Visit(id)
      PROVE  LoopTask'
  <2>1. tasks[id] \in Timers /\ tasks[id] # Loop /\ UNCHANGED <<phase, joined>>
    BY <1>7, VisitCases
  <2>2. CASE state' = [state EXCEPT ![tasks[id]] = IF closed THEN "refused" ELSE "pending"]
    <3>1. \A t \in Timers \cup {Loop} : state'[t] = "running" => state[t] = "running"
      BY <2>1, <2>2 DEF TypeOK
    <3>2. state'[Loop] = state[Loop]
      BY <2>1, <2>2 DEF TypeOK
    <3> QED BY <2>1, <3>1, <3>2
  <2> QED BY <1>1, <1>7, <2>1, <2>2, VisitCases
<1>8. CASE Lap \/ Sleep \/ Awaken
  BY <1>8 DEF Lap, Sleep, Awaken, poolvars
<1>9. CASE StopTimers \/ Tick
  BY <1>1, <1>9 DEF StopTimers, Tick, loopvars, poolvars
<1>10. CASE ClosePool \/ JoinPool
  BY <1>10 DEF ClosePool, JoinPool, Pool!Close, Pool!Join, loopvars
<1> QED
  BY <1>2, <1>3, <1>4, <1>5, <1>6, <1>7, <1>8, <1>9, <1>10, NextActions

(* mx keeps the map still during a scan: only the scan itself erases, and  *)
(* only the element it is at.                                              *)
LEMMA StepScan ==
  ASSUME IInv, Next
  PROVE  Scan'
<1> USE TimerAssumption DEF IInv, Scan, IteratorValid, LapComplete
<1>1. ASSUME phase' # "scan"
      PROVE  Scan'
  BY <1>1
<1>2. ASSUME UNCHANGED <<tasks, point, clock, phase, todo, now, began>>
      PROVE  Scan'
  BY <1>2
<1>3. ASSUME NEW t \in Timers, NEW d \in Durations, Append_timer(t, d)
      PROVE  Scan'
  BY <1>1, <1>3 DEF Append_timer, loopvars
<1>4. ASSUME NEW id \in DOMAIN tasks, Remove_timer(id)
      PROVE  Scan'
  BY <1>1, <1>4 DEF Remove_timer, loopvars
<1>5. ASSUME NEW t \in Timers \cup {Loop}, Run(t)
      PROVE  Scan'
  BY <1>1, <1>2, <1>5 DEF Run, timevars
<1>6. ASSUME NEW t \in Timers \cup {Loop}, Callback_ends(t)
      PROVE  Scan'
  BY <1>2, <1>6 DEF Callback_ends, timevars, loopvars
<1>7. CASE Lap
  BY <1>7 DEF Lap, timevars, TypeOK
<1>8. CASE Leave \/ Sleep \/ Awaken
  BY <1>1, <1>8 DEF Leave, Sleep, Awaken
<1>9. ASSUME NEW id \in Ids, Visit(id)
      PROVE  Scan'
  <2>0. phase = "scan" /\ now \in Nat /\ clock \in Nat /\ began \in Nat
    BY <1>9 DEF Visit, TypeOK
  <2>1. /\ id \in DOMAIN tasks /\ tasks[id] \in Timers
        /\ todo' = todo \ {id}
        /\ UNCHANGED <<point, clock, began, phase>>
    BY <1>9, VisitCases
  <2>2. CASE /\ tasks' = [i \in DOMAIN tasks \ {id} |-> tasks[i]]
             /\ now' = clock
    BY <2>0, <2>1, <2>2
  <2>3. CASE /\ now < point[tasks[id]]
             /\ UNCHANGED <<tasks, now>>
    <3>1. point[tasks[id]] > began
      BY <2>0, <2>1, <2>3 DEF TypeOK
    <3> QED BY <2>0, <2>1, <2>3, <3>1
  <2> QED BY <1>9, <2>2, <2>3, VisitCases
<1>10. CASE Tick
  BY <1>10 DEF Tick, timevars, loopvars, TypeOK
<1>11. CASE StopTimers
  BY <1>2, <1>11 DEF StopTimers, timevars, loopvars
<1>12. CASE ClosePool \/ JoinPool
  BY <1>2, <1>12 DEF ClosePool, JoinPool, timevars, loopvars
<1> QED
  BY <1>3, <1>4, <1>5, <1>6, <1>7, <1>8, <1>9, <1>10, <1>11, <1>12, NextActions

LEMMA Invariance == Spec => []IInv
<1>1. Init => IInv
  BY InitIInv
<1>2. IInv /\ [Next]_vars => IInv'
  <2> SUFFICES ASSUME IInv, [Next]_vars
               PROVE  IInv'
    OBVIOUS
  <2>1. CASE Next
    BY <2>1, StepTypeOK, StepRegistered, StepLoopTask, StepScan DEF IInv
  <2>2. CASE UNCHANGED vars
    BY <2>2 DEF vars, timevars, loopvars, poolvars, IInv, TypeOK, Registered, PendingOnce,
                NeverEarly, LoopTask, Pool!Running, Scan, IteratorValid, LapComplete
  <2> QED BY <2>1, <2>2
<1> QED BY <1>1, <1>2, PTL DEF Spec

-----------------------------------------------------------------------------
(* Every variable of the timer pool keeps its type. *)
THEOREM TypeCorrect == Spec => []TypeOK
<1>1. IInv => TypeOK
  BY DEF IInv
<1> QED BY <1>1, Invariance, PTL

(* A pending timer is known under one id and its callback has not been     *)
(* appended, however often the ids of append_timer wrap around.            *)
THEOREM OneIdPerTimer == Spec => []PendingOnce
<1>1. IInv => PendingOnce
  BY DEF IInv, Registered
<1> QED BY <1>1, Invariance, PTL

(* timerpool::start never appends a callback before its time. *)
THEOREM CallbacksWait == Spec => []NeverEarly
<1>1. IInv => NeverEarly
  BY DEF IInv, Registered
<1> QED BY <1>1, Invariance, PTL

(* What the loop of timerpool::start iterates over is in the map until it  *)
(* is visited.                                                             *)
THEOREM ScanIsSafe == Spec => []IteratorValid
<1>1. IInv => IteratorValid
  BY DEF IInv, Scan
<1> QED BY <1>1, Invariance, PTL

(* No lap of timerpool::start passes over a timer that was due when the    *)
(* lap began, whatever the order of the scan and whatever it erases.       *)
THEOREM NobodyMissed == Spec => []LapComplete
<1>1. IInv => LapComplete
  BY DEF IInv, Scan
<1> QED BY <1>1, Invariance, PTL

(* After http::stop_pool has joined the task pool, neither the loop of the *)
(* timers nor a callback of theirs is running.                             *)
THEOREM QuietAfterJoin == Spec => []JoinedIsQuiet
<1>1. IInv => JoinedIsQuiet
  BY TimerAssumption DEF IInv, LoopTask, JoinedIsQuiet, Pool!Running
<1> QED BY <1>1, Invariance, PTL

(* A registered timer leaves the map by remove_timer or by having its      *)
(* callback appended, and in no other way.                                 *)
THEOREM NoTimerLost == Spec => LostOnlyByRemoval
<1> DEFINE Kept == \A t \in Timers : Pending(t) /\ ~Pending(t)' =>
                     state'[t] # "fresh" \/ \E id \in DOMAIN tasks : Remove_timer(id)
<1>1. ASSUME IInv, [Next]_vars
      PROVE  Kept
  <2> SUFFICES ASSUME NEW t \in Timers, Pending(t), ~Pending(t)',
                      ~ \E id \in DOMAIN tasks : Remove_timer(id)
               PROVE  state'[t] # "fresh"
    OBVIOUS
  <2>1. ~ UNCHANGED tasks
    BY DEF Pending
  <2>2. ASSUME NEW x \in Timers, NEW d \in Durations, Append_timer(x, d)
        PROVE  FALSE
    <3>1. FreeId \in Ids \ DOMAIN tasks
      BY <1>1, <2>2, FreeIdIsFree DEF Append_timer, IInv
    <3> QED BY <2>2, <3>1 DEF Append_timer, Pending
  <2>3. ASSUME NEW id \in Ids, Visit(id)
        PROVE  state'[t] # "fresh"
    <3>1. /\ tasks' = [i \in DOMAIN tasks \ {id} |-> tasks[i]]
          /\ state' = [state EXCEPT ![tasks[id]] = IF closed THEN "refused" ELSE "pending"]
      BY <1>1, <2>1, <2>3, VisitCases
    <3>2. tasks[id] = t
      BY <3>1 DEF Pending
    <3> QED BY <1>1, <3>1, <3>2 DEF IInv, TypeOK
  <2>4. CASE Next
    BY <2>1, <2>2, <2>3, <2>4, NextActions
       DEF Run, Callback_ends, Lap, Leave, Sleep, Awaken, StopTimers, ClosePool, JoinPool,
           Tick, timevars
  <2> QED BY <1>1, <2>1, <2>4 DEF vars, timevars
<1> QED BY <1>1, Invariance, PTL DEF Spec, LostOnlyByRemoval
====
