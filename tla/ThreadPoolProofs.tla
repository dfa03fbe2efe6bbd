--------------------------- MODULE ThreadPoolProofs ---------------------------
(***************************************************************************)
(* Proofs, for every set of workers, clients and tasks, every number of    *)
(* queues and every assignment of levels, of what MCThreadPool checks on   *)
(* small instances: the safety invariants, the order in which tasks are    *)
(* taken, and that the pool of threads, queues and a condition variable    *)
(* implements TaskPool.                                                    *)
(*                                                                         *)
(* The invariant is built in three layers, each inductive relative to the  *)
(* ones before: Typed (types, and which program points hold a task),       *)
(* Ownership (a live task is in exactly one place) and Counted (stopped is *)
(* the number of workers that left run).                                   *)
(***************************************************************************)
EXTENDS ThreadPool, FiniteSetTheorems, FunctionTheorems, TLAPS

(* The steps of the specification, one disjunct per action. *)
LEMMA NextActions ==
  ASSUME Next
  PROVE  \/ \E c \in Clients, t \in Tasks : Append_task(c, t)
         \/ \E th \in Threads : Push(th)
         \/ \E th \in Threads : Notify(th)
         \/ \E th \in Workers \cup Spawned : Doit(th)
         \/ \E c \in Clients, s \in Spawned : PushDetached(c, s)
         \/ \E c \in Clients : Return(c)
         \/ \E s \in Spawned : Steal(s)
         \/ \E s \in Spawned : Dangle(s)
         \/ \E w \in Workers : Check(w)
         \/ \E w \in Workers : GetTask(w)
         \/ \E w \in Workers : Park(w)
         \/ \E w \in Workers : SpuriousWake(w)
         \/ Stop
         \/ NotifyAll
         \/ Join
BY DEF Next, ClientStep, WorkerStep, SpawnStep, StopStep, Threads

-----------------------------------------------------------------------------
(* Which program points hold a task, and what a detached thread that has   *)
(* not moved its task yet refers to: a client that has not returned and    *)
(* still owns it, a different one for each such thread.                    *)
Hands ==
  /\ \A th \in Threads : pc[th] \in {"doit", "push"} => arg[th] # Null
  /\ \A th \in Threads : arg[th] # Null => pc[th] \in {"doit", "push", "return"}
  /\ \A s \in Spawned : pc[s] = "steal" =>
       param[s] \in Clients /\ pc[param[s]] = "return" /\ arg[param[s]] # Null
  /\ \A r, s \in Spawned :
       pc[r] = "steal" /\ pc[s] = "steal" /\ param[r] = param[s] => r = s

Typed == TypeOK /\ Hands

LEMMA InitTyped ==
  ASSUME Init
  PROVE  Typed
<1> USE PoolAssumption DEF Init, Threads, Home
<1>1. task_queues \in [Levels -> Seq(Tasks)] /\ retries \in [Tasks -> 0 .. MaxRetries]
  OBVIOUS
<1>2. PCTypeOK
  BY DEF PCTypeOK, WorkerPC, ClientPC, SpawnPC
<1>3. TypeOK
  BY <1>1, <1>2 DEF TypeOK
<1>4. Hands
  BY DEF Hands
<1> QED BY <1>3, <1>4 DEF Typed

(* Every step leaves each thread at a program point of its kind. *)
LEMMA StepPC ==
  ASSUME PCTypeOK, Next
  PROVE  PCTypeOK'
<1> USE PoolAssumption DEF PCTypeOK, Threads, WorkerPC, ClientPC, SpawnPC
<1>1. ASSUME NEW c \in Clients, NEW t \in Tasks, Append_task(c, t)
      PROVE  PCTypeOK'
  BY <1>1 DEF Append_task
<1>2. ASSUME NEW th \in Threads, Push(th)
      PROVE  PCTypeOK'
  BY <1>2 DEF Push
<1>3. ASSUME NEW th \in Threads, Notify(th)
      PROVE  PCTypeOK'
  <2>1. CASE pc' = [pc EXCEPT ![th] = Home(th)]
    BY <2>1 DEF Home
  <2>2. ASSUME NEW w \in Waiting, pc' = [pc EXCEPT ![th] = Home(th), ![w] = "check"]
        PROVE  PCTypeOK'
    BY <2>2 DEF Home, Waiting
  <2> QED BY <1>3, <2>1, <2>2 DEF Notify
<1>4. ASSUME NEW th \in Workers \cup Spawned, Doit(th)
      PROVE  PCTypeOK'
  <2>1. pc' = [pc EXCEPT ![th] = Home(th)] \/ pc' = [pc EXCEPT ![th] = "push"]
    BY <1>4 DEF Doit
  <2> QED BY <2>1 DEF Home
<1>5. ASSUME NEW c \in Clients, NEW s \in Spawned, PushDetached(c, s)
      PROVE  PCTypeOK'
  BY <1>5 DEF PushDetached
<1>6. ASSUME NEW c \in Clients, Return(c)
      PROVE  PCTypeOK'
  BY <1>6 DEF Return
<1>7. ASSUME NEW s \in Spawned, Steal(s) \/ Dangle(s)
      PROVE  PCTypeOK'
  BY <1>7 DEF Steal, Dangle
<1>8. ASSUME NEW w \in Workers, Check(w) \/ Park(w) \/ SpuriousWake(w)
      PROVE  PCTypeOK'
  BY <1>8 DEF Check, Park, SpuriousWake
<1>9. ASSUME NEW w \in Workers, GetTask(w)
      PROVE  PCTypeOK'
  BY <1>9 DEF GetTask
<1>10. CASE Stop \/ Join
  BY <1>10 DEF Stop, Join
<1>11. CASE NotifyAll
  BY <1>11 DEF NotifyAll, Waiting
<1> QED
  BY <1>1, <1>2, <1>3, <1>4, <1>5, <1>6, <1>7, <1>8, <1>9, <1>10, <1>11, NextActions

(* Every step keeps the types of the data. *)
LEMMA StepTypeOK ==
  ASSUME Typed, Next
  PROVE  TypeOK'
<1> USE PoolAssumption DEF Typed, TypeOK, Threads
<1>0. PCTypeOK'
  BY StepPC
<1>1. ASSUME NEW c \in Clients, NEW t \in Tasks, Append_task(c, t)
      PROVE  TypeOK'
  BY <1>0, <1>1 DEF Append_task
<1>2. ASSUME NEW th \in Threads, Push(th)
      PROVE  TypeOK'
  <2>1. arg[th] \in Tasks /\ AppendLevel(th) \in Levels
    BY <1>2 DEF Push, Hands, AppendLevel, Levels
  <2>2. task_queues' \in [Levels -> Seq(Tasks)]
    BY <1>2, <2>1 DEF Push
  <2> QED BY <1>0, <1>2, <2>2 DEF Push
<1>3. ASSUME NEW th \in Workers \cup Spawned, Doit(th)
      PROVE  TypeOK'
  <2>1. arg[th] \in Tasks
    BY <1>3 DEF Doit, Hands
  <2>2. retries' \in [Tasks -> 0 .. MaxRetries]
    <3>1. CASE UNCHANGED retries
      BY <3>1
    <3>2. CASE /\ retries[arg[th]] < MaxRetries
               /\ retries' = [retries EXCEPT ![arg[th]] = @ + 1]
      <4>1. retries[arg[th]] + 1 \in 0 .. MaxRetries
        BY <2>1, <3>2
      <4> QED BY <3>2, <4>1
    <3> QED BY <1>3, <3>1, <3>2 DEF Doit
  <2>3. fate' \in [Tasks -> {"fresh", "live", "done", "refused", "destroyed"}]
    BY <1>3, <2>1 DEF Doit
  <2>4. arg' \in [Threads -> Tasks \cup {Null}]
    BY <1>3 DEF Doit
  <2> QED BY <1>0, <1>3, <2>2, <2>3, <2>4 DEF Doit
<1>4. ASSUME NEW c \in Clients, Return(c)
      PROVE  TypeOK'
  BY <1>0, <1>4 DEF Return
<1>5. ASSUME NEW s \in Spawned, Steal(s)
      PROVE  TypeOK'
  BY <1>0, <1>5 DEF Steal, Hands
<1>6. ASSUME NEW w \in Workers, GetTask(w)
      PROVE  TypeOK'
  <2>1. CASE UNCHANGED <<arg, task_queues>>
    BY <1>0, <1>6, <2>1 DEF GetTask
  <2>2. ASSUME NEW l \in Levels, Served(l),
               arg' = [arg EXCEPT ![w] = Head(task_queues[l])],
               task_queues' = [task_queues EXCEPT ![l] = Tail(@)]
        PROVE  TypeOK'
    <3>1. Head(task_queues[l]) \in Tasks /\ Tail(task_queues[l]) \in Seq(Tasks)
      BY <2>2 DEF Served
    <3> QED BY <1>0, <1>6, <2>2, <3>1 DEF GetTask
  <2> QED BY <1>6, <2>1, <2>2 DEF GetTask
<1>7. ASSUME NEW th \in Threads, Notify(th)
      PROVE  TypeOK'
  BY <1>0, <1>7 DEF Notify
<1>8. ASSUME NEW c \in Clients, NEW s \in Spawned, PushDetached(c, s)
      PROVE  TypeOK'
  BY <1>0, <1>8 DEF PushDetached
<1>9. ASSUME NEW w \in Workers, Check(w) \/ Park(w) \/ SpuriousWake(w)
      PROVE  TypeOK'
  BY <1>0, <1>9 DEF Check, Park, SpuriousWake
<1>10. ASSUME NEW s \in Spawned, Dangle(s)
       PROVE  TypeOK'
  BY <1>0, <1>10 DEF Dangle
<1>11. CASE Stop \/ NotifyAll \/ Join
  BY <1>0, <1>11 DEF Stop, NotifyAll, Join
<1> QED
  BY <1>1, <1>2, <1>3, <1>4, <1>5, <1>6, <1>7, <1>8, <1>9, <1>10, <1>11, NextActions

(* A step that only moves threads between points where no task is held and *)
(* no detached thread looks at a parameter keeps Hands.                    *)
LEMMA IdleMoves ==
  ASSUME Hands, UNCHANGED <<arg, param>>,
         \A x \in Threads :
           \/ pc'[x] = pc[x]
           \/ /\ pc[x] \notin {"doit", "push", "return", "steal"}
              /\ pc'[x] \notin {"doit", "push", "return", "steal"}
  PROVE  Hands'
<1>1. /\ \A th \in Threads : pc'[th] \in {"doit", "push"} => arg'[th] # Null
      /\ \A th \in Threads : arg'[th] # Null => pc'[th] \in {"doit", "push", "return"}
  BY DEF Hands
<1>2. ASSUME NEW s \in Spawned, pc'[s] = "steal"
      PROVE  param'[s] \in Clients /\ pc'[param'[s]] = "return" /\ arg'[param'[s]] # Null
  BY <1>2 DEF Hands, Threads
<1>3. \A r, s \in Spawned :
        pc'[r] = "steal" /\ pc'[s] = "steal" /\ param'[r] = param'[s] => r = s
  BY DEF Hands, Threads
<1> QED BY <1>1, <1>2, <1>3 DEF Hands

(* Every step keeps the association of program points and held tasks.  A   *)
(* client leaves "return" only through Return, which also ends the wait of *)
(* the detached thread that refers to it.                                  *)
LEMMA StepHands ==
  ASSUME Typed, Next
  PROVE  Hands'
<1> USE PoolAssumption DEF Typed, TypeOK, PCTypeOK, Hands, Threads
<1>1. ASSUME NEW c \in Clients, NEW t \in Tasks, Append_task(c, t)
      PROVE  Hands'
  <2>1. CASE UNCHANGED <<pc, arg>>
    BY <1>1, <2>1 DEF Append_task
  <2>2. CASE pc' = [pc EXCEPT ![c] = "push"] /\ arg' = [arg EXCEPT ![c] = t]
    BY <1>1, <2>2 DEF Append_task
  <2> QED BY <1>1, <2>1, <2>2 DEF Append_task
<1>2. ASSUME NEW th \in Threads, Push(th)
      PROVE  Hands'
  BY <1>2 DEF Push
<1>3. ASSUME NEW th \in Workers \cup Spawned, Doit(th)
      PROVE  Hands'
  <2>1. Home(th) \in {"check", "ended"} /\ th \notin Clients
    BY DEF Home
  <2>2. CASE arg' = [arg EXCEPT ![th] = Null] /\ pc' = [pc EXCEPT ![th] = Home(th)]
    BY <1>3, <2>1, <2>2 DEF Doit
  <2>3. CASE UNCHANGED arg /\ pc' = [pc EXCEPT ![th] = "push"]
    BY <1>3, <2>1, <2>3 DEF Doit
  <2> QED BY <1>3, <2>2, <2>3 DEF Doit
<1>4. ASSUME NEW c \in Clients, Return(c)
      PROVE  Hands'
  BY <1>4 DEF Return, ClientPC
<1>5. ASSUME NEW s \in Spawned, Steal(s)
      PROVE  Hands'
  BY <1>5 DEF Steal
<1>6. ASSUME NEW w \in Workers, GetTask(w)
      PROVE  Hands'
  <2>1. CASE UNCHANGED <<arg, task_queues>> /\ pc' = [pc EXCEPT ![w] = "park"]
    BY <1>6, <2>1 DEF GetTask
  <2>2. ASSUME NEW l \in Levels, Served(l),
               arg' = [arg EXCEPT ![w] = Head(task_queues[l])],
               pc' = [pc EXCEPT ![w] = "doit"]
        PROVE  Hands'
    <3>1. Head(task_queues[l]) \in Tasks
      BY <2>2 DEF Served
    <3> QED BY <1>6, <2>2, <3>1 DEF GetTask
  <2> QED BY <1>6, <2>1, <2>2 DEF GetTask
<1>7. ASSUME NEW th \in Threads, Notify(th)
      PROVE  Hands'
  <2>1. Home(th) \in {"check", "idle", "ended"}
    BY DEF Home
  <2>2. CASE pc' = [pc EXCEPT ![th] = Home(th)]
    BY <1>7, <2>1, <2>2 DEF Notify
  <2>3. ASSUME NEW w \in Waiting, pc' = [pc EXCEPT ![th] = Home(th), ![w] = "check"]
        PROVE  Hands'
    <3>1. w \in Workers /\ w # th /\ pc[w] = "parked" /\ pc[th] = "notify"
      BY <1>7, <2>3 DEF Notify, Waiting
    <3>2. UNCHANGED <<arg, param>>
      BY <1>7 DEF Notify
    <3> QED BY <2>1, <2>3, <3>1, <3>2, IdleMoves
  <2> QED BY <1>7, <2>2, <2>3 DEF Notify
<1>8. ASSUME NEW c \in Clients, NEW s \in Spawned, PushDetached(c, s)
      PROVE  Hands'
  BY <1>8 DEF PushDetached
<1>9. ASSUME NEW w \in Workers, Check(w) \/ Park(w) \/ SpuriousWake(w)
      PROVE  Hands'
  <2>1. PICK at \in {"exited", "get", "parked", "check"} : pc' = [pc EXCEPT ![w] = at]
    BY <1>9 DEF Check, Park, SpuriousWake
  <2>2. arg[w] = Null /\ UNCHANGED <<arg, param>>
    BY <1>9 DEF Check, Park, SpuriousWake
  <2> QED BY <2>1, <2>2
<1>10. ASSUME NEW s \in Spawned, Dangle(s)
       PROVE  Hands'
  BY <1>10 DEF Dangle
<1>11. CASE Stop \/ Join
  BY <1>11 DEF Stop, Join
<1>12. CASE NotifyAll
  <2>1. \A x \in Threads : pc'[x] = IF x \in Waiting THEN "check" ELSE pc[x]
    BY <1>12 DEF NotifyAll
  <2>2. \A x \in Waiting : x \in Workers /\ pc[x] = "parked"
    BY DEF Waiting
  <2>3. UNCHANGED <<arg, param>>
    BY <1>12 DEF NotifyAll
  <2> QED BY <2>1, <2>2, <2>3
<1> QED
  BY <1>1, <1>2, <1>3, <1>4, <1>5, <1>6, <1>7, <1>8, <1>9, <1>10, <1>11, <1>12, NextActions

(* Typed is inductive. *)
LEMMA StepTyped ==
  ASSUME Typed, [Next]_vars
  PROVE  Typed'
<1>1. CASE UNCHANGED vars
  BY <1>1 DEF vars, Typed, TypeOK, PCTypeOK, Hands
<1>2. CASE Next
  BY <1>2, StepTypeOK, StepHands DEF Typed
<1> QED BY <1>1, <1>2

(* Every variable has its type in every reachable state. *)
THEOREM TypeCorrect == Spec => []TypeOK
<1>1. Typed => TypeOK
  BY DEF Typed
<1> QED BY <1>1, InitTyped, StepTyped, PTL DEF Spec

-----------------------------------------------------------------------------
(* OneOwner is not inductive: it must be known that a task not yet         *)
(* appended, or already ended, is nowhere, so that appending it creates no *)
(* second place.  Ownership adds it in the form: what is held or queued is *)
(* live.                                                                   *)
HeldIsLive   == \A th \in Threads : arg[th] # Null => fate[arg[th]] = "live"
QueuedIsLive == \A l \in Levels : \A i \in DOMAIN task_queues[l] :
                  fate[task_queues[l][i]] = "live"

Ownership == OneOwner /\ HeldIsLive /\ QueuedIsLive /\ NoneForgotten

LEMMA InitOwnership ==
  ASSUME Init
  PROVE  Ownership
BY PoolAssumption
   DEF Init, Ownership, OneOwner, HeldIsLive, QueuedIsLive, NoneForgotten

LEMMA SameOwners ==
  ASSUME Ownership, UNCHANGED <<task_queues, arg, fate>>
  PROVE  Ownership'
BY DEF Ownership, OneOwner, HeldIsLive, QueuedIsLive, NoneForgotten, Queued

(* append_task takes a fresh task, which is nowhere yet. *)
LEMMA AppendOwnership ==
  ASSUME Typed, Ownership, NEW c \in Clients, NEW t \in Tasks, Append_task(c, t)
  PROVE  Ownership'
<1> USE PoolAssumption DEF Typed, TypeOK, Threads
<1>1. /\ \A th \in Threads : arg[th] # t
      /\ \A l \in Levels : \A i \in DOMAIN task_queues[l] : task_queues[l][i] # t
  BY DEF Append_task, Ownership, HeldIsLive, QueuedIsLive
<1>2. arg[c] = Null /\ UNCHANGED task_queues
  BY DEF Append_task, Hands
<1>3. CASE UNCHANGED arg /\ fate' = [fate EXCEPT ![t] = "refused"]
  <2>1. OneOwner'
    BY <1>2, <1>3 DEF Ownership, OneOwner
  <2>2. HeldIsLive' /\ QueuedIsLive'
    BY <1>1, <1>2, <1>3 DEF Ownership, HeldIsLive, QueuedIsLive
  <2>3. NoneForgotten'
    BY <1>2, <1>3 DEF Ownership, NoneForgotten, Queued
  <2> QED BY <2>1, <2>2, <2>3 DEF Ownership
<1>4. CASE arg' = [arg EXCEPT ![c] = t] /\ fate' = [fate EXCEPT ![t] = "live"]
  <2>1. OneOwner'
    BY <1>1, <1>2, <1>4 DEF Ownership, OneOwner
  <2>2. HeldIsLive' /\ QueuedIsLive'
    BY <1>1, <1>2, <1>4 DEF Ownership, HeldIsLive, QueuedIsLive
  <2>3. ASSUME NEW u \in Tasks, fate'[u] = "live"
        PROVE  Queued(u)' \/ \E th \in Threads : arg'[th] = u
    <3>1. CASE u = t
      BY <1>4, <3>1
    <3>2. CASE u # t
      BY <1>2, <1>4, <2>3, <3>2 DEF Ownership, NoneForgotten, Queued
    <3> QED BY <3>1, <3>2
  <2> QED BY <2>1, <2>2, <2>3 DEF Ownership, NoneForgotten
<1> QED BY <1>3, <1>4 DEF Append_task

(* The insertion moves the task from the thread to the end of a queue. *)
LEMMA PushOwnership ==
  ASSUME Typed, Ownership, NEW th \in Threads, Push(th)
  PROVE  Ownership'
<1> DEFINE t == arg[th]
           l == AppendLevel(th)
           q == task_queues[l]
<1> USE PoolAssumption DEF Typed, TypeOK, Threads
<1>1. t \in Tasks /\ t # Null /\ l \in Levels /\ q \in Seq(Tasks)
  BY DEF Push, Hands, AppendLevel, Levels
<1>2. /\ task_queues' = [task_queues EXCEPT ![l] = Append(q, t)]
      /\ arg' = [arg EXCEPT ![th] = Null]
      /\ UNCHANGED fate
  BY DEF Push
<1> HIDE DEF t, l, q
<1>3. /\ DOMAIN task_queues'[l] = DOMAIN q \cup {Len(q) + 1}
      /\ \A i \in DOMAIN q : task_queues'[l][i] = q[i]
      /\ task_queues'[l][Len(q) + 1] = t
      /\ Len(q) + 1 \notin DOMAIN q
  BY <1>1, <1>2
<1>4. \A k \in Levels \ {l} : task_queues'[k] = task_queues[k]
  BY <1>1, <1>2
<1>5. /\ \A x \in Threads \ {th} : arg[x] # t
      /\ \A k \in Levels : \A i \in DOMAIN task_queues[k] : task_queues[k][i] # t
  BY <1>1 DEF Ownership, OneOwner, t
<1>6. OneOwner'
  <2>1. ASSUME NEW k \in Levels, NEW m \in Levels,
               NEW i \in DOMAIN task_queues'[k], NEW j \in DOMAIN task_queues'[m],
               task_queues'[k][i] = task_queues'[m][j]
        PROVE  k = m /\ i = j
    <3>1. \A n \in Levels : \A h \in DOMAIN task_queues'[n] :
            \/ h \in DOMAIN task_queues[n] /\ task_queues'[n][h] = task_queues[n][h]
            \/ n = l /\ h = Len(q) + 1 /\ task_queues'[n][h] = t
      BY <1>3, <1>4 DEF q
    <3>2. CASE k = l /\ i = Len(q) + 1 /\ task_queues'[k][i] = t
      BY <1>5, <2>1, <3>1, <3>2
    <3>3. CASE m = l /\ j = Len(q) + 1 /\ task_queues'[m][j] = t
      BY <1>5, <2>1, <3>1, <3>3
    <3>4. CASE /\ i \in DOMAIN task_queues[k] /\ task_queues'[k][i] = task_queues[k][i]
               /\ j \in DOMAIN task_queues[m] /\ task_queues'[m][j] = task_queues[m][j]
      <4>1. task_queues[k][i] = task_queues[m][j]
        BY <2>1, <3>4
      <4>2. \A x, y \in Levels : \A f \in DOMAIN task_queues[x], g \in DOMAIN task_queues[y] :
              task_queues[x][f] = task_queues[y][g] => x = y /\ f = g
        BY DEF Ownership, OneOwner
      <4>3. i \in DOMAIN task_queues[k] /\ j \in DOMAIN task_queues[m]
        BY <3>4
      <4> QED BY ONLY <4>1, <4>2, <4>3, k \in Levels, m \in Levels
    <3> QED BY <2>1, <3>1, <3>2, <3>3, <3>4
  <2>2. ASSUME NEW x \in Threads, NEW k \in Levels, NEW i \in DOMAIN task_queues'[k]
        PROVE  arg'[x] # task_queues'[k][i]
    <3>1. task_queues'[k][i] = t \/ (i \in DOMAIN task_queues[k] /\ task_queues'[k][i] = task_queues[k][i])
      BY <1>3, <1>4 DEF q
    <3>2. task_queues'[k][i] \in Tasks
      BY <1>1, <3>1
    <3> QED BY <1>1, <1>2, <1>5, <3>1, <3>2 DEF Ownership, OneOwner
  <2>3. \A a, b \in Threads : arg'[a] # Null /\ arg'[a] = arg'[b] => a = b
    BY <1>2 DEF Ownership, OneOwner
  <2> QED BY <2>1, <2>2, <2>3 DEF OneOwner
<1>7. HeldIsLive'
  BY <1>2 DEF Ownership, HeldIsLive
<1>8. QueuedIsLive'
  <2>1. fate[t] = "live"
    BY <1>1 DEF Ownership, HeldIsLive, t
  <2> QED BY <1>2, <1>3, <1>4, <2>1 DEF Ownership, QueuedIsLive, q
<1>9. ASSUME NEW u \in Tasks, fate'[u] = "live"
      PROVE  Queued(u)' \/ \E x \in Threads : arg'[x] = u
  <2>1. CASE u = t
    <3>1. l \in Levels /\ Len(q) + 1 \in DOMAIN task_queues'[l] /\ task_queues'[l][Len(q) + 1] = u
      BY <1>1, <1>3, <2>1
    <3> QED BY <3>1 DEF Queued
  <2>2. CASE u # t /\ Queued(u)
    <3>1. PICK k \in Levels : \E i \in DOMAIN task_queues[k] : task_queues[k][i] = u
      BY <2>2 DEF Queued
    <3>2. \E i \in DOMAIN task_queues'[k] : task_queues'[k][i] = u
      BY <1>3, <1>4, <3>1 DEF q
    <3> QED BY <3>2 DEF Queued
  <2>3. CASE u # t /\ \E x \in Threads : arg[x] = u
    BY <1>2, <2>3 DEF t
  <2> QED BY <1>2, <1>9, <2>1, <2>2, <2>3 DEF Ownership, NoneForgotten
<1> QED BY <1>6, <1>7, <1>8, <1>9 DEF Ownership, NoneForgotten

(* getTask moves the oldest task of a queue into the worker's hands. *)
LEMMA GetTaskOwnership ==
  ASSUME Typed, Ownership, NEW w \in Workers, GetTask(w)
  PROVE  Ownership'
<1>1. CASE UNCHANGED <<arg, task_queues>>
  BY <1>1, SameOwners DEF GetTask
<1>2. ASSUME NEW l \in Levels, Served(l),
             arg' = [arg EXCEPT ![w] = Head(task_queues[l])],
             task_queues' = [task_queues EXCEPT ![l] = Tail(@)]
      PROVE  Ownership'
  <2> DEFINE q == task_queues[l]
             t == Head(q)
             Old(k, i) == IF k = l THEN i + 1 ELSE i
  <2>1. /\ q \in Seq(Tasks) /\ q # <<>> /\ t = q[1] /\ t \in Tasks /\ 1 \in DOMAIN q
        /\ DOMAIN Tail(q) = 1 .. Len(q) - 1
        /\ \A i \in DOMAIN Tail(q) : i + 1 \in DOMAIN q /\ Tail(q)[i] = q[i + 1]
        /\ \A i \in DOMAIN q \ {1} : i - 1 \in DOMAIN Tail(q) /\ Tail(q)[i - 1] = q[i]
    BY <1>2 DEF Served, Typed, TypeOK
  <2>2. arg[w] = Null /\ UNCHANGED fate
    BY PoolAssumption DEF GetTask, Typed, Hands, Threads
  <2>3. /\ task_queues'[l] = Tail(q)
        /\ \A k \in Levels \ {l} : task_queues'[k] = task_queues[k]
    BY <1>2 DEF Typed, TypeOK
  <2>4. arg'[w] = t /\ \A x \in Threads \ {w} : arg'[x] = arg[x]
    BY <1>2 DEF Typed, TypeOK, Threads
  <2>5. \A k \in Levels : \A i \in DOMAIN task_queues'[k] :
          /\ Old(k, i) \in DOMAIN task_queues[k]
          /\ task_queues'[k][i] = task_queues[k][Old(k, i)]
    BY <2>1, <2>3
  <2>6. \A k \in Levels : \A i \in DOMAIN task_queues'[k] : i \in Int
    <3>1. \A r \in Seq(Tasks) : \A i \in DOMAIN r : i \in Int
      OBVIOUS
    <3>2. task_queues' \in [Levels -> Seq(Tasks)]
      BY <1>2, <2>1 DEF Typed, TypeOK
    <3> QED BY <3>1, <3>2
  <2>7. /\ \A x \in Threads : arg[x] # t
        /\ \A k \in Levels : \A i \in DOMAIN task_queues[k] :
             task_queues[k][i] = t => k = l /\ i = 1
    BY <1>2, <2>1 DEF Ownership, OneOwner
  <2> HIDE DEF t, q, Old
  <2>8. OneOwner'
    <3>1. \A a, b \in Threads : arg'[a] # Null /\ arg'[a] = arg'[b] => a = b
      BY <2>4, <2>7 DEF Ownership, OneOwner
    <3>2. ASSUME NEW k \in Levels, NEW m \in Levels,
                 NEW i \in DOMAIN task_queues'[k], NEW j \in DOMAIN task_queues'[m],
                 task_queues'[k][i] = task_queues'[m][j]
          PROVE  k = m /\ i = j
      <4>1. k = m /\ Old(k, i) = Old(m, j)
        BY <2>5, <3>2 DEF Ownership, OneOwner
      <4> QED BY <2>6, <4>1 DEF Old
    <3>3. ASSUME NEW x \in Threads, NEW k \in Levels, NEW i \in DOMAIN task_queues'[k]
          PROVE  arg'[x] # task_queues'[k][i]
      <4>1. CASE x = w
        <5>1. k = l => Old(k, i) # 1
          BY <2>1, <2>3 DEF Old
        <5> QED BY <2>4, <2>5, <2>7, <4>1, <5>1
      <4>2. CASE x # w
        BY <2>4, <2>5, <4>2 DEF Ownership, OneOwner
      <4> QED BY <4>1, <4>2
    <3> QED BY <3>1, <3>2, <3>3 DEF OneOwner
  <2>9. HeldIsLive'
    <3>1. fate[t] = "live"
      BY <2>1 DEF Ownership, QueuedIsLive, q
    <3> QED BY <2>2, <2>4, <3>1 DEF Ownership, HeldIsLive
  <2>10. QueuedIsLive'
    BY <2>2, <2>5 DEF Ownership, QueuedIsLive
  <2>11. ASSUME NEW u \in Tasks, fate'[u] = "live"
         PROVE  Queued(u)' \/ \E x \in Threads : arg'[x] = u
    <3>1. CASE u = t
      BY <2>4, <3>1 DEF Threads
    <3>2. CASE u # t /\ Queued(u)
      <4>1. PICK k \in Levels : \E i \in DOMAIN task_queues[k] : task_queues[k][i] = u
        BY <3>2 DEF Queued
      <4>2. \E j \in DOMAIN task_queues'[k] : task_queues'[k][j] = u
        <5>1. CASE k = l
          <6>1. PICK i \in DOMAIN q : q[i] = u
            BY <4>1, <5>1 DEF q
          <6>2. i # 1
            BY <2>1, <3>2, <6>1
          <6> QED BY <2>1, <2>3, <5>1, <6>1, <6>2
        <5>2. CASE k # l
          BY <2>3, <4>1, <5>2
        <5> QED BY <5>1, <5>2
      <4> QED BY <4>2 DEF Queued
    <3>3. CASE \E x \in Threads : arg[x] = u
      <4>1. PICK x \in Threads : arg[x] = u
        BY <3>3
      <4>2. x # w
        BY PoolAssumption, <2>2, <4>1
      <4> QED BY <2>4, <4>1, <4>2
    <3> QED BY <2>2, <2>11, <3>1, <3>2, <3>3 DEF Ownership, NoneForgotten
  <2> QED BY <2>8, <2>9, <2>10, <2>11 DEF Ownership, NoneForgotten
<1> QED BY <1>1, <1>2 DEF GetTask

(* A thread drops the task it holds, which is no longer live. *)
LEMMA DropOwnership ==
  ASSUME Typed, Ownership, UNCHANGED task_queues, NEW th \in Threads, arg[th] # Null,
         arg' = [arg EXCEPT ![th] = Null],
         fate' \in [Tasks -> {"fresh", "live", "done", "refused", "destroyed"}],
         fate'[arg[th]] # "live",
         \A t \in Tasks : t # arg[th] => fate'[t] = fate[t]
  PROVE  Ownership'
<1>1. arg[th] \in Tasks
  BY DEF Typed, TypeOK
<1>2. arg'[th] = Null /\ \A x \in Threads \ {th} : arg'[x] = arg[x]
  BY DEF Typed, TypeOK
<1>3. OneOwner'
  <2>1. \A l \in Levels : \A i \in DOMAIN task_queues[l] : task_queues[l][i] \in Tasks
    BY DEF Typed, TypeOK
  <2> QED BY PoolAssumption, <1>2, <2>1 DEF Ownership, OneOwner
<1>4. \A x \in Threads \ {th} : arg[x] # arg[th]
  BY DEF Ownership, OneOwner
<1>5. HeldIsLive'
  BY <1>2, <1>4 DEF Ownership, HeldIsLive, Typed, TypeOK
<1>6. QueuedIsLive'
  BY DEF Ownership, OneOwner, QueuedIsLive, Typed, TypeOK
<1>7. NoneForgotten'
  BY <1>1, <1>2 DEF Ownership, NoneForgotten, Queued
<1> QED BY <1>3, <1>5, <1>6, <1>7 DEF Ownership

LEMMA DoitOwnership ==
  ASSUME Typed, Ownership, NEW th \in Threads, Doit(th)
  PROVE  Ownership'
<1>1. arg[th] \in Tasks /\ arg[th] # Null /\ UNCHANGED task_queues
  BY DEF Doit, Typed, Hands, TypeOK
<1>2. CASE UNCHANGED <<fate, arg>>
  BY <1>1, <1>2, SameOwners
<1>3. ASSUME NEW end \in {"done", "refused"}, fate' = [fate EXCEPT ![arg[th]] = end],
             arg' = [arg EXCEPT ![th] = Null]
      PROVE  Ownership'
  <2>1. /\ fate' \in [Tasks -> {"fresh", "live", "done", "refused", "destroyed"}]
        /\ fate'[arg[th]] # "live"
        /\ \A t \in Tasks : t # arg[th] => fate'[t] = fate[t]
    BY <1>1, <1>3 DEF Typed, TypeOK
  <2> QED BY <1>1, <1>3, <2>1, DropOwnership
<1> QED BY <1>2, <1>3 DEF Doit

LEMMA ReturnOwnership ==
  ASSUME Typed, Ownership, NEW c \in Clients, Return(c)
  PROVE  Ownership'
<1>1. CASE arg[c] = Null
  <2>1. UNCHANGED <<task_queues, arg, fate>>
    BY PoolAssumption, <1>1 DEF Return, Typed, TypeOK
  <2> QED BY <2>1, SameOwners
<1>2. CASE arg[c] # Null
  <2>1. /\ fate' \in [Tasks -> {"fresh", "live", "done", "refused", "destroyed"}]
        /\ fate'[arg[c]] # "live"
        /\ \A t \in Tasks : t # arg[c] => fate'[t] = fate[t]
    BY <1>2 DEF Return, Typed, TypeOK, Threads
  <2>2. c \in Threads /\ UNCHANGED task_queues /\ arg' = [arg EXCEPT ![c] = Null]
    BY DEF Return, Threads
  <2> QED BY <1>2, <2>1, <2>2, DropOwnership
<1> QED BY <1>1, <1>2

(* The detached thread takes over what its client holds. *)
LEMMA StealOwnership ==
  ASSUME Typed, Ownership, NEW s \in Spawned, Steal(s)
  PROVE  Ownership'
<1>1. /\ UNCHANGED <<task_queues, fate>>
      /\ s \in Threads /\ param[s] \in Threads /\ param[s] # s
      /\ arg[s] = Null
  BY PoolAssumption DEF Steal, Typed, Hands, Threads
<1>2. /\ arg'[s] = arg[param[s]] /\ arg'[param[s]] = Null
      /\ \A x \in Threads \ {s, param[s]} : arg'[x] = arg[x]
  BY <1>1 DEF Steal, Typed, TypeOK
<1>3. \A l \in Levels : \A i \in DOMAIN task_queues[l] : task_queues[l][i] # Null
  BY <1>1 DEF Ownership, OneOwner
<1>4. OneOwner'
  BY <1>1, <1>2, <1>3 DEF Ownership, OneOwner
<1>5. HeldIsLive' /\ QueuedIsLive'
  BY <1>1, <1>2 DEF Ownership, HeldIsLive, QueuedIsLive
<1>6. NoneForgotten'
  <2>1. \A x \in Threads, t \in Tasks : arg[x] = t => \E y \in Threads : arg'[y] = t
    BY PoolAssumption, <1>1, <1>2
  <2> QED BY <1>1, <2>1 DEF Ownership, NoneForgotten, Queued
<1> QED BY <1>4, <1>5, <1>6 DEF Ownership

LEMMA StepOwnership ==
  ASSUME Typed, Ownership, [Next]_vars
  PROVE  Ownership'
<1>1. CASE UNCHANGED vars
  BY <1>1, SameOwners DEF vars
<1>2. ASSUME NEW th \in Threads, Notify(th)
      PROVE  Ownership'
  BY <1>2, SameOwners DEF Notify
<1>3. ASSUME NEW c \in Clients, NEW s \in Spawned, PushDetached(c, s)
      PROVE  Ownership'
  BY <1>3, SameOwners DEF PushDetached
<1>4. ASSUME NEW w \in Workers, Check(w) \/ Park(w) \/ SpuriousWake(w)
      PROVE  Ownership'
  BY <1>4, SameOwners DEF Check, Park, SpuriousWake
<1>5. ASSUME NEW s \in Spawned, Dangle(s)
      PROVE  Ownership'
  BY <1>5, SameOwners DEF Dangle
<1>6. CASE Stop \/ NotifyAll \/ Join
  BY <1>6, SameOwners DEF Stop, NotifyAll, Join
<1>7. Workers \cup Spawned \subseteq Threads
  BY DEF Threads
<1> QED
  BY <1>1, <1>2, <1>3, <1>4, <1>5, <1>6, <1>7, NextActions, AppendOwnership,
     PushOwnership, GetTaskOwnership, DoitOwnership, ReturnOwnership, StealOwnership

(* A task is in at most one place: no two threads ever execute the same    *)
(* task, and a task that waits in a queue is in no thread's hands.         *)
THEOREM TasksHaveOneOwner == Spec => []OneOwner
<1>1. Ownership => OneOwner
  BY DEF Ownership
<1> QED BY <1>1, InitTyped, StepTyped, InitOwnership, StepOwnership, PTL DEF Spec

(* A live task is always in some place: no accepted task is forgotten. *)
THEOREM TasksAreNotForgotten == Spec => []NoneForgotten
<1>1. Ownership => NoneForgotten
  BY DEF Ownership
<1> QED BY <1>1, InitTyped, StepTyped, InitOwnership, StepOwnership, PTL DEF Spec

-----------------------------------------------------------------------------
(* stopped counts exactly the workers that left run().  With it, reaching  *)
(* the number of workers means that none is left.                          *)
Exited == {w \in Workers : pc[w] = "exited"}
Counted == stopped = Cardinality(Exited)

LEMMA InitCounted ==
  ASSUME Init
  PROVE  Counted
<1>1. Exited = {}
  BY DEF Init, Exited, Home, Threads
<1> QED BY <1>1, FS_EmptySet DEF Counted, Init

LEMMA StepCounted ==
  ASSUME Typed, Counted, [Next]_vars
  PROVE  Counted'
<1> USE PoolAssumption DEF Typed, TypeOK, PCTypeOK, Threads
<1>1. ASSUME NEW w \in Workers, Check(w), is_stop
      PROVE  Counted'
  <2>1. Exited' = Exited \cup {w} /\ w \notin Exited
    BY <1>1 DEF Check, Exited
  <2>2. IsFiniteSet(Exited)
    BY FS_Subset DEF Exited
  <2>3. Cardinality(Exited') = Cardinality(Exited) + 1
    BY <2>1, <2>2, FS_AddElement
  <2> QED BY <1>1, <2>3 DEF Check, Counted
<1>2. ASSUME NEW w \in Workers, Check(w), ~is_stop
      PROVE  Exited' = Exited /\ stopped' = stopped
  BY <1>2 DEF Check, Exited
<1>3. ASSUME NEW th \in Threads, Notify(th)
      PROVE  Exited' = Exited /\ stopped' = stopped
  BY <1>3 DEF Notify, Home, Waiting, Exited
<1>4. ASSUME NEW th \in Workers \cup Spawned, Doit(th)
      PROVE  Exited' = Exited /\ stopped' = stopped
  BY <1>4 DEF Doit, Home, Exited
<1>5. ASSUME NEW c \in Clients, NEW t \in Tasks, Append_task(c, t)
      PROVE  Exited' = Exited /\ stopped' = stopped
  BY <1>5 DEF Append_task, Exited
<1>6. ASSUME NEW th \in Threads, Push(th)
      PROVE  Exited' = Exited /\ stopped' = stopped
  BY <1>6 DEF Push, Exited
<1>7. ASSUME NEW c \in Clients, NEW s \in Spawned, PushDetached(c, s)
      PROVE  Exited' = Exited /\ stopped' = stopped
  BY <1>7 DEF PushDetached, Exited
<1>8. ASSUME NEW c \in Clients, Return(c)
      PROVE  Exited' = Exited /\ stopped' = stopped
  BY <1>8 DEF Return, Exited
<1>9. ASSUME NEW s \in Spawned, Steal(s) \/ Dangle(s)
      PROVE  Exited' = Exited /\ stopped' = stopped
  BY <1>9 DEF Steal, Dangle, Exited
<1>10. ASSUME NEW w \in Workers, GetTask(w) \/ Park(w) \/ SpuriousWake(w)
       PROVE  Exited' = Exited /\ stopped' = stopped
  BY <1>10 DEF GetTask, Park, SpuriousWake, Exited
<1>11. ASSUME Stop \/ Join \/ UNCHANGED vars
       PROVE  Exited' = Exited /\ stopped' = stopped
  BY <1>11 DEF Stop, Join, vars, Exited
<1>13. ASSUME NotifyAll
       PROVE  Exited' = Exited /\ stopped' = stopped
  BY <1>13 DEF NotifyAll, Waiting, Exited
<1>12. Exited' = Exited /\ stopped' = stopped => Counted'
  BY DEF Counted
<1> QED
  BY <1>1, <1>2, <1>3, <1>4, <1>5, <1>6, <1>7, <1>8, <1>9, <1>10, <1>11, <1>12, <1>13, NextActions

LEMMA NobodyLeft ==
  ASSUME Typed, Counted
  PROVE  AllStoppedQuiescent
<1> SUFFICES ASSUME All_tasks_stopped, NEW w \in Workers
             PROVE  pc[w] = "exited" /\ arg[w] = Null
  BY DEF AllStoppedQuiescent
<1>1. Exited \subseteq Workers /\ IsFiniteSet(Workers)
  BY PoolAssumption DEF Exited
<1>2. Cardinality(Exited) >= Cardinality(Workers)
  BY DEF Counted, All_tasks_stopped
<1>3. Exited = Workers
  BY <1>1, <1>2, FS_Subset, FS_CardinalityType
<1> QED BY <1>3 DEF Exited, Typed, Hands, Threads

(* When all_tasks_stopped answers true, no worker runs or holds a task:    *)
(* what the server relies on when it tears its pools down after the join.  *)
THEOREM StoppedMeansQuiescent == Spec => []AllStoppedQuiescent
BY NobodyLeft, InitTyped, StepTyped, InitCounted, StepCounted, PTL DEF Spec

-----------------------------------------------------------------------------
(* The refinement of TaskPool is for the levels the server uses: a task of *)
(* a level without a queue is executed by a detached thread, outside the   *)
(* width the abstract pool promises.  The constructor's default of three   *)
(* queues covers the levels 0, 1 and 2 that are passed to append_task.     *)
LevelsHaveQueues == \A t \in Tasks : LevelOf[t] < QueuesCount

-----------------------------------------------------------------------------
(* A step takes at most one task out of the queues: the head of the one    *)
(* that is served.                                                         *)
LEMMA TakesTheHead ==
  ASSUME Typed, Next, NEW u \in Tasks, Queued(u), ~Queued(u)'
  PROVE  \E l \in Levels : Served(l) /\ u = task_queues[l][1]
<1> USE DEF Typed, TypeOK
<1>1. ASSUME NEW th \in Threads, Push(th)
      PROVE  FALSE
  <2> DEFINE m == AppendLevel(th)
  <2>1. m \in Levels /\ task_queues' = [task_queues EXCEPT ![m] = Append(@, arg[th])]
    BY <1>1, PoolAssumption DEF Push, AppendLevel, Levels, Hands
  <2>2. PICK l \in Levels : \E i \in DOMAIN task_queues[l] : task_queues[l][i] = u
    BY DEF Queued
  <2>3. PICK i \in DOMAIN task_queues[l] : task_queues[l][i] = u
    BY <2>2
  <2> HIDE DEF m
  <2>4. i \in DOMAIN task_queues'[l] /\ task_queues'[l][i] = u
    <3>1. CASE l # m
      BY <2>1, <2>3, <3>1
    <3>2. CASE l = m
      <4> DEFINE q == task_queues[l]
      <4>1. q \in Seq(Tasks) /\ task_queues'[l] = Append(q, arg[th])
        BY <2>1, <3>2
      <4>2. i \in 1 .. Len(q) /\ q[i] = u
        BY <2>3, <4>1
      <4> HIDE DEF q
      <4>3. i \in DOMAIN Append(q, arg[th]) /\ Append(q, arg[th])[i] = u
        BY <4>1, <4>2
      <4> QED BY <4>1, <4>3
    <3> QED BY <3>1, <3>2
  <2> QED BY <2>4 DEF Queued
<1>2. ASSUME NEW w \in Workers, GetTask(w)
      PROVE  \E l \in Levels : Served(l) /\ u = task_queues[l][1]
  <2>1. PICK k \in Levels : Served(k) /\ task_queues' = [task_queues EXCEPT ![k] = Tail(@)]
    <3>1. ~UNCHANGED task_queues
      BY DEF Queued
    <3> QED BY <1>2, <3>1 DEF GetTask
  <2>2. PICK l \in Levels : \E i \in DOMAIN task_queues[l] : task_queues[l][i] = u
    BY DEF Queued
  <2>3. PICK i \in DOMAIN task_queues[l] : task_queues[l][i] = u
    BY <2>2
  <2>4. l = k
    BY <2>1, <2>3 DEF Queued
  <2>5. i = 1
    <3> DEFINE q == task_queues[l]
    <3>1. q \in Seq(Tasks) /\ task_queues'[l] = Tail(q) /\ i \in 1 .. Len(q) /\ q[i] = u
      BY <2>1, <2>3, <2>4
    <3>2. \A j \in DOMAIN Tail(q) : Tail(q)[j] # u
      BY <3>1 DEF Queued
    <3> HIDE DEF q
    <3>3. i # 1 => i - 1 \in DOMAIN Tail(q) /\ Tail(q)[i - 1] = q[i]
      BY <3>1
    <3> QED BY <3>1, <3>2, <3>3
  <2> QED BY <2>1, <2>3, <2>4, <2>5
<1>3. UNCHANGED task_queues => FALSE
  BY DEF Queued
<1> QED
  BY <1>1, <1>2, <1>3, NextActions
     DEF Append_task, Notify, Doit, PushDetached, Return, Steal, Dangle, Check, Park,
         SpuriousWake, Stop, NotifyAll, Join

(* Among the tasks of a level, and before those of lower levels, the       *)
(* oldest is taken first: a task does not leave its queue while one that   *)
(* precedes it stays.                                                      *)
THEOREM TasksAreNotOvertaken == Spec => TakenInOrder
<1> DEFINE Ordered == \A t, u \in Tasks : Precedes(t, u) /\ Queued(t)' => Queued(u)'
<1>1. ASSUME Typed, Ownership, Next, NEW t \in Tasks, NEW u \in Tasks, Precedes(t, u)
      PROVE  Queued(u)'
  <2>1. PICK k \in Levels, l \in Levels :
          \E i \in DOMAIN task_queues[k], j \in DOMAIN task_queues[l] :
            /\ task_queues[k][i] = t /\ task_queues[l][j] = u
            /\ k > l \/ (k = l /\ i < j)
    BY <1>1 DEF Precedes
  <2>2. PICK i \in DOMAIN task_queues[k], j \in DOMAIN task_queues[l] :
            /\ task_queues[k][i] = t /\ task_queues[l][j] = u
            /\ k > l \/ (k = l /\ i < j)
    BY <2>1
  <2>3. SUFFICES ASSUME ~Queued(u)' PROVE FALSE
    OBVIOUS
  <2>4. PICK m \in Levels : Served(m) /\ u = task_queues[m][1]
    BY <1>1, <2>2, <2>3, TakesTheHead DEF Queued
  <2>5. 1 \in DOMAIN task_queues[m]
    <3>1. task_queues[m] \in Seq(Tasks) /\ task_queues[m] # <<>>
      BY <1>1, <2>4 DEF Served, Typed, TypeOK
    <3> QED BY <3>1
  <2>6. m = l /\ j = 1
    BY <1>1, <2>2, <2>4, <2>5 DEF Ownership, OneOwner
  <2>7. task_queues[k] # <<>> /\ i \in Nat /\ i >= 1
    <3>1. task_queues[k] \in Seq(Tasks)
      BY <1>1 DEF Typed, TypeOK
    <3> QED BY <2>2, <3>1
  <2>8. ~(k > l)
    BY <2>4, <2>6, <2>7 DEF Served
  <2> QED BY <2>2, <2>6, <2>7, <2>8
<1>2. Typed /\ Ownership /\ [Next]_vars => [Ordered]_vars
  BY <1>1
<1> QED BY <1>2, InitTyped, StepTyped, InitOwnership, StepOwnership, PTL DEF Spec, TakenInOrder

-----------------------------------------------------------------------------
(* With a queue for every level no thread is ever detached, so only        *)
(* workers execute tasks.                                                  *)
NoDetached ==
  /\ \A c \in Clients : pc[c] # "return"
  /\ \A s \in Spawned : pc[s] = "none"

(* What the thread in tasks_pool_stop has done so far.                     *)
Stopping ==
  /\ stopper # "idle" => is_stop
  /\ Joined => All_tasks_stopped

Sound == Typed /\ Ownership /\ Counted /\ NoDetached /\ Stopping

LEMMA InitSound == Init => Sound
<1> SUFFICES ASSUME Init PROVE Sound
  OBVIOUS
<1>1. NoDetached
  BY PoolAssumption DEF Init, NoDetached, Threads, Home
<1>2. Stopping
  BY DEF Init, Stopping, Joined
<1> QED BY <1>1, <1>2, InitTyped, InitOwnership, InitCounted DEF Sound

LEMMA StepNoDetached ==
  ASSUME LevelsHaveQueues, Typed, NoDetached, Next
  PROVE  NoDetached'
<1> USE PoolAssumption DEF Typed, TypeOK, PCTypeOK, Threads, NoDetached
<1>1. ASSUME NEW th \in Threads, NEW at \in {"check", "idle", "push", "notify", "get", "park",
                                             "parked", "exited", "doit"},
             pc' = [pc EXCEPT ![th] = at], th \notin Spawned
      PROVE  NoDetached'
  BY <1>1
<1>2. ASSUME NEW c \in Clients, NEW t \in Tasks, Append_task(c, t)
      PROVE  NoDetached'
  <2>1. UNCHANGED pc \/ pc' = [pc EXCEPT ![c] = "push"]
    BY <1>2 DEF Append_task
  <2> QED BY <2>1
<1>3. ASSUME NEW th \in Threads, Push(th)
      PROVE  NoDetached'
  BY <1>1, <1>3 DEF Push
<1>4. ASSUME NEW th \in Threads, Notify(th)
      PROVE  NoDetached'
  <2>1. th \notin Spawned
    BY <1>4 DEF Notify
  <2>2. Home(th) \in {"check", "idle"}
    BY <2>1 DEF Home
  <2>3. CASE pc' = [pc EXCEPT ![th] = Home(th)]
    BY <1>1, <2>1, <2>2, <2>3
  <2>4. ASSUME NEW w \in Waiting, pc' = [pc EXCEPT ![th] = Home(th), ![w] = "check"]
        PROVE  NoDetached'
    BY <2>1, <2>2, <2>4 DEF Waiting
  <2> QED BY <1>4, <2>3, <2>4 DEF Notify
<1>5. ASSUME NEW th \in Workers \cup Spawned, Doit(th)
      PROVE  NoDetached'
  <2>1. th \notin Spawned
    BY <1>5 DEF Doit
  <2>2. Home(th) = "check"
    BY <2>1 DEF Home
  <2>3. pc' = [pc EXCEPT ![th] = "check"] \/ pc' = [pc EXCEPT ![th] = "push"]
    BY <1>5, <2>2 DEF Doit
  <2> QED BY <1>1, <2>1, <2>3
<1>6. ASSUME NEW c \in Clients, NEW s \in Spawned, PushDetached(c, s)
      PROVE  FALSE
  <2>1. arg[c] \in Tasks /\ AppendLevel(c) = LevelOf[arg[c]]
    BY <1>6 DEF PushDetached, Hands, AppendLevel
  <2>2. LevelOf[arg[c]] < QueuesCount /\ LevelOf[arg[c]] \in Nat /\ QueuesCount \in Nat
    BY <2>1 DEF LevelsHaveQueues
  <2> QED BY <1>6, <2>1, <2>2 DEF PushDetached
<1>7. ASSUME NEW w \in Workers, Check(w) \/ Park(w) \/ SpuriousWake(w) \/ GetTask(w)
      PROVE  NoDetached'
  <2>1. \E at \in {"exited", "get", "parked", "check", "park", "doit"} : pc' = [pc EXCEPT ![w] = at]
    BY <1>7 DEF Check, Park, SpuriousWake, GetTask
  <2> QED BY <1>1, <2>1
<1>8. CASE NotifyAll
  BY <1>8 DEF NotifyAll, Waiting
<1>9. CASE Stop \/ Join
  BY <1>9 DEF Stop, Join
<1>10. /\ \A c \in Clients : ~Return(c)
       /\ \A s \in Spawned : ~Steal(s) /\ ~Dangle(s)
  BY DEF Return, Steal, Dangle
<1> QED
  BY <1>2, <1>3, <1>4, <1>5, <1>6, <1>7, <1>8, <1>9, <1>10, NextActions

LEMMA StepStopping ==
  ASSUME Typed, Stopping, Next
  PROVE  Stopping'
<1> USE DEF Stopping, Joined, All_tasks_stopped
<1>1. stopped \in Nat /\ Cardinality(Workers) \in Nat
  BY PoolAssumption, FS_CardinalityType DEF Typed, TypeOK
<1>2. CASE Stop \/ NotifyAll \/ Join
  BY <1>2 DEF Stop, NotifyAll, Join
<1>3. ASSUME NEW w \in Workers, Check(w)
      PROVE  Stopping'
  BY <1>1, <1>3 DEF Check
<1>4. UNCHANGED <<stopper, stopped, is_stop>> => Stopping'
  OBVIOUS
<1> QED
  BY <1>2, <1>3, <1>4, NextActions
     DEF Append_task, Push, GetTask, Notify, Doit, PushDetached, Return, Steal, Dangle, Park,
         SpuriousWake

LEMMA StepSound ==
  ASSUME LevelsHaveQueues, Sound, [Next]_vars
  PROVE  Sound'
<1>1. Typed' /\ Ownership' /\ Counted'
  BY StepTyped, StepOwnership, StepCounted DEF Sound
<1>2. CASE Next
  BY <1>1, <1>2, StepNoDetached, StepStopping DEF Sound
<1>3. CASE UNCHANGED vars
  BY <1>1, <1>3 DEF Sound, vars, NoDetached, Stopping, Joined, All_tasks_stopped
<1> QED BY <1>2, <1>3

-----------------------------------------------------------------------------
(* The abstract state after a step, from what happened to one task.        *)
LEMMA OneTaskChanges ==
  ASSUME NEW t \in Tasks,
         NEW new,
         StateOf'[t] = new,
         \A u \in Tasks \ {t} : StateOf'[u] = StateOf[u]
  PROVE  StateOf' = [StateOf EXCEPT ![t] = new]
<1>1. StateOf = [u \in Tasks |-> StateOf[u]] /\ StateOf' = [u \in Tasks |-> StateOf'[u]]
  BY DEF StateOf
<1> QED BY <1>1

(* Nothing changes abstractly when the same workers execute the same tasks. *)
LEMMA SameState ==
  ASSUME UNCHANGED fate,
         \A w \in Workers : /\ pc'[w] = "doit" <=> pc[w] = "doit"
                            /\ pc[w] = "doit" => arg'[w] = arg[w]
  PROVE  StateOf' = StateOf
<1>1. \A t \in Tasks : Executing(t)' <=> Executing(t)
  BY DEF Executing
<1> QED BY <1>1 DEF StateOf

(* A task that a worker executes is a live one, and only that worker does. *)
LEMMA TheExecutor ==
  ASSUME Typed, Ownership, NEW w \in Workers, pc[w] = "doit"
  PROVE  /\ arg[w] \in Tasks /\ fate[arg[w]] = "live" /\ StateOf[arg[w]] = "running"
         /\ \A x \in Workers : pc[x] = "doit" /\ arg[x] = arg[w] => x = w
<1>1. arg[w] \in Tasks /\ arg[w] # Null
  BY DEF Typed, TypeOK, Hands, Threads
<1>2. fate[arg[w]] = "live"
  BY <1>1 DEF Ownership, HeldIsLive, Threads
<1>3. \A x \in Workers : arg[x] = arg[w] => x = w
  BY <1>1 DEF Ownership, OneOwner, Threads
<1> QED BY <1>1, <1>2, <1>3 DEF StateOf, Executing

LEMMA RunningIsExecuting ==
  ASSUME Typed, NEW t \in Tasks, StateOf[t] = "running"
  PROVE  Executing(t)
BY DEF StateOf, Typed, TypeOK

(* While some worker executes nothing, fewer tasks run than there are      *)
(* workers.                                                                *)
LEMMA RoomForOne ==
  ASSUME Typed, Ownership, NEW w \in Workers, pc[w] # "doit"
  PROVE  Cardinality({t \in Tasks : StateOf[t] = "running"}) < Cardinality(Workers)
<1> DEFINE running == {t \in Tasks : StateOf[t] = "running"}
           busy == {x \in Workers : pc[x] = "doit"}
           task == [x \in busy |-> arg[x]]
<1>1. IsFiniteSet(Workers) /\ IsFiniteSet(Workers \ {w})
      /\ Cardinality(Workers \ {w}) = Cardinality(Workers) - 1
  BY PoolAssumption, FS_RemoveElement
<1>2. IsFiniteSet(busy) /\ Cardinality(busy) <= Cardinality(Workers \ {w})
  BY <1>1, FS_Subset
<1>3. \A x \in busy : task[x] \in running
  BY TheExecutor
<1>4. \A t \in running : \E x \in busy : task[x] = t
  BY RunningIsExecuting DEF Executing
<1> HIDE DEF running
<1>5. task \in Surjection(busy, running)
  BY <1>3, <1>4 DEF Surjection
<1>6. IsFiniteSet(running) /\ Cardinality(running) <= Cardinality(busy)
  BY <1>2, <1>5, FS_Surjection
<1>7. /\ Cardinality(Workers) \in Nat /\ Cardinality(busy) \in Nat
      /\ Cardinality(running) \in Nat
  BY <1>1, <1>2, <1>6, FS_CardinalityType
<1> QED BY <1>1, <1>2, <1>6, <1>7 DEF running

LEMMA Places == Typed => pc = [th \in Threads |-> pc[th]] /\ arg = [th \in Threads |-> arg[th]]
BY DEF Typed, TypeOK, PCTypeOK

LEMMA AppendSubmits ==
  ASSUME Typed, Ownership, NEW c \in Clients, NEW t \in Tasks, Append_task(c, t)
  PROVE  Abstract!Submit(t)
<1> USE PoolAssumption DEF Typed, TypeOK, Threads
<1>1. fate[t] = "fresh" /\ UNCHANGED <<is_stop, stopper>>
  BY DEF Append_task
<1>2. \A w \in Workers : arg[w] # t
  BY <1>1 DEF Ownership, HeldIsLive
<1>3. \A w \in Workers : pc'[w] = pc[w] /\ arg'[w] = arg[w]
  BY Places DEF Append_task
<1>4. \A u \in Tasks : Executing(u)' <=> Executing(u)
  BY <1>3 DEF Executing
<1>5. ~Executing(t)
  BY <1>2 DEF Executing
<1>6. /\ fate'[t] = IF is_stop THEN "refused" ELSE "live"
      /\ \A u \in Tasks \ {t} : fate'[u] = fate[u]
  BY DEF Append_task
<1>7. /\ StateOf[t] = "fresh" /\ StateOf'[t] = IF is_stop THEN "refused" ELSE "pending"
      /\ \A u \in Tasks \ {t} : StateOf'[u] = StateOf[u]
  BY <1>1, <1>4, <1>5, <1>6 DEF StateOf
<1>8. StateOf' = [StateOf EXCEPT ![t] = IF is_stop THEN "refused" ELSE "pending"]
  BY <1>7, OneTaskChanges
<1> QED BY <1>1, <1>7, <1>8 DEF Abstract!Submit, Joined

LEMMA GetTaskBegins ==
  ASSUME Sound, NEW w \in Workers, GetTask(w), ~UNCHANGED task_queues
  PROVE  \E t \in Tasks : Abstract!Begin(t)
<1> USE PoolAssumption DEF Typed, TypeOK, Threads
<1>0. Typed /\ Ownership /\ Counted /\ Stopping
  BY DEF Sound
<1>1. PICK l \in Levels : /\ Served(l)
                          /\ arg' = [arg EXCEPT ![w] = Head(task_queues[l])]
                          /\ pc' = [pc EXCEPT ![w] = "doit"]
  BY DEF GetTask
<1>q. task_queues[l] \in Seq(Tasks) /\ task_queues[l] # <<>>
  BY <1>0, <1>1 DEF Served
<1>t. PICK t \in Tasks : t = Head(task_queues[l])
  BY <1>q
<1>2. 1 \in DOMAIN task_queues[l] /\ t = task_queues[l][1]
  BY <1>q, <1>t
<1>3. pc[w] = "get" /\ UNCHANGED <<is_stop, stopper, fate>>
  BY DEF GetTask
<1>4. fate[t] = "live" /\ \A x \in Workers : arg[x] # t
  BY <1>0, <1>2 DEF Ownership, QueuedIsLive, OneOwner
<1>at. /\ pc'[w] = "doit" /\ arg'[w] = t
       /\ \A x \in Workers \ {w} : pc'[x] = pc[x] /\ arg'[x] = arg[x]
  BY <1>0, <1>1, <1>t, Places
<1>5. ~Executing(t) /\ Executing(t)'
  BY <1>4, <1>at DEF Executing
<1>6. \A u \in Tasks \ {t} : Executing(u)' <=> Executing(u)
  BY <1>3, <1>at DEF Executing
<1>7. /\ StateOf[t] = "pending" /\ StateOf'[t] = "running"
      /\ \A u \in Tasks \ {t} : StateOf'[u] = StateOf[u]
  BY <1>2, <1>3, <1>4, <1>5, <1>6 DEF StateOf
<1>8. StateOf' = [StateOf EXCEPT ![t] = "running"]
  BY <1>2, <1>7, OneTaskChanges
<1>9. Abstract!Cardinality(Abstract!Running) < Cardinality(Workers)
  <2>1. Abstract!Running = {u \in Tasks : StateOf[u] = "running"}
    BY DEF Abstract!Running
  <2>2. Cardinality({u \in Tasks : StateOf[u] = "running"}) < Cardinality(Workers)
    BY <1>0, <1>3, RoomForOne
  <2>3. Abstract!Cardinality(Abstract!Running) = Cardinality(Abstract!Running)
    BY DEF Abstract!Cardinality, Cardinality
  <2> QED BY <2>1, <2>2, <2>3
<1>10. ~Joined /\ Joined' = Joined
  BY <1>0, <1>3, NobodyLeft DEF Stopping, AllStoppedQuiescent, Joined
<1> HIDE DEF Typed, TypeOK, Threads
<1>11. Abstract!Begin(t)
  BY <1>3, <1>7, <1>8, <1>9, <1>10 DEF Abstract!Begin
<1> QED BY <1>2, <1>11

LEMMA DoitEnds ==
  ASSUME Typed, Ownership, NEW w \in Workers, Doit(w)
  PROVE  \E t \in Tasks : Abstract!Submit(t) \/ Abstract!End(t)
<1> USE PoolAssumption DEF Typed, TypeOK, Threads
<1>1. pc[w] = "doit" /\ UNCHANGED <<is_stop, stopper>>
  BY DEF Doit
<1>t. PICK t \in Tasks : t = arg[w]
  BY <1>1, TheExecutor
<1>2. /\ fate[t] = "live" /\ StateOf[t] = "running"
      /\ \A x \in Workers : pc[x] = "doit" /\ arg[x] = t => x = w
  BY <1>1, <1>t, TheExecutor
<1>3. /\ pc'[w] # "doit"
      /\ \A x \in Workers \ {w} : pc'[x] = pc[x] /\ arg'[x] = arg[x]
  <2>1. Home(w) = "check"
    BY DEF Home
  <2>2. \/ pc' = [pc EXCEPT ![w] = "check"] /\ arg' = [arg EXCEPT ![w] = Null]
        \/ pc' = [pc EXCEPT ![w] = "push"] /\ UNCHANGED arg
    BY <2>1 DEF Doit
  <2> QED BY <2>2, Places
<1>4. ~Executing(t)' /\ \A u \in Tasks \ {t} : Executing(u)' <=> Executing(u)
  <2>1. ~Executing(t)'
    BY <1>2, <1>3 DEF Executing
  <2>2. ASSUME NEW u \in Tasks \ {t}
        PROVE  Executing(u)' <=> Executing(u)
    BY <1>1, <1>3, <1>t DEF Executing
  <2> QED BY <2>1, <2>2
<1>5. ASSUME NEW end \in {"done", "refused"}, fate' = [fate EXCEPT ![t] = end]
      PROVE  StateOf' = [StateOf EXCEPT ![t] = end]
  <2>1. StateOf'[t] = end /\ \A u \in Tasks \ {t} : StateOf'[u] = StateOf[u]
    BY <1>2, <1>4, <1>5 DEF StateOf
  <2> QED BY <1>2, <2>1, OneTaskChanges
<1>6. ASSUME UNCHANGED fate
      PROVE  StateOf' = [StateOf EXCEPT ![t] = "pending"]
  <2>1. StateOf'[t] = "pending" /\ \A u \in Tasks \ {t} : StateOf'[u] = StateOf[u]
    BY <1>2, <1>4, <1>6 DEF StateOf
  <2> QED BY <1>2, <2>1, OneTaskChanges
<1>7. \/ fate' = [fate EXCEPT ![t] = "done"]
      \/ is_stop /\ fate' = [fate EXCEPT ![t] = "refused"]
      \/ ~is_stop /\ UNCHANGED fate
  BY <1>t DEF Doit
<1>8. Joined' = Joined
  BY <1>1 DEF Joined
<1>9. Abstract!Submit(t) \/ Abstract!End(t)
  BY <1>1, <1>2, <1>5, <1>6, <1>7, <1>8 DEF Abstract!Submit, Abstract!End
<1> QED BY <1>2, <1>9

(* Every step of the threads is a step of the abstract pool, or none.      *)
LEMMA Simulation ==
  ASSUME LevelsHaveQueues, Sound, [Next]_vars
  PROVE  [Abstract!Next]_(Abstract!tpvars)
<1> DEFINE Goal == [Abstract!Next]_(Abstract!tpvars)
<1> USE DEF Sound, Typed, TypeOK, Threads
<1>0. Typed /\ Ownership /\ Counted /\ Stopping /\ NoDetached
  OBVIOUS
<1>same. ASSUME UNCHANGED <<is_stop, stopper, fate>>,
                \A w \in Workers : /\ pc'[w] = "doit" <=> pc[w] = "doit"
                                   /\ pc[w] = "doit" => arg'[w] = arg[w]
         PROVE  Goal
  <2>1. StateOf' = StateOf
    BY <1>same, SameState
  <2> QED BY <1>same, <2>1 DEF Abstract!tpvars, Joined
<1>1. ASSUME NEW c \in Clients, NEW t \in Tasks, Append_task(c, t)
      PROVE  Goal
  <2>1. Abstract!Submit(t)
    BY <1>0, <1>1, AppendSubmits
  <2> QED BY <2>1 DEF Abstract!Next
<1>2. ASSUME NEW th \in Threads, Push(th)
      PROVE  Goal
  BY <1>same, <1>2 DEF Push
<1>3. ASSUME NEW th \in Threads, Notify(th)
      PROVE  Goal
  <2>1. Home(th) # "doit" /\ pc[th] = "notify" /\ UNCHANGED <<is_stop, stopper, fate, arg>>
    BY <1>3 DEF Home, Notify
  <2>2. CASE pc' = [pc EXCEPT ![th] = Home(th)]
    BY <1>same, <2>1, <2>2
  <2>3. ASSUME NEW w \in Waiting, pc' = [pc EXCEPT ![th] = Home(th), ![w] = "check"]
        PROVE  Goal
    <3>1. w \in Workers /\ pc[w] = "parked"
      BY <2>3 DEF Waiting
    <3>2. \A x \in Workers : pc'[x] = "doit" <=> pc[x] = "doit"
      BY <1>0, <2>1, <2>3, <3>1, Places
    <3> QED BY <1>same, <2>1, <3>2
  <2> QED BY <1>3, <2>2, <2>3 DEF Notify
<1>4. ASSUME NEW w \in Workers, Doit(w)
      PROVE  Goal
  <2>1. \E t \in Tasks : Abstract!Submit(t) \/ Abstract!End(t)
    BY <1>0, <1>4, DoitEnds
  <2> QED BY <2>1 DEF Abstract!Next
<1>5. ASSUME NEW w \in Workers, GetTask(w)
      PROVE  Goal
  <2>1. CASE ~UNCHANGED task_queues
    <3>1. \E t \in Tasks : Abstract!Begin(t)
      BY <1>5, <2>1, GetTaskBegins
    <3> QED BY <3>1 DEF Abstract!Next
  <2>2. CASE UNCHANGED task_queues
    <3>1. pc' = [pc EXCEPT ![w] = "park"] /\ UNCHANGED arg
      <4>1. ASSUME NEW l \in Levels, Served(l), task_queues' = [task_queues EXCEPT ![l] = Tail(@)]
            PROVE  FALSE
        <5> DEFINE q == task_queues[l]
        <5>1. q \in Seq(Tasks) /\ q # <<>>
          BY <4>1 DEF Served
        <5>2. q = Tail(q)
          BY <2>2, <4>1
        <5> HIDE DEF q, Goal
        <5>3. Len(Tail(q)) = Len(q) - 1 /\ Len(q) \in Nat
          BY ONLY <5>1
        <5> QED BY ONLY <5>2, <5>3
      <4> QED BY <1>5, <4>1 DEF GetTask
    <3> QED BY <1>5, <1>same, <3>1 DEF GetTask
  <2> QED BY <2>1, <2>2
<1>6. ASSUME NEW w \in Workers, Check(w) \/ Park(w) \/ SpuriousWake(w)
      PROVE  Goal
  <2>1. /\ UNCHANGED <<is_stop, stopper, fate, arg>>
        /\ pc[w] # "doit"
        /\ \E at \in {"exited", "get", "parked", "check"} : pc' = [pc EXCEPT ![w] = at]
    BY <1>6 DEF Check, Park, SpuriousWake
  <2> QED BY <1>same, <2>1
<1>7. ASSUME Stop
      PROVE  Goal
  <2>1. stopper = "idle" /\ is_stop' = TRUE /\ stopper' = "notify" /\ UNCHANGED <<fate, pc, arg>>
    BY <1>7 DEF Stop
  <2>2. StateOf' = StateOf
    BY <2>1, SameState
  <2>3. Joined' = Joined
    BY <2>1 DEF Joined
  <2>4. Abstract!Close
    BY <2>1, <2>2, <2>3 DEF Abstract!Close
  <2> QED BY <2>4 DEF Abstract!Next
<1>8. ASSUME NotifyAll
      PROVE  Goal
  <2>1. /\ UNCHANGED <<is_stop, fate, arg>> /\ stopper = "notify" /\ stopper' = "spin"
        /\ \A x \in Workers : pc'[x] = IF x \in Waiting THEN "check" ELSE pc[x]
    BY <1>8 DEF NotifyAll
  <2>2. StateOf' = StateOf
    BY <2>1, SameState DEF Waiting
  <2>3. Joined' = Joined
    BY <2>1 DEF Joined
  <2> QED BY <2>1, <2>2, <2>3 DEF Abstract!tpvars
<1>9. ASSUME Join
      PROVE  Goal
  <2>1. /\ UNCHANGED <<is_stop, fate, pc, arg>> /\ All_tasks_stopped
        /\ stopper = "spin" /\ stopper' = "joined"
    BY <1>9 DEF Join
  <2>2. StateOf' = StateOf
    BY <2>1, SameState
  <2>3. \A w \in Workers : pc[w] = "exited"
    BY <1>0, <2>1, NobodyLeft DEF AllStoppedQuiescent
  <2>4. \A t \in Tasks : StateOf[t] # "running"
    BY <1>0, <2>3, RunningIsExecuting DEF Executing
  <2>5. is_stop /\ Joined' = TRUE
    BY <1>0, <2>1 DEF Stopping, Joined
  <2>6. Abstract!Join
    BY <2>1, <2>2, <2>4, <2>5 DEF Abstract!Join, Abstract!Running
  <2> QED BY <2>6 DEF Abstract!Next
<1>10. ASSUME UNCHANGED vars
       PROVE  Goal
  BY <1>same, <1>10 DEF vars
<1>11. /\ \A c \in Clients : ~Return(c)
       /\ \A s \in Spawned : ~Steal(s) /\ ~Dangle(s) /\ ~Doit(s)
  BY <1>0 DEF NoDetached, Return, Steal, Dangle, Doit
<1>12. ASSUME NEW c \in Clients, NEW s \in Spawned, PushDetached(c, s)
       PROVE  Goal
  <2>1. NoDetached'
    BY <1>0, <1>12, StepNoDetached DEF Next, ClientStep
  <2>2. pc'[s] = "steal"
    BY <1>0, <1>12, Places DEF PushDetached
  <2> QED BY <2>1, <2>2 DEF NoDetached
<1>13. Next \/ UNCHANGED vars
  OBVIOUS
<1> HIDE DEF Goal, Sound, Typed, TypeOK, Threads
<1>14. Goal
  BY <1>1, <1>2, <1>3, <1>4, <1>5, <1>6, <1>7, <1>8, <1>9, <1>10, <1>11, <1>12, <1>13, NextActions
<1> QED BY <1>14 DEF Goal

LEMMA InitialState == Init => Abstract!Init
<1> SUFFICES ASSUME Init PROVE Abstract!Init
  OBVIOUS
<1>1. is_stop = FALSE /\ Joined = FALSE /\ \A t \in Tasks : fate[t] = "fresh"
  BY DEF Init, Joined
<1>2. StateOf = [t \in Tasks |-> "fresh"]
  BY <1>1 DEF StateOf
<1> QED BY <1>1, <1>2 DEF Abstract!Init

(* Refinement: with a queue for every level, whatever the threads, the     *)
(* queues and the condition variable do is something TaskPool promises.    *)
THEOREM ThreadsImplementThePool ==
  ASSUME LevelsHaveQueues
  PROVE  Spec => ImplementsTaskPool
<1>1. Sound /\ [Next]_vars => Sound'
  BY StepSound
<1>2. Sound /\ [Next]_vars => [Abstract!Next]_(Abstract!tpvars)
  BY Simulation
<1> QED BY <1>1, <1>2, InitSound, InitialState, PTL DEF Spec, ImplementsTaskPool, Abstract!Spec
=============================================================================
