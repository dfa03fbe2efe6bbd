-------------------------- MODULE QuicStreamProofs --------------------------
(***************************************************************************)
(* Proofs, for any set of streams and bodies of any length, of the safety  *)
(* properties that MCQuicStream checks for two streams: that a request     *)
(* handler reads its body only while the loop is parked on its mutex, that *)
(* a waiting reader can still be woken, and that no DATA event is dropped  *)
(* under a reader.                                                         *)
(*                                                                         *)
(* The invariant follows one request through its reads: Turns says, for    *)
(* every place of the handler, whose turn it is.  It holds of the streams  *)
(* on which no wait has timed out, which are those the properties speak    *)
(* of; a timeout is how the code gives up on taking turns.                 *)
(***************************************************************************)
EXTENDS QuicStream, TLAPS

(* The handler is owed what the peer has not sent yet and what has         *)
(* arrived; nothing arrives before the headers.                            *)
BodyLeft ==
  \A s \in Streams : /\ task[s].body_left = quic[s].net + quic[s].ready
                     /\ quic[s].headers = "none" => quic[s].ready = 0

(* The loop holds the request's worker mutex and waits for it once more.   *)
Parked(s, places) == loop.pc \in places /\ loop.s = s /\ held[s].worker

Before(s) ==
  /\ task[s].pc = "none" <=> quic[s].headers # "taken"
  /\ task[s].pc = "none" =>
       ~task[s].v_body /\ ~task[s].v_read /\ ~task[s].is_deleting /\ ~quic[s].told
       /\ s \notin tasks
  /\ task[s].pc = "queued" =>
       /\ ~task[s].v_body /\ ~task[s].v_read /\ ~task[s].is_deleting /\ ~quic[s].told
       /\ Parked(s, {"h_wait"})

Reading(s) ==
  /\ task[s].pc = "r_enter" =>
       /\ task[s].v_body /\ ~task[s].is_deleting
       /\ task[s].v_read => Parked(s, {"d_wait"})
       /\ ~task[s].v_read => Parked(s, {"h_wait"}) /\ ~quic[s].told
  /\ task[s].pc \in {"r_lock", "r_ask"} =>
       /\ task[s].v_body /\ ~task[s].v_read /\ ~task[s].is_deleting /\ ~quic[s].told
       /\ Parked(s, {"h_wait", "d_wait"})
  /\ task[s].pc = "r_ask" => held[s].read
  /\ task[s].pc = "r_wait" =>
       /\ task[s].v_body /\ ~task[s].v_read
       /\ held[s].read =>
            /\ ~task[s].is_deleting
            /\ quic[s].told => loop.pc \in {"d_lock", "d_check"} /\ loop.s = s
       /\ ~held[s].read => task[s].is_deleting \/ Parked(s, {"d_wait"})
  /\ task[s].pc = "recv" =>
       task[s].v_body /\ task[s].v_read /\ ~task[s].is_deleting /\ Parked(s, {"d_wait"})

Answering(s) ==
  /\ task[s].pc = "user" /\ ~task[s].is_deleting =>
       /\ task[s].v_body => task[s].v_read /\ Parked(s, {"d_wait"})
       /\ ~task[s].v_body => task[s].body_left = 0
  /\ task[s].pc = "respond" /\ ~task[s].is_deleting /\ task[s].v_body => Parked(s, {"d_wait"})
  /\ task[s].pc \notin {"none", "queued", "r_enter", "r_lock", "r_ask", "r_wait", "recv", "user",
                        "respond"} =>
       ~task[s].v_body \/ task[s].is_deleting
  /\ task[s].pc \notin {"none", "destroy", "gone"} /\ ~task[s].is_deleting => s \in tasks

Serving(s) ==
  /\ loop.pc \in {"w_lock", "w_check", "w_wait", "w_unlock"} /\ loop.s = s =>
       ~task[s].v_body /\ task[s].pc \notin {"none", "queued"}
  /\ loop.pc \in {"d_lock", "d_check"} /\ loop.s = s =>
       task[s].pc = "r_wait" /\ ~task[s].is_deleting /\ held[s].read
  /\ loop.pc = "d_check" /\ loop.s = s => held[s].worker

Turns(s) == Before(s) /\ Reading(s) /\ Answering(s) /\ Serving(s)

IInv == TypeOK /\ BodyLeft /\ \A s \in Streams \ late : Turns(s)

TaskRec ==
  [pc : TaskPCs, is_deleting : BOOLEAN, has_id : BOOLEAN, v_body : BOOLEAN, v_read : BOOLEAN,
   body_left : Nat, buff : {"binary", "file", "announced"}, text : Nat, fti : Nat, preSize : Nat]

HeldRec == [read : BOOLEAN, write : BOOLEAN, worker : BOOLEAN]

QuicRec == [headers : {"none", "ready", "taken"}, net : Nat, ready : Nat, told : BOOLEAN]

LoopRec == [pc : LoopPCs, s : Streams \cup {Nil}, todo : SUBSET Streams]

Records ==
  /\ loop \in LoopRec
  /\ task \in [Streams -> TaskRec]
  /\ held \in [Streams -> HeldRec]
  /\ quic \in [Streams -> QuicRec]
  /\ tasks \subseteq Streams

Bounds ==
  \A s \in Streams :
    /\ task[s].body_left <= MaxBody[s] /\ task[s].text <= MaxText[s]
    /\ task[s].fti <= MaxFile[s] /\ task[s].preSize <= MaxFile[s]
    /\ quic[s].net + quic[s].ready <= MaxBody[s]

History ==
  /\ closed \in BOOLEAN /\ freed \in BOOLEAN /\ open \in BOOLEAN
  /\ late \subseteq Streams /\ touched \subseteq Streams

LEMMA TypeParts ==
  /\ TypeOK => Records /\ Bounds /\ History
  /\ Records /\ Bounds /\ History => TypeOK
  /\ Records' /\ Bounds' /\ History' => TypeOK'
<1> DEFINE Fields == \A s \in Streams :
             /\ MaxBody[s] \in Nat /\ MaxFile[s] \in Nat /\ MaxText[s] \in Nat
             /\ task[s].body_left \in Nat /\ task[s].text \in Nat
             /\ task[s].fti \in Nat /\ task[s].preSize \in Nat
             /\ quic[s].net \in Nat /\ quic[s].ready \in Nat
           Ranges == \A s \in Streams :
             /\ task[s].body_left \in 0..MaxBody[s] /\ task[s].text \in 0..MaxText[s]
             /\ task[s].fti \in 0..MaxFile[s] /\ task[s].preSize \in 0..MaxFile[s]
             /\ quic[s].net + quic[s].ready \in 0..MaxBody[s]
<1>1. Records => Fields
  BY StreamAssumption DEF Records, TaskRec, QuicRec
<1>2. Records' => Fields'
  BY StreamAssumption DEF Records, TaskRec, QuicRec
<1>3. Fields => (Bounds <=> Ranges)
  BY DEF Bounds
<1>4. Fields' => (Bounds' <=> Ranges')
  BY DEF Bounds
<1> HIDE DEF Fields
<1>5. TypeOK <=> Records /\ Ranges /\ History
  BY DEF TypeOK, Records, History, LoopRec, TaskRec, HeldRec, QuicRec
<1>6. TypeOK' <=> Records' /\ Ranges' /\ History'
  BY DEF TypeOK, Records, History, LoopRec, TaskRec, HeldRec, QuicRec
<1> QED BY <1>1, <1>2, <1>3, <1>4, <1>5, <1>6

(* The steps, one disjunct per action. *)
LEMMA NextActions ==
  ASSUME Next
  PROVE  \/ Loop_recv \/ Loop_unlocked \/ Loop_flush \/ Conn_closes \/ Conn_free \/ Pool_closes
         \/ \E s \in Streams :
              \/ Loop_writable(s) \/ Loop_w_lock(s) \/ Loop_w_check(s)
              \/ Loop_headers(s) \/ Loop_trailers(s) \/ Loop_h_timeout(s)
              \/ Loop_data(s) \/ Loop_d_lock(s) \/ Loop_d_check(s)
              \/ Loop_resume(s) \/ Loop_release(s) \/ Conn_reap(s)
         \/ \E s \in Streams : HandlerSteps(s)
BY DEF Next, LoopSteps

-----------------------------------------------------------------------------
(* What is left of a step once the moves of the loop are taken away: the   *)
(* records of one stream change, and those of the others do not.           *)
OthersSame(s) ==
  \A t \in Streams \ {s} : task'[t] = task[t] /\ held'[t] = held[t] /\ quic'[t] = quic[t]

(* What the two updates of a handler's record do to it.                    *)
SameButPc(s) ==
  /\ task'[s].v_body = task[s].v_body /\ task'[s].v_read = task[s].v_read
  /\ task'[s].body_left = task[s].body_left /\ task'[s].text = task[s].text

LEMMA Goes ==
  ASSUME Records, NEW s \in Streams, NEW pc \in TaskPCs, Goto(s, pc)
  PROVE  /\ task' \in [Streams -> TaskRec]
         /\ \A t \in Streams \ {s} : task'[t] = task[t]
         /\ task'[s].pc = pc /\ SameButPc(s) /\ task'[s].is_deleting = task[s].is_deleting
         /\ task'[s].fti = task[s].fti /\ task'[s].preSize = task[s].preSize
<1>1. task \in [Streams -> TaskRec] /\ task' = [task EXCEPT ![s].pc = pc]
  BY DEF Records, Goto
<1> QED BY <1>1 DEF TaskRec, SameButPc

LEMMA GivesUp ==
  ASSUME Records, NEW s \in Streams, NEW pc \in TaskPCs, GiveUp(s, pc)
  PROVE  /\ task' \in [Streams -> TaskRec]
         /\ \A t \in Streams \ {s} : task'[t] = task[t]
         /\ task'[s].pc = pc /\ SameButPc(s) /\ task'[s].is_deleting
         /\ task'[s].fti = task[s].fti /\ task'[s].preSize = task[s].preSize
<1>1. task \in [Streams -> TaskRec] /\ task' = [task EXCEPT ![s].pc = pc, ![s].is_deleting = TRUE]
  BY DEF Records, GiveUp
<1> QED BY <1>1 DEF TaskRec, SameButPc

LEMMA Releases ==
  ASSUME Records, NEW s \in Streams, NEW m \in {"read", "write", "worker"}, Release(s, m)
  PROVE  /\ held' \in [Streams -> HeldRec]
         /\ \A t \in Streams \ {s} : held'[t] = held[t]
         /\ ~held'[s][m]
         /\ m # "read" => held'[s].read = held[s].read
         /\ m # "worker" => held'[s].worker = held[s].worker
<1>1. held \in [Streams -> HeldRec] /\ held' = [held EXCEPT ![s][m] = FALSE]
  BY DEF Records, Release
<1>2. CASE m = "read"
  BY <1>1, <1>2 DEF HeldRec
<1>3. CASE m = "write"
  BY <1>1, <1>3 DEF HeldRec
<1>4. CASE m = "worker"
  BY <1>1, <1>4 DEF HeldRec
<1> QED BY <1>2, <1>3, <1>4

LEMMA Acquires ==
  ASSUME Records, NEW s \in Streams, NEW m \in {"read", "write", "worker"}, Acquire(s, m)
  PROVE  /\ held' \in [Streams -> HeldRec]
         /\ \A t \in Streams \ {s} : held'[t] = held[t]
         /\ ~held[s][m] /\ held'[s][m]
         /\ m # "read" => held'[s].read = held[s].read
         /\ m # "worker" => held'[s].worker = held[s].worker
<1>1. held \in [Streams -> HeldRec] /\ held' = [held EXCEPT ![s][m] = TRUE] /\ ~held[s][m]
  BY DEF Records, Acquire
<1>2. CASE m = "read"
  BY <1>1, <1>2 DEF HeldRec
<1>3. CASE m = "write"
  BY <1>1, <1>3 DEF HeldRec
<1>4. CASE m = "worker"
  BY <1>1, <1>4 DEF HeldRec
<1> QED BY <1>2, <1>3, <1>4

LEMMA UnlocksAll ==
  ASSUME Records, NEW s \in Streams, UnlockAll(s)
  PROVE  /\ held' \in [Streams -> HeldRec]
         /\ \A t \in Streams \ {s} : held'[t] = held[t]
         /\ ~held'[s].read /\ ~held'[s].write /\ ~held'[s].worker
<1> DEFINE free == [read |-> FALSE, write |-> FALSE, worker |-> FALSE]
<1>1. held \in [Streams -> HeldRec]
  BY DEF Records
<1>4. free \in HeldRec /\ ~free.read /\ ~free.write /\ ~free.worker
  BY DEF HeldRec
<1>5. held' = [held EXCEPT ![s] = free]
  BY DEF UnlockAll
<1> HIDE DEF free
<1>6. held' \in [Streams -> HeldRec] /\ held'[s] = free
  BY <1>1, <1>4, <1>5
<1>7. \A t \in Streams \ {s} : held'[t] = held[t]
  BY <1>1, <1>5
<1> QED BY <1>4, <1>6, <1>7

(* A handler touches nothing of the other streams, nor the loop. *)
LEMMA HandlerFrame ==
  ASSUME TypeOK, NEW s \in Streams, HandlerSteps(s)
  PROVE  /\ loop' = loop
         /\ tasks' = tasks \/ tasks' = tasks \ {s}
         /\ late' = late \/ late' = late \cup {s}
         /\ UNCHANGED <<freed, open, touched>> /\ (closed' = closed \/ closed' = TRUE)
<1>1. CASE Handler_start(s) \/ User(s) \/ Respond(s) \/ Finish(s) \/ Read_enter(s) \/ Read_lock(s)
  BY <1>1 DEF Handler_start, User, Respond, Finish, Read_enter, Read_lock
<1>2. CASE Read_ask(s) \/ Read_woken(s) \/ Read_timeout(s) \/ Read_recv(s)
  BY <1>2 DEF Read_ask, Read_woken, Read_timeout, Read_recv
<1>3. CASE Write_enter(s) \/ Write_lock(s) \/ Write_ask(s) \/ Write_wait(s)
  BY <1>3 DEF Write_enter, Write_lock, Write_ask, Write_wait
<1>4. CASE File_lock(s) \/ File_ask(s) \/ File_wait(s)
  BY <1>4 DEF File_lock, File_ask, File_wait
<1>5. CASE End_close(s) \/ End_unlock(s) \/ End_erase(s) \/ Destroy(s)
  BY <1>5 DEF End_close, End_unlock, End_erase, Destroy, TypeOK
<1> QED BY <1>1, <1>2, <1>3, <1>4, <1>5 DEF HandlerSteps

LEMMA HandlerHeld ==
  ASSUME Records, NEW s \in Streams, HandlerSteps(s)
  PROVE  /\ held' \in [Streams -> HeldRec]
         /\ \A t \in Streams \ {s} : held'[t] = held[t]
<1> DEFINE Goal == /\ held' \in [Streams -> HeldRec]
                   /\ \A t \in Streams \ {s} : held'[t] = held[t]
<1>1. ASSUME UNCHANGED held
      PROVE  Goal
  BY <1>1 DEF Records
<1>2. ASSUME Release(s, "read") \/ Release(s, "write") \/ Release(s, "worker")
      PROVE  Goal
  BY <1>2, Releases
<1>3. ASSUME Acquire(s, "read") \/ Acquire(s, "write")
      PROVE  Goal
  BY <1>3, Acquires
<1>4. ASSUME UnlockAll(s)
      PROVE  Goal
  BY <1>4, UnlocksAll
<1> HIDE DEF Goal
<1>5. Goal
  BY <1>1, <1>2, <1>3, <1>4
     DEF HandlerSteps, Handler_start, User, Respond, Finish, Read_enter, Read_lock, Read_ask,
         Read_woken, Read_timeout, Read_recv, Write_enter, Write_lock, Write_ask, Write_wait,
         File_lock, File_ask, File_wait, End_close, End_unlock, End_erase, Destroy
<1> QED BY <1>5 DEF Goal

LEMMA HandlerQuic ==
  ASSUME Records, NEW s \in Streams, HandlerSteps(s)
  PROVE  \/ ~Read_recv(s) /\ UNCHANGED quic
         \/ /\ Read_recv(s) /\ quic[s].ready > 0
            /\ quic' = [quic EXCEPT ![s].ready = @ - 1]
         \/ /\ Read_recv(s) /\ quic[s].ready = 0
            /\ quic' = [quic EXCEPT ![s].told = FALSE]
<1>1. quic[s].ready \in Nat
  BY DEF Records, QuicRec
<1>2. CASE Read_recv(s)
  BY <1>1, <1>2 DEF Read_recv
<1>3. CASE ~Read_recv(s)
  BY <1>3
     DEF HandlerSteps, Handler_start, User, Respond, Finish, Read_enter, Read_lock, Read_ask,
         Read_woken, Read_timeout, Write_enter, Write_lock, Write_ask, Write_wait,
         File_lock, File_ask, File_wait, End_close, End_unlock, End_erase, Destroy
<1> QED BY <1>2, <1>3

LEMMA HandlerTask ==
  ASSUME Records, BodyLeft, Bounds, NEW s \in Streams, HandlerSteps(s)
  PROVE  /\ task' \in [Streams -> TaskRec]
         /\ \A t \in Streams \ {s} : task'[t] = task[t]
         /\ task'[s].text <= MaxText[s]
         /\ task'[s].fti <= MaxFile[s] /\ task'[s].preSize <= MaxFile[s]
         /\ \/ ~Read_recv(s) /\ task'[s].body_left = task[s].body_left
            \/ /\ Read_recv(s)
               /\ task'[s].body_left = task[s].body_left - (IF quic[s].ready > 0 THEN 1 ELSE 0)
<1> DEFINE Own == /\ task' \in [Streams -> TaskRec]
                  /\ \A t \in Streams \ {s} : task'[t] = task[t]
                  /\ task'[s].text <= MaxText[s]
                  /\ task'[s].fti <= MaxFile[s] /\ task'[s].preSize <= MaxFile[s]
           Goal == Own /\ task'[s].body_left = task[s].body_left
<1>0. /\ task \in [Streams -> TaskRec] /\ MaxFile[s] \in Nat /\ MaxText[s] \in Nat
      /\ task[s].text <= MaxText[s] /\ task[s].fti <= MaxFile[s] /\ task[s].preSize <= MaxFile[s]
      /\ task[s].body_left = quic[s].net + quic[s].ready
      /\ quic[s].net \in Nat /\ quic[s].ready \in Nat
  BY StreamAssumption DEF Records, Bounds, BodyLeft, QuicRec
<1>p. {"r_enter", "user", "recv", "respond", "f_wait", "r_lock", "w_enter", "final"} \subseteq TaskPCs
  BY DEF TaskPCs
<1>1. ASSUME UNCHANGED task
      PROVE  Goal
  BY <1>0, <1>1
<1>2. ASSUME NEW pc \in TaskPCs, Goto(s, pc)
      PROVE  Goal
  BY <1>0, <1>2, Goes DEF SameButPc
<1>3. ASSUME NEW pc \in TaskPCs, GiveUp(s, pc)
      PROVE  Goal
  BY <1>0, <1>3, GivesUp DEF SameButPc
<1>4. ASSUME task' = [task EXCEPT ![s].pc = "r_enter", ![s].v_body = TRUE]
      PROVE  Goal
  BY <1>0, <1>4, <1>p DEF TaskRec
<1>5. ASSUME \/ task' = [task EXCEPT ![s].pc = "user"]
             \/ task' = [task EXCEPT ![s].pc = "recv", ![s].v_read = TRUE]
      PROVE  Goal
  BY <1>0, <1>5, <1>p DEF TaskRec
<1>6. ASSUME NEW b \in {"binary", "file"}, task' = [task EXCEPT ![s].pc = "respond", ![s].buff = b]
      PROVE  Goal
  BY <1>0, <1>6, <1>p DEF TaskRec
<1>7. ASSUME NEW pc \in TaskPCs, NEW n \in 0..MaxText[s], Headers(s, pc, n)
      PROVE  Goal
  <2>1. n \in Nat /\ n <= MaxText[s]
    BY <1>0
  <2> DEFINE r == [task[s] EXCEPT !.v_body = FALSE, !.pc = pc, !.text = n]
  <2>2. task' = [task EXCEPT ![s] = r]
    BY <1>0, <1>7 DEF Headers
  <2>3. r \in TaskRec
    BY <1>0, <2>1 DEF TaskRec
  <2>4. /\ r.text = n /\ r.fti = task[s].fti /\ r.preSize = task[s].preSize
        /\ r.body_left = task[s].body_left
    BY <1>0 DEF TaskRec
  <2> HIDE DEF r
  <2>5. task' \in [Streams -> TaskRec] /\ task'[s] = r
    BY <1>0, <2>2, <2>3
  <2>6. \A t \in Streams \ {s} : task'[t] = task[t]
    BY <1>0, <2>2
  <2> QED BY <1>0, <2>1, <2>4, <2>5, <2>6
<1>t. ASSUME NEW pc \in {"final", "w_enter"}, NEW n \in Nat, n <= MaxText[s],
             task' = [task EXCEPT ![s].pc = pc, ![s].text = n]
      PROVE  Goal
  BY <1>0, <1>t, <1>p DEF TaskRec
<1>s. ASSUME Sent(s)
      PROVE  Goal
  <2>1. task[s].text \in Nat
    BY <1>0 DEF TaskRec
  <2>2. CASE task' = [task EXCEPT ![s].pc = "final", ![s].text = 0]
    <3>1. 0 \in Nat /\ 0 <= MaxText[s]
      BY <1>0
    <3> HIDE DEF Goal
    <3> QED BY <1>t, <2>2, <3>1
  <2>3. CASE /\ task[s].text > 1
             /\ task' = [task EXCEPT ![s].pc = "w_enter", ![s].text = @ - 1]
    <3>1. task[s].text - 1 \in Nat /\ task[s].text - 1 <= MaxText[s]
      BY <1>0, <2>1, <2>3
    <3>2. task' = [task EXCEPT ![s].pc = "w_enter", ![s].text = task[s].text - 1]
      BY <2>3
    <3> HIDE DEF Goal
    <3> QED BY <1>t, <3>1, <3>2
  <2> QED BY <1>s, <2>2, <2>3 DEF Sent
<1>8. ASSUME NEW n \in 0..MaxFile[s],
             task' = [task EXCEPT ![s].pc = "f_wait", ![s].preSize = n, ![s].buff = "announced",
                                  ![s].fti = n]
      PROVE  Goal
  <2>1. n \in Nat /\ n <= MaxFile[s]
    BY <1>0
  <2>2. /\ task'[s].fti = n /\ task'[s].preSize = n /\ task'[s].body_left = task[s].body_left
        /\ task'[s].text = task[s].text
    BY <1>0, <1>8 DEF TaskRec
  <2>3. \A t \in Streams \ {s} : task'[t] = task[t]
    BY <1>0, <1>8
  <2>4. task' \in [Streams -> TaskRec]
    <3> DEFINE r == [task[s] EXCEPT !.pc = "f_wait", !.preSize = n, !.buff = "announced", !.fti = n]
    <3>1. r \in TaskRec
      BY <1>0, <2>1, <1>p DEF TaskRec
    <3>2. task' = [task EXCEPT ![s] = r]
      BY <1>0, <1>8
    <3> HIDE DEF r
    <3> QED BY <1>0, <3>1, <3>2
  <2> QED BY <1>0, <2>1, <2>2, <2>3, <2>4
<1>9. ASSUME task' = [task EXCEPT ![s].preSize = task[s].fti]
      PROVE  Goal
  BY <1>0, <1>9 DEF TaskRec
<1>10. ASSUME Read_recv(s)
       PROVE  /\ Own
              /\ task'[s].body_left = task[s].body_left - (IF quic[s].ready > 0 THEN 1 ELSE 0)
  <2>1. CASE quic[s].ready > 0
    <3>1. task' = [task EXCEPT ![s].pc = "user", ![s].body_left = @ - 1]
      BY <1>10, <2>1 DEF Read_recv
    <3>2. task[s].body_left - 1 \in Nat
      BY <1>0, <2>1
    <3> QED BY <1>0, <2>1, <3>1, <3>2, <1>p DEF TaskRec
  <2>2. CASE ~(quic[s].ready > 0)
    <3>1. task' = [task EXCEPT ![s].pc = "r_lock", ![s].v_read = FALSE]
      BY <1>10, <2>2 DEF Read_recv
    <3>2. task' \in [Streams -> TaskRec]
      BY <1>0, <3>1, <1>p DEF TaskRec
    <3>3. /\ \A t \in Streams \ {s} : task'[t] = task[t]
          /\ task'[s].text = task[s].text /\ task'[s].fti = task[s].fti
          /\ task'[s].preSize = task[s].preSize /\ task'[s].body_left = task[s].body_left
      BY <1>0, <3>1 DEF TaskRec
    <3>4. task[s].body_left - 0 = task[s].body_left
      BY <1>0
    <3> QED BY <1>0, <2>2, <3>2, <3>3, <3>4
  <2> QED BY <2>1, <2>2
<1> HIDE DEF Goal, Own
<1>11. ASSUME Handler_start(s) \/ User(s) \/ Respond(s) \/ Finish(s)
       PROVE  Goal
  <2>1. CASE Handler_start(s) \/ User(s) \/ Finish(s)
    BY <1>2, <1>4, <1>6, <2>1 DEF Handler_start, User, Finish, TaskPCs
  <2>2. CASE Respond(s)
    <3>1. 0 \in 0..MaxText[s] /\ 1..MaxText[s] \subseteq 0..MaxText[s]
      BY <1>0
    <3> QED BY <1>2, <1>7, <2>2, <3>1 DEF Respond, TaskPCs
  <2> QED BY <1>11, <2>1, <2>2
<1>12. ASSUME Read_enter(s) \/ Read_lock(s) \/ Read_ask(s) \/ Read_woken(s) \/ Read_timeout(s)
       PROVE  Goal
  BY <1>2, <1>3, <1>5, <1>12
     DEF Read_enter, Read_lock, Read_ask, Read_woken, Read_timeout, TaskPCs
<1>13. ASSUME Write_enter(s) \/ Write_lock(s) \/ Write_ask(s) \/ Write_wait(s)
       PROVE  Goal
  BY <1>2, <1>3, <1>s, <1>13 DEF Write_enter, Write_lock, Write_ask, Write_wait, TaskPCs
<1>14. ASSUME File_lock(s) \/ File_ask(s) \/ File_wait(s)
       PROVE  Goal
  BY <1>2, <1>3, <1>8, <1>9, <1>14 DEF File_lock, File_ask, File_wait, TaskPCs
<1>15. ASSUME End_close(s) \/ End_unlock(s) \/ End_erase(s) \/ Destroy(s)
       PROVE  Goal
  BY <1>2, <1>3, <1>15 DEF End_close, End_unlock, End_erase, Destroy, TaskPCs
<1>16. \/ ~Read_recv(s) /\ Goal
       \/ /\ Read_recv(s)
          /\ Own /\ task'[s].body_left = task[s].body_left - (IF quic[s].ready > 0 THEN 1 ELSE 0)
  BY <1>10, <1>11, <1>12, <1>13, <1>14, <1>15 DEF HandlerSteps
<1> QED BY <1>16 DEF Goal, Own

LEMMA HandlerTypes ==
  ASSUME TypeOK, BodyLeft, NEW s \in Streams, HandlerSteps(s)
  PROVE  /\ TypeOK' /\ BodyLeft'
         /\ \A t \in Streams \ {s} : task'[t] = task[t] /\ held'[t] = held[t] /\ quic'[t] = quic[t]
<1>0. Records /\ Bounds /\ History
  BY TypeParts
<1>1. /\ loop' \in LoopRec /\ tasks' \subseteq Streams /\ History'
  BY <1>0, HandlerFrame DEF Records, History
<1>2. task' \in [Streams -> TaskRec] /\ held' \in [Streams -> HeldRec]
  BY <1>0, HandlerTask, HandlerHeld
<1> DEFINE taken == IF Read_recv(s) /\ quic[s].ready > 0 THEN 1 ELSE 0
<1>3. /\ quic' \in [Streams -> QuicRec]
      /\ \A t \in Streams \ {s} : quic'[t] = quic[t]
      /\ quic'[s].net = quic[s].net /\ quic'[s].ready = quic[s].ready - taken
      /\ quic'[s].headers = quic[s].headers
  <2>0. quic \in [Streams -> QuicRec] /\ quic[s].ready \in Nat
    BY <1>0 DEF Records, QuicRec
  <2>1. CASE /\ Read_recv(s) /\ quic[s].ready > 0
             /\ quic' = [quic EXCEPT ![s].ready = @ - 1]
    <3>1. taken = 1 /\ quic[s].ready - 1 \in Nat
      BY <2>0, <2>1
    <3> HIDE DEF taken
    <3> QED BY <2>0, <2>1, <3>1 DEF QuicRec
  <2>2. CASE /\ Read_recv(s) /\ quic[s].ready = 0
             /\ quic' = [quic EXCEPT ![s].told = FALSE]
    <3>1. taken = 0
      BY <2>2
    <3>2. /\ quic' \in [Streams -> QuicRec]
          /\ \A t \in Streams \ {s} : quic'[t] = quic[t]
          /\ quic'[s].net = quic[s].net /\ quic'[s].ready = quic[s].ready
          /\ quic'[s].headers = quic[s].headers
      BY <2>0, <2>2 DEF QuicRec
    <3> HIDE DEF taken
    <3> QED BY <2>0, <3>1, <3>2
  <2>3. CASE ~Read_recv(s) /\ UNCHANGED quic
    BY <2>0, <2>3
  <2> QED BY <2>1, <2>2, <2>3, <1>0, HandlerQuic
<1>4. task'[s].body_left = task[s].body_left - taken
  <2>1. task[s].body_left \in Nat /\ quic[s].ready \in Nat
    BY <1>0 DEF Records, TaskRec, QuicRec
  <2> QED BY <1>0, <2>1, HandlerTask
<1>5. \A t \in Streams \ {s} : task'[t] = task[t] /\ held'[t] = held[t] /\ quic'[t] = quic[t]
  BY <1>0, <1>3, HandlerTask, HandlerHeld
<1>6. /\ task[s].body_left \in Nat /\ quic[s].ready \in Nat /\ quic[s].net \in Nat
      /\ task[s].body_left <= MaxBody[s] /\ MaxBody[s] \in Nat
      /\ task[s].body_left = quic[s].net + quic[s].ready
      /\ quic[s].headers = "none" => quic[s].ready = 0
  BY <1>0, StreamAssumption DEF Records, TaskRec, QuicRec, Bounds, BodyLeft
<1>7. taken \in {0, 1} /\ (quic[s].ready = 0 => taken = 0)
  BY <1>6
<1> HIDE DEF taken
<1>8. task'[s].body_left = quic'[s].net + quic'[s].ready /\ task'[s].body_left <= MaxBody[s]
  BY <1>3, <1>4, <1>6, <1>7
<1>9. BodyLeft'
  <2>1. quic'[s].headers = "none" => quic'[s].ready = 0
    BY <1>3, <1>6, <1>7
  <2> QED BY <1>5, <1>8, <2>1 DEF BodyLeft
<1>10. Bounds'
  <2>1. task'[s].fti <= MaxFile[s] /\ task'[s].preSize <= MaxFile[s]
    BY <1>0, HandlerTask
  <2>t. task'[s].text <= MaxText[s]
    BY <1>0, HandlerTask
  <2>2. quic'[s].net + quic'[s].ready <= MaxBody[s]
    BY <1>8
  <2> QED BY <1>0, <1>5, <1>8, <2>1, <2>t, <2>2 DEF Bounds
<1> QED BY <1>1, <1>2, <1>3, <1>5, <1>9, <1>10, TypeParts DEF Records

(* The steps that are not a handler's: the loop's own records first. *)
LEMMA LoopMoves ==
  ASSUME Records,
         \/ Loop_recv \/ Loop_unlocked \/ Loop_flush \/ Conn_closes \/ Conn_free \/ Pool_closes
         \/ \E s \in Streams :
              \/ Loop_writable(s) \/ Loop_w_lock(s) \/ Loop_w_check(s)
              \/ Loop_headers(s) \/ Loop_trailers(s) \/ Loop_h_timeout(s)
              \/ Loop_data(s) \/ Loop_d_lock(s) \/ Loop_d_check(s)
              \/ Loop_resume(s) \/ Loop_release(s) \/ Conn_reap(s)
  PROVE  loop' \in LoopRec /\ tasks' \subseteq Streams
<1> DEFINE Goal == loop' \in LoopRec
<1>0. loop \in LoopRec /\ tasks \subseteq Streams
  BY DEF Records
<1>p. {"idle", "writable", "w_lock", "w_check", "w_wait", "w_unlock", "poll",
       "h_wait", "h_unlock", "d_lock", "d_check", "d_wait", "d_unlock"} \subseteq LoopPCs
  BY DEF LoopPCs
<1>1. ASSUME NEW pc \in LoopPCs, LoopAt(pc)
      PROVE  Goal
  BY <1>0, <1>1 DEF LoopAt, LoopRec
<1>2. ASSUME NEW pc \in LoopPCs, NEW s \in Streams \cup {Nil}, LoopServes(s, pc)
      PROVE  Goal
  BY <1>0, <1>2 DEF LoopServes, LoopRec
<1>3. ASSUME UNCHANGED loop
      PROVE  Goal
  BY <1>0, <1>3
<1>4. ASSUME NEW pc \in LoopPCs, NEW s \in Streams \cup {Nil}, NEW todo \in SUBSET Streams,
             loop' = [pc |-> pc, s |-> s, todo |-> todo]
      PROVE  Goal
  BY <1>4 DEF LoopRec
<1> HIDE DEF Goal
<1>f. ASSUME LoopFails
      PROVE  Goal
  BY <1>4, <1>p, <1>f DEF LoopFails
<1>5. ASSUME Loop_recv
      PROVE  Goal
  <2>1. PICK writable \in SUBSET tasks : loop' = [pc |-> "writable", s |-> Nil, todo |-> writable]
    BY <1>5 DEF Loop_recv
  <2> QED BY <1>0, <1>4, <1>p, <2>1
<1>6. ASSUME NEW s \in Streams, Loop_writable(s)
      PROVE  Goal
  <2>1. \/ loop' = [pc |-> "w_lock", s |-> s, todo |-> loop.todo \ {s}]
        \/ loop' = [loop EXCEPT !.todo = @ \ {s}]
    BY <1>6 DEF Loop_writable
  <2>2. loop.todo \ {s} \in SUBSET Streams
    BY <1>0 DEF LoopRec
  <2>3. CASE loop' = [loop EXCEPT !.todo = @ \ {s}]
    BY <1>0, <2>2, <2>3 DEF LoopRec, Goal
  <2> QED BY <1>4, <1>p, <2>1, <2>2, <2>3
<1>7. ASSUME NEW s \in Streams, Loop_w_lock(s) \/ Loop_h_timeout(s) \/ Loop_d_lock(s)
                                               \/ Loop_d_check(s)
      PROVE  Goal
  BY <1>1, <1>p, <1>7 DEF Loop_w_lock, Loop_h_timeout, Loop_d_lock, Loop_d_check
<1>8. ASSUME NEW s \in Streams, Loop_w_check(s)
      PROVE  Goal
  BY <1>1, <1>f, <1>p, <1>8 DEF Loop_w_check, SendPart
<1>9. ASSUME NEW s \in Streams, Loop_headers(s) \/ Loop_trailers(s) \/ Loop_data(s)
      PROVE  Goal
  BY <1>2, <1>3, <1>f, <1>p, <1>9 DEF Loop_headers, Loop_trailers, Loop_data
<1>10. ASSUME NEW s \in Streams, Loop_resume(s)
       PROVE  Goal
  BY <1>1, <1>p, <1>10 DEF Loop_resume
<1>11. ASSUME NEW s \in Streams, Loop_release(s)
       PROVE  Goal
  BY <1>2, <1>p, <1>11 DEF Loop_release
<1>12. ASSUME Loop_unlocked \/ Loop_flush \/ Conn_closes \/ Conn_free \/ Pool_closes
               \/ \E s \in Streams : Conn_reap(s)
       PROVE  Goal
  BY <1>1, <1>3, <1>p, <1>12 DEF Loop_unlocked, Loop_flush, Conn_closes, Conn_free, Pool_closes,
                                 Conn_reap
<1>13. tasks' \subseteq Streams
  BY <1>0 DEF Loop_recv, Loop_unlocked, Loop_flush, Conn_closes, Conn_free, Pool_closes,
              Loop_writable, Loop_w_lock,
              Loop_w_check, Loop_headers, Loop_trailers, Loop_h_timeout, Loop_data, Loop_d_lock,
              Loop_d_check,
              Loop_resume, Loop_release, Conn_reap
<1>14. Goal
  BY <1>5, <1>6, <1>7, <1>8, <1>9, <1>10, <1>11, <1>12
<1> QED BY <1>13, <1>14 DEF Goal

(* What a packet does to the library's state and to the request. *)
LEMMA RecvEffect ==
  ASSUME Records, Loop_recv
  PROVE  /\ UNCHANGED <<held, tasks, closed, freed, open, late, touched>>
         /\ \/ UNCHANGED <<quic, task>>
            \/ \E s \in Streams : \E n \in 0..MaxBody[s] :
                 /\ quic[s].headers = "none"
                 /\ quic' = [quic EXCEPT ![s].headers = "ready", ![s].net = n]
                 /\ task' = [task EXCEPT ![s].body_left = n]
            \/ \E s \in Streams :
                 /\ quic[s].headers # "none" /\ quic[s].net > 0
                 /\ quic' = [quic EXCEPT ![s].net = @ - 1, ![s].ready = @ + 1]
                 /\ UNCHANGED task
BY DEF Loop_recv

(* Of the records of the streams, a step of the loop changes those of the  *)
(* one it serves, a packet those of the one it is for.                     *)
LEMMA WCheckEffect ==
  ASSUME Records, Bounds, NEW s \in Streams, Loop_w_check(s)
  PROVE  /\ task' \in [Streams -> TaskRec] /\ held' \in [Streams -> HeldRec]
         /\ \A t \in Streams \ {s} : task'[t] = task[t] /\ held'[t] = held[t]
         /\ task'[s].pc = task[s].pc /\ SameButPc(s)
         /\ task'[s].fti <= MaxFile[s] /\ task'[s].preSize = task[s].preSize
         /\ held'[s].read = held[s].read
         /\ task[s].is_deleting => task'[s].is_deleting
         /\ \/ loop'.pc = "w_unlock" /\ loop'.s = s
            \/ loop'.pc = "w_wait" /\ loop'.s = s
            \/ loop'.pc = "idle"
<1>0. /\ task \in [Streams -> TaskRec] /\ held \in [Streams -> HeldRec] /\ loop \in LoopRec
      /\ task[s].fti \in Nat /\ MaxFile[s] \in Nat /\ task[s].fti <= MaxFile[s]
  BY StreamAssumption DEF Records, Bounds, TaskRec
<1>1. \/ UNCHANGED task
      \/ task' = [task EXCEPT ![s].is_deleting = TRUE]
      \/ \E capacity \in 0..task[s].fti, framing \in {0, 1} :
           framing <= capacity /\ task' = [task EXCEPT ![s].fti = @ - (capacity - framing)]
  BY DEF Loop_w_check, SendPart
<1> DEFINE Task == /\ task' \in [Streams -> TaskRec]
                   /\ \A t \in Streams \ {s} : task'[t] = task[t]
                   /\ task'[s].pc = task[s].pc /\ SameButPc(s)
                   /\ task'[s].fti <= MaxFile[s] /\ task'[s].preSize = task[s].preSize
                   /\ task[s].is_deleting => task'[s].is_deleting
<1>2. Task
  <2>1. CASE UNCHANGED task
    BY <1>0, <2>1 DEF SameButPc
  <2>2. CASE task' = [task EXCEPT ![s].is_deleting = TRUE]
    BY <1>0, <2>2 DEF TaskRec, SameButPc
  <2>3. ASSUME NEW k \in Nat, k <= task[s].fti, task' = [task EXCEPT ![s].fti = k]
        PROVE  Task
    <3>1. k <= MaxFile[s]
      BY <1>0, <2>3
    <3> QED BY <1>0, <2>3, <3>1 DEF TaskRec, SameButPc
  <2>4. ASSUME NEW capacity \in 0..task[s].fti, NEW framing \in {0, 1}, framing <= capacity,
               task' = [task EXCEPT ![s].fti = @ - (capacity - framing)]
        PROVE  Task
    <3>1. /\ task[s].fti - (capacity - framing) \in Nat
          /\ task[s].fti - (capacity - framing) <= task[s].fti
      BY <1>0, <2>4
    <3> HIDE DEF Task
    <3> QED BY <2>3, <2>4, <3>1
  <2> HIDE DEF Task
  <2> QED BY <1>1, <2>1, <2>2, <2>4
<1> HIDE DEF Task
<1>3. \/ UNCHANGED held
      \/ Release(s, "write")
      \/ held' = [held EXCEPT ![s].write = FALSE, ![s].worker = FALSE]
  BY DEF Loop_w_check, SendPart
<1>4. /\ held' \in [Streams -> HeldRec]
      /\ \A t \in Streams \ {s} : held'[t] = held[t]
      /\ held'[s].read = held[s].read
  <2>1. CASE held' = [held EXCEPT ![s].write = FALSE, ![s].worker = FALSE]
    BY <1>0, <2>1 DEF HeldRec
  <2> QED BY <1>0, <1>3, <2>1, Releases
<1>5. \/ LoopAt("w_unlock") \/ LoopAt("w_wait")
      \/ loop' = [pc |-> "idle", s |-> Nil, todo |-> {}]
  BY DEF Loop_w_check, SendPart, LoopFails
<1>6. loop.s = s
  BY DEF Loop_w_check
<1>7. \/ loop'.pc = "w_unlock" /\ loop'.s = s
      \/ loop'.pc = "w_wait" /\ loop'.s = s
      \/ loop'.pc = "idle"
  BY <1>0, <1>5, <1>6 DEF LoopAt, LoopRec
<1> QED BY <1>2, <1>4, <1>7 DEF Task

(* The other steps, by what they do to the records of the streams.         *)
LEMMA StreamEffect ==
  ASSUME TypeOK, NEW s \in Streams,
         \/ Loop_writable(s) \/ Loop_w_lock(s) \/ Loop_headers(s) \/ Loop_trailers(s)
         \/ Loop_h_timeout(s)
         \/ Loop_data(s) \/ Loop_d_lock(s) \/ Loop_d_check(s) \/ Loop_resume(s)
         \/ Loop_release(s) \/ Conn_reap(s)
  PROVE  /\ task' \in [Streams -> TaskRec] /\ held' \in [Streams -> HeldRec]
         /\ quic' \in [Streams -> QuicRec]
         /\ OthersSame(s)
         /\ SameButPc(s) /\ task'[s].fti = task[s].fti /\ task'[s].preSize = task[s].preSize
         /\ quic'[s].net = quic[s].net /\ quic'[s].ready = quic[s].ready
         /\ quic'[s].headers = "none" => quic[s].headers = "none"
         /\ History'
<1>0. /\ Records /\ History
      /\ task \in [Streams -> TaskRec] /\ held \in [Streams -> HeldRec]
      /\ quic \in [Streams -> QuicRec]
  BY TypeParts DEF Records
<1> DEFINE T == /\ task' \in [Streams -> TaskRec]
                /\ \A t \in Streams \ {s} : task'[t] = task[t]
                /\ SameButPc(s) /\ task'[s].fti = task[s].fti /\ task'[s].preSize = task[s].preSize
           H == /\ held' \in [Streams -> HeldRec]
                /\ \A t \in Streams \ {s} : held'[t] = held[t]
           Q == /\ quic' \in [Streams -> QuicRec]
                /\ \A t \in Streams \ {s} : quic'[t] = quic[t]
                /\ quic'[s].net = quic[s].net /\ quic'[s].ready = quic[s].ready
                /\ quic'[s].headers = "none" => quic[s].headers = "none"
<1>1. T
  <2>1. CASE UNCHANGED task
    BY <1>0, <2>1 DEF SameButPc
  <2>2. CASE Goto(s, "queued") \/ Goto(s, "gone")
    BY <1>0, <2>2, Goes DEF TaskPCs
  <2>3. CASE task' = [task EXCEPT ![s].is_deleting = TRUE]
    BY <1>0, <2>3 DEF TaskRec, SameButPc
  <2>4. CASE task' = [task EXCEPT ![s].is_deleting = TRUE, ![s].has_id = FALSE]
    BY <1>0, <2>4 DEF TaskRec, SameButPc
  <2> HIDE DEF T
  <2> QED BY <2>1, <2>2, <2>3, <2>4
       DEF Loop_writable, Loop_w_lock, Loop_headers, Loop_trailers, Loop_h_timeout, Loop_data,
           Loop_d_lock,
           Loop_d_check, Loop_resume, Loop_release, Conn_reap
<1>2. H
  <2>1. CASE UNCHANGED held
    BY <1>0, <2>1
  <2>2. CASE Acquire(s, "worker")
    BY <1>0, <2>2, Acquires
  <2>3. CASE Release(s, "worker") \/ Release(s, "read")
    BY <1>0, <2>3, Releases
  <2>4. CASE UnlockAll(s)
    BY <1>0, <2>4, UnlocksAll
  <2> HIDE DEF H
  <2> QED BY <2>1, <2>2, <2>3, <2>4
       DEF Loop_writable, Loop_w_lock, Loop_headers, Loop_trailers, Loop_h_timeout, Loop_data,
           Loop_d_lock,
           Loop_d_check, Loop_resume, Loop_release, Conn_reap
<1>3. Q
  <2>1. CASE UNCHANGED quic
    BY <1>0, <2>1
  <2>2. CASE quic' = [quic EXCEPT ![s].headers = "taken"]
    BY <1>0, <2>2 DEF QuicRec
  <2>3. CASE quic' = [quic EXCEPT ![s].told = TRUE]
    BY <1>0, <2>3 DEF QuicRec
  <2> HIDE DEF Q
  <2> QED BY <2>1, <2>2, <2>3
       DEF Loop_writable, Loop_w_lock, Loop_headers, Loop_trailers, Loop_h_timeout, Loop_data,
           Loop_d_lock,
           Loop_d_check, Loop_resume, Loop_release, Conn_reap, EventTaken
<1>4. History'
  BY <1>0 DEF Loop_writable, Loop_w_lock, Loop_headers, Loop_trailers, Loop_h_timeout,
              Loop_data, Loop_d_lock,
           Loop_d_check, Loop_resume, Loop_release, Conn_reap, Touch, History
<1> QED BY <1>1, <1>2, <1>3, <1>4 DEF OthersSame

LEMMA RecvTypes ==
  ASSUME TypeOK, BodyLeft, Loop_recv
  PROVE  TypeOK' /\ BodyLeft'
<1>0. /\ Records /\ History /\ Bounds
      /\ task \in [Streams -> TaskRec] /\ quic \in [Streams -> QuicRec]
  BY TypeParts DEF Records
<1>1. UNCHANGED <<held, tasks, closed, freed, open, late, touched>> /\ loop' \in LoopRec
  BY <1>0, RecvEffect, LoopMoves
<1>2. /\ task' \in [Streams -> TaskRec] /\ quic' \in [Streams -> QuicRec]
      /\ Bounds' /\ BodyLeft'
  <2>1. CASE UNCHANGED <<quic, task>>
    BY <1>0, <2>1 DEF Bounds, BodyLeft
  <2>2. ASSUME NEW s \in Streams, NEW n \in 0..MaxBody[s],
               quic[s].headers = "none",
               quic' = [quic EXCEPT ![s].headers = "ready", ![s].net = n],
               task' = [task EXCEPT ![s].body_left = n]
        PROVE  /\ task' \in [Streams -> TaskRec] /\ quic' \in [Streams -> QuicRec]
               /\ Bounds' /\ BodyLeft'
    <3>0. n \in Nat /\ n <= MaxBody[s] /\ quic[s].ready = 0
      BY <2>2, StreamAssumption DEF BodyLeft
    <3>1. task' \in [Streams -> TaskRec] /\ quic' \in [Streams -> QuicRec]
      <4>1. task' \in [Streams -> TaskRec]
        BY <1>0, <2>2, <3>0 DEF TaskRec
      <4>2. quic' \in [Streams -> QuicRec]
        BY <1>0, <2>2, <3>0 DEF QuicRec
      <4> QED BY <4>1, <4>2
    <3>2. \A t \in Streams \ {s} : task'[t] = task[t] /\ quic'[t] = quic[t]
      BY <1>0, <2>2
    <3>3. /\ task'[s].body_left = n /\ task'[s].text = task[s].text
          /\ task'[s].fti = task[s].fti /\ task'[s].preSize = task[s].preSize
          /\ quic'[s].net = n /\ quic'[s].ready = 0 /\ quic'[s].headers = "ready"
      BY <1>0, <2>2, <3>0 DEF TaskRec, QuicRec
    <3>4. Bounds'
      BY <1>0, <3>0, <3>2, <3>3 DEF Bounds
    <3>5. BodyLeft'
      BY <3>0, <3>2, <3>3 DEF BodyLeft
    <3> QED BY <3>1, <3>4, <3>5
  <2>3. ASSUME NEW s \in Streams, quic[s].headers # "none", quic[s].net > 0,
               quic' = [quic EXCEPT ![s].net = @ - 1, ![s].ready = @ + 1],
               UNCHANGED task
        PROVE  /\ task' \in [Streams -> TaskRec] /\ quic' \in [Streams -> QuicRec]
               /\ Bounds' /\ BodyLeft'
    <3>0. quic[s].net \in Nat /\ quic[s].ready \in Nat /\ quic[s].net - 1 \in Nat /\ quic[s].ready + 1 \in Nat
      BY <1>0, <2>3 DEF QuicRec
    <3>1. quic' \in [Streams -> QuicRec]
      BY <1>0, <2>3, <3>0 DEF QuicRec
    <3>2. \A t \in Streams \ {s} : quic'[t] = quic[t]
      BY <1>0, <2>3
    <3>3. /\ quic'[s].net = quic[s].net - 1 /\ quic'[s].ready = quic[s].ready + 1
          /\ quic'[s].headers = quic[s].headers
      BY <1>0, <2>3 DEF QuicRec
    <3>4. quic'[s].net + quic'[s].ready = quic[s].net + quic[s].ready
      BY <3>0, <3>3
    <3> QED BY <1>0, <2>3, <3>1, <3>2, <3>3, <3>4 DEF Bounds, BodyLeft
  <2> QED BY <1>0, <2>1, <2>2, <2>3, RecvEffect
<1> QED BY <1>0, <1>1, <1>2, TypeParts DEF Records, History

LEMMA StepTypes ==
  ASSUME TypeOK, BodyLeft, Next
  PROVE  TypeOK' /\ BodyLeft'
<1>0. Records /\ Bounds /\ History
  BY TypeParts
<1>1. ASSUME \E s \in Streams :
               \/ Loop_writable(s) \/ Loop_w_lock(s) \/ Loop_headers(s) \/ Loop_trailers(s)
               \/ Loop_h_timeout(s)
               \/ Loop_data(s) \/ Loop_d_lock(s) \/ Loop_d_check(s) \/ Loop_resume(s)
               \/ Loop_release(s) \/ Conn_reap(s)
      PROVE  TypeOK' /\ BodyLeft'
  <2>1. loop' \in LoopRec /\ tasks' \subseteq Streams
    BY <1>0, <1>1, LoopMoves
  <2>2. PICK s \in Streams :
               \/ Loop_writable(s) \/ Loop_w_lock(s) \/ Loop_headers(s) \/ Loop_trailers(s)
               \/ Loop_h_timeout(s)
               \/ Loop_data(s) \/ Loop_d_lock(s) \/ Loop_d_check(s) \/ Loop_resume(s)
               \/ Loop_release(s) \/ Conn_reap(s)
    BY <1>1
  <2> DEFINE Effect == /\ task' \in [Streams -> TaskRec] /\ held' \in [Streams -> HeldRec]
                       /\ quic' \in [Streams -> QuicRec]
                       /\ OthersSame(s)
                       /\ SameButPc(s) /\ task'[s].fti = task[s].fti /\ task'[s].preSize = task[s].preSize
                       /\ quic'[s].net = quic[s].net /\ quic'[s].ready = quic[s].ready
                       /\ quic'[s].headers = "none" => quic[s].headers = "none"
                       /\ History'
  <2>3. Effect
    BY <2>2, StreamEffect
  <2>4. Bounds' /\ BodyLeft'
    BY <1>0, <2>3 DEF Bounds, BodyLeft, OthersSame, SameButPc
  <2> QED BY <2>1, <2>3, <2>4, TypeParts DEF Records
<1>2. ASSUME NEW s \in Streams, Loop_w_check(s)
      PROVE  TypeOK' /\ BodyLeft'
  <2>1. loop' \in LoopRec /\ tasks' \subseteq Streams
    BY <1>0, <1>2, LoopMoves
  <2>2. UNCHANGED quic /\ History'
    BY <1>0, <1>2 DEF Loop_w_check, Touch, History
  <2>3. Bounds' /\ BodyLeft'
    BY <1>0, <1>2, <2>2, WCheckEffect DEF Bounds, BodyLeft, SameButPc
  <2> QED BY <1>0, <1>2, <2>1, <2>2, <2>3, WCheckEffect, TypeParts DEF Records
<1>3. ASSUME Loop_unlocked \/ Loop_flush \/ Conn_closes \/ Conn_free \/ Pool_closes
      PROVE  TypeOK' /\ BodyLeft'
  <2>1. loop' \in LoopRec /\ tasks' \subseteq Streams
    BY <1>0, <1>3, LoopMoves
  <2>2. UNCHANGED <<task, held, quic>> /\ History'
    BY <1>0, <1>3 DEF Loop_unlocked, Loop_flush, Conn_closes, Conn_free, Pool_closes, History
  <2> QED BY <1>0, <2>1, <2>2, TypeParts DEF Records, Bounds, BodyLeft
<1> QED BY <1>1, <1>2, <1>3, RecvTypes, HandlerTypes, NextActions

-----------------------------------------------------------------------------
(* Whose turn it is.                                                       *)

Served(s) == loop.s = s /\ loop.pc \notin {"idle", "writable", "poll"}

(* Turns(s) speaks of s alone, and of the loop only while it serves s.     *)
LEMMA OtherStays ==
  ASSUME NEW s \in Streams, Turns(s),
         task'[s] = task[s], held'[s] = held[s], quic'[s] = quic[s],
         s \in tasks' <=> s \in tasks,
         loop' = loop \/ (~Served(s) /\ ~Served(s)')
  PROVE  Turns(s)'
<1>1. CASE loop' = loop
  BY <1>1 DEF Turns, Before, Reading, Answering, Serving, Parked
<1>2. CASE ~Served(s) /\ ~Served(s)'
  <2>1. Before(s)'
    BY <1>2 DEF Turns, Before, Parked, Served
  <2>2. Reading(s)'
    BY <1>2 DEF Turns, Reading, Parked, Served
  <2>3. Answering(s)'
    BY <1>2 DEF Turns, Answering, Parked, Served
  <2>4. Serving(s)'
    BY <1>2 DEF Turns, Serving, Served
  <2> QED BY <2>1, <2>2, <2>3, <2>4 DEF Turns
<1> QED BY <1>1, <1>2

(* The loop turns to one stream at a time.                                 *)
LEMMA OneServed ==
  ASSUME Records, NEW s \in Streams, NEW t \in Streams, s # t,
         \/ Loop_writable(t) \/ Loop_w_lock(t) \/ Loop_w_check(t)
         \/ Loop_headers(t) \/ Loop_trailers(t) \/ Loop_h_timeout(t)
         \/ Loop_data(t) \/ Loop_d_lock(t) \/ Loop_d_check(t)
         \/ Loop_resume(t) \/ Loop_release(t) \/ Conn_reap(t)
  PROVE  loop' = loop \/ (~Served(s) /\ ~Served(s)')
<1>0. loop \in LoopRec /\ s # Nil
  BY StreamAssumption DEF Records
<1>1. ASSUME NEW pc, LoopAt(pc), loop.s = t
      PROVE  ~Served(s) /\ ~Served(s)'
  BY <1>0, <1>1 DEF LoopAt, LoopRec, Served
<1>2. ASSUME NEW pc, NEW u \in {t, Nil}, LoopServes(u, pc), ~Served(s)
      PROVE  ~Served(s) /\ ~Served(s)'
  BY <1>0, <1>2 DEF LoopServes, LoopRec, Served
<1>3. CASE Loop_writable(t)
  <2>1. ~Served(s)
    BY <1>3 DEF Loop_writable, Served
  <2>2. \/ loop' = [pc |-> "w_lock", s |-> t, todo |-> loop.todo \ {t}]
        \/ loop' = [loop EXCEPT !.todo = @ \ {t}] /\ loop.pc = "writable"
    BY <1>3 DEF Loop_writable
  <2>3. ~Served(s)'
    BY <1>0, <2>1, <2>2 DEF Served, LoopRec
  <2> QED BY <2>1, <2>3
<1>4. CASE Loop_w_lock(t) \/ Loop_h_timeout(t) \/ Loop_d_lock(t) \/ Loop_d_check(t)
  BY <1>1, <1>4 DEF Loop_w_lock, Loop_h_timeout, Loop_d_lock, Loop_d_check
<1>5. CASE Loop_w_check(t)
  <2>1. loop.s = t /\ \/ LoopAt("w_unlock") \/ LoopAt("w_wait")
                      \/ loop' = [pc |-> "idle", s |-> Nil, todo |-> {}]
    BY <1>5 DEF Loop_w_check, SendPart, LoopFails
  <2> QED BY <1>1, <2>1 DEF Served
<1>6. CASE Loop_headers(t) \/ Loop_trailers(t) \/ Loop_data(t)
  <2>1. ~Served(s)
    BY <1>6 DEF Loop_headers, Loop_trailers, Loop_data, Served
  <2>2. LoopFails => ~Served(s)'
    BY DEF LoopFails, Served
  <2> QED BY <1>2, <1>6, <2>1, <2>2 DEF Loop_headers, Loop_trailers, Loop_data
<1>7. CASE Loop_resume(t)
  BY <1>1, <1>7 DEF Loop_resume
<1>8. CASE Loop_release(t)
  <2>1. ~Served(s)
    BY <1>8 DEF Loop_release, Served
  <2> QED BY <1>2, <1>8, <2>1 DEF Loop_release
<1>9. CASE Conn_reap(t)
  BY <1>9 DEF Conn_reap
<1> QED BY <1>3, <1>4, <1>5, <1>6, <1>7, <1>8, <1>9

LEMMA ElsewhereStays ==
  ASSUME TypeOK, BodyLeft, Next, NEW s \in Streams, Turns(s),
         ~Loop_recv, ~HandlerSteps(s),
         ~Loop_writable(s), ~Loop_w_lock(s), ~Loop_w_check(s), ~Loop_headers(s),
         ~Loop_trailers(s), ~Loop_h_timeout(s),
         ~Loop_data(s), ~Loop_d_lock(s), ~Loop_d_check(s), ~Loop_resume(s), ~Loop_release(s),
         ~Conn_reap(s)
  PROVE  Turns(s)'
<1>0. Records /\ Bounds
  BY TypeParts
<1>1. ASSUME NEW t \in Streams, HandlerSteps(t)
      PROVE  Turns(s)'
  <2>1. task'[s] = task[s] /\ held'[s] = held[s] /\ quic'[s] = quic[s]
    BY <1>1, HandlerTypes
  <2>2. loop' = loop /\ (s \in tasks' <=> s \in tasks)
    BY <1>1, HandlerFrame
  <2> QED BY <2>1, <2>2, OtherStays
<1>2. ASSUME NEW t \in Streams,
             \/ Loop_writable(t) \/ Loop_w_lock(t) \/ Loop_headers(t) \/ Loop_trailers(t)
             \/ Loop_h_timeout(t)
             \/ Loop_data(t) \/ Loop_d_lock(t) \/ Loop_d_check(t) \/ Loop_resume(t)
             \/ Loop_release(t) \/ Conn_reap(t)
      PROVE  Turns(s)'
  <2>0. s # t
    BY <1>2
  <2>1. task'[s] = task[s] /\ held'[s] = held[s] /\ quic'[s] = quic[s]
    BY <1>2, <2>0, StreamEffect DEF OthersSame
  <2>2. s \in tasks' <=> s \in tasks
    BY <1>2, <2>0 DEF Loop_writable, Loop_w_lock, Loop_headers, Loop_trailers, Loop_h_timeout,
                      Loop_data, Loop_d_lock,
                      Loop_d_check, Loop_resume, Loop_release, Conn_reap
  <2>3. loop' = loop \/ (~Served(s) /\ ~Served(s)')
    BY <1>0, <1>2, <2>0, OneServed
  <2> QED BY <2>1, <2>2, <2>3, OtherStays
<1>3. ASSUME NEW t \in Streams, Loop_w_check(t)
      PROVE  Turns(s)'
  <2>0. s # t
    BY <1>3
  <2>1. task'[s] = task[s] /\ held'[s] = held[s] /\ quic'[s] = quic[s] /\ (s \in tasks' <=> s \in tasks)
    BY <1>0, <1>3, <2>0, WCheckEffect DEF Loop_w_check
  <2>3. loop' = loop \/ (~Served(s) /\ ~Served(s)')
    BY <1>0, <1>3, <2>0, OneServed
  <2> QED BY <2>1, <2>3, OtherStays
<1>4. ASSUME Loop_unlocked \/ Loop_flush \/ Conn_closes \/ Conn_free \/ Pool_closes
      PROVE  Turns(s)'
  <2>1. UNCHANGED <<task, held, quic, tasks>>
    BY <1>4 DEF Loop_unlocked, Loop_flush, Conn_closes, Conn_free, Pool_closes
  <2>2. loop' = loop \/ (loop.pc \in {"writable", "poll"} /\ \E pc \in {"poll", "idle"} : LoopAt(pc))
    BY <1>4 DEF Loop_unlocked, Loop_flush, Conn_closes, Conn_free, Pool_closes
  <2>3. loop' = loop \/ (~Served(s) /\ ~Served(s)')
    BY <1>0, <2>2 DEF LoopAt, Served, Records, LoopRec
  <2> QED BY <2>1, <2>3, OtherStays
<1> QED BY <1>1, <1>2, <1>3, <1>4, NextActions

(* A packet arrives while nobody is parked. *)
LEMMA RecvTurns ==
  ASSUME TypeOK, BodyLeft, NEW s \in Streams, Turns(s), Loop_recv
  PROVE  Turns(s)'
<1>0. /\ Records /\ task \in [Streams -> TaskRec] /\ quic \in [Streams -> QuicRec]
      /\ StreamAssumption
  BY TypeParts, StreamAssumption DEF Records
<1>1. UNCHANGED <<held, tasks>>
  BY <1>0, RecvEffect
<1>2. ~Served(s) /\ ~Served(s)'
  BY DEF Loop_recv, Served
<1>3. ASSUME NEW t \in Streams, NEW n, quic[t].headers = "none",
             quic' = [quic EXCEPT ![t].headers = "ready", ![t].net = n],
             task' = [task EXCEPT ![t].body_left = n]
      PROVE  Turns(s)'
  <2>1. CASE s # t
    <3>1. task'[s] = task[s] /\ quic'[s] = quic[s]
      BY <1>0, <1>3, <2>1
    <3> QED BY <1>1, <1>2, <3>1, OtherStays
  <2>2. CASE s = t
    <3>1. /\ task'[s].pc = task[s].pc /\ task'[s].v_body = task[s].v_body
          /\ task'[s].v_read = task[s].v_read /\ task'[s].is_deleting = task[s].is_deleting
      BY <1>0, <1>3, <2>2 DEF TaskRec
    <3>2. quic'[s].headers = "ready" /\ quic'[s].told = quic[s].told
      BY <1>0, <1>3, <2>2 DEF QuicRec
    <3>3. task[s].pc = "none"
      BY <1>3, <2>2 DEF Turns, Before
    <3> QED BY <1>1, <1>2, <3>1, <3>2, <3>3
         DEF Turns, Before, Reading, Answering, Serving, Parked, Served
  <2> QED BY <2>1, <2>2
<1>4. ASSUME NEW t \in Streams,
             quic' = [quic EXCEPT ![t].net = @ - 1, ![t].ready = @ + 1],
             UNCHANGED task
      PROVE  Turns(s)'
  <2>1. quic'[s].headers = quic[s].headers /\ quic'[s].told = quic[s].told
    BY <1>0, <1>4 DEF QuicRec
  <2> QED BY <1>1, <1>2, <1>4, <2>1
       DEF Turns, Before, Reading, Answering, Serving, Parked, Served
<1>5. ASSUME UNCHANGED <<quic, task>>
      PROVE  Turns(s)'
  BY <1>1, <1>2, <1>5, OtherStays
<1> QED BY <1>0, <1>3, <1>4, <1>5, RecvEffect

(* The loop serves s. *)
LEMMA LoopTurns ==
  ASSUME TypeOK, NEW s \in Streams, Turns(s), s \notin late',
         \/ Loop_writable(s) \/ Loop_w_lock(s) \/ Loop_w_check(s) \/ Loop_headers(s)
         \/ Loop_trailers(s) \/ Loop_h_timeout(s) \/ Loop_data(s) \/ Loop_d_lock(s)
         \/ Loop_d_check(s)
         \/ Loop_resume(s) \/ Loop_release(s) \/ Conn_reap(s)
  PROVE  Turns(s)'
<1>0. /\ Records /\ Bounds /\ loop \in LoopRec /\ task \in [Streams -> TaskRec]
      /\ quic \in [Streams -> QuicRec] /\ s # Nil
  BY TypeParts, StreamAssumption DEF Records
<1>at. ASSUME NEW pc, LoopAt(pc)
       PROVE  loop'.pc = pc /\ loop'.s = loop.s
  BY <1>0, <1>at DEF LoopAt, LoopRec
<1>sv. ASSUME NEW u, NEW pc, LoopServes(u, pc)
       PROVE  loop'.pc = pc /\ loop'.s = u
  BY <1>0, <1>sv DEF LoopServes, LoopRec
<1> DEFINE Goal == Turns(s)'
<1>1. ASSUME Loop_writable(s)
      PROVE  Goal
  <2>1. UNCHANGED <<task, held, quic, tasks>> /\ ~Served(s)
    BY <1>1 DEF Loop_writable, Served
  <2>2. CASE s \in tasks /\ ~task[s].v_body /\ ~task[s].is_deleting
    <3>1. loop'.pc = "w_lock" /\ loop'.s = s
      BY <1>1, <2>2 DEF Loop_writable
    <3>2. task[s].pc \notin {"none", "queued"}
      BY <2>1, <2>2 DEF Turns, Before, Parked, Served
    <3> QED BY <2>1, <2>2, <3>1, <3>2
         DEF Turns, Before, Reading, Answering, Serving, Parked, Served
  <2>3. CASE ~(s \in tasks /\ ~task[s].v_body /\ ~task[s].is_deleting)
    <3>1. loop' = [loop EXCEPT !.todo = @ \ {s}]
      BY <1>1, <2>3 DEF Loop_writable
    <3>2. ~Served(s)'
      BY <1>0, <2>1, <3>1 DEF Served, LoopRec
    <3> QED BY <2>1, <3>2, OtherStays
  <2> QED BY <2>2, <2>3
<1>2. ASSUME Loop_w_lock(s)
      PROVE  Goal
  <2>1. UNCHANGED <<task, quic, tasks>> /\ loop.pc = "w_lock" /\ loop.s = s
    BY <1>2 DEF Loop_w_lock
  <2>2. loop'.pc = "w_check" /\ loop'.s = s
    BY <1>2, <1>at, <2>1 DEF Loop_w_lock
  <2>3. held'[s].read = held[s].read
    BY <1>0, <1>2, Acquires DEF Loop_w_lock
  <2> QED BY <2>1, <2>2, <2>3
       DEF Turns, Before, Reading, Answering, Serving, Parked
<1>3. ASSUME Loop_w_check(s)
      PROVE  Goal
  <2>1. UNCHANGED <<quic, tasks>> /\ loop.pc = "w_check" /\ loop.s = s
    BY <1>3 DEF Loop_w_check
  <2>2. /\ task'[s].pc = task[s].pc /\ SameButPc(s)
        /\ task[s].is_deleting => task'[s].is_deleting
        /\ held'[s].read = held[s].read
        /\ \/ loop'.pc = "w_unlock" /\ loop'.s = s
           \/ loop'.pc = "w_wait" /\ loop'.s = s
           \/ loop'.pc = "idle"
    BY <1>0, <1>3, WCheckEffect
  <2>3. ~task[s].v_body /\ task[s].pc \notin {"none", "queued"}
    BY <2>1 DEF Turns, Serving
  <2> QED BY <2>1, <2>2, <2>3
       DEF Turns, Before, Reading, Answering, Serving, Parked, SameButPc
<1>4. ASSUME Loop_headers(s)
      PROVE  Goal
  <2>1. /\ loop.pc = "poll" /\ quic[s].headers = "ready"
        /\ quic' = [quic EXCEPT ![s].headers = "taken"]
    BY <1>4 DEF Loop_headers
  <2>2. quic'[s].headers = "taken" /\ quic'[s].told = quic[s].told
    BY <1>0, <2>1 DEF QuicRec
  <2>3. task[s].pc = "none"
    BY <2>1 DEF Turns, Before
  <2>4. ASSUME NEW pc \in {"queued", "gone"}, Goto(s, pc)
        PROVE  task'[s].pc = pc /\ SameButPc(s) /\ task'[s].is_deleting = task[s].is_deleting
    <3>1. pc \in TaskPCs
      BY DEF TaskPCs
    <3> QED BY <1>0, <2>4, <3>1, Goes
  <2>5. CASE /\ Acquire(s, "worker") /\ tasks' = tasks \cup {s}
             /\ Goto(s, IF open THEN "queued" ELSE "gone") /\ LoopServes(s, "h_wait")
    <3>1. PICK pc \in {"queued", "gone"} : Goto(s, pc)
      BY <2>5
    <3>2. task'[s].pc = pc /\ SameButPc(s) /\ task'[s].is_deleting = task[s].is_deleting
      BY <2>4, <3>1
    <3>3. held'[s].worker /\ held'[s].read = held[s].read
      BY <1>0, <2>5, Acquires
    <3>4. loop'.pc = "h_wait" /\ loop'.s = s
      BY <1>sv, <2>5
    <3> QED BY <2>1, <2>2, <2>3, <2>5, <3>2, <3>3, <3>4
         DEF Turns, Before, Reading, Answering, Serving, Parked, SameButPc
  <2>6. CASE Goto(s, "gone") /\ LoopFails /\ UNCHANGED <<held, tasks>>
    <3>1. task'[s].pc = "gone" /\ SameButPc(s) /\ task'[s].is_deleting = task[s].is_deleting
      BY <2>4, <2>6
    <3>2. loop'.pc = "idle"
      BY <2>6 DEF LoopFails
    <3> QED BY <2>1, <2>2, <2>3, <2>6, <3>1, <3>2
         DEF Turns, Before, Reading, Answering, Serving, Parked, SameButPc
  <2> QED BY <1>4, <2>5, <2>6 DEF Loop_headers
<1>tr. ASSUME Loop_trailers(s)
       PROVE  Goal
  <2>1. UNCHANGED <<task, held, quic, tasks>> /\ ~Served(s) /\ ~Served(s)'
    BY <1>tr DEF Loop_trailers, LoopFails, Served
  <2> QED BY <2>1, OtherStays
<1>5. ~Loop_h_timeout(s)
  BY DEF Loop_h_timeout
<1>6. ASSUME Loop_data(s)
      PROVE  Goal
  <2>1. /\ UNCHANGED <<task, held, tasks>> /\ loop.pc = "poll"
        /\ quic' = [quic EXCEPT ![s].told = TRUE]
        /\ quic[s].headers = "taken"
    BY <1>6 DEF Loop_data, EventTaken, EventArmed
  <2>2. quic'[s].headers = quic[s].headers /\ quic'[s].told
    BY <1>0, <2>1 DEF QuicRec
  <2>3. task[s].pc \notin {"none", "queued", "r_enter", "r_lock", "r_ask", "recv"}
    BY <2>1 DEF Turns, Before, Reading, Parked
  <2>4. CASE s \in tasks /\ task[s].v_body /\ ~task[s].is_deleting
    <3>1. loop'.pc = "d_lock" /\ loop'.s = s
      BY <1>6, <1>sv, <2>4 DEF Loop_data
    <3>2. task[s].pc = "r_wait" /\ held[s].read
      BY <2>1, <2>3, <2>4 DEF Turns, Reading, Answering, Parked
    <3> QED BY <2>1, <2>2, <2>4, <3>1, <3>2
         DEF Turns, Before, Reading, Answering, Serving, Parked
  <2>5. CASE ~(s \in tasks /\ task[s].v_body /\ ~task[s].is_deleting)
    <3>1. loop' = loop
      BY <1>6, <2>5 DEF Loop_data
    <3>2. task[s].pc = "r_wait" => task[s].is_deleting /\ ~held[s].read
      BY <2>5 DEF Turns, Reading, Answering
    <3> QED BY <2>1, <2>2, <2>3, <3>1, <3>2
         DEF Turns, Before, Reading, Answering, Serving, Parked
  <2> QED BY <2>4, <2>5
<1>7. ASSUME Loop_d_lock(s)
      PROVE  Goal
  <2>1. UNCHANGED <<task, quic, tasks>> /\ loop.pc = "d_lock" /\ loop.s = s
    BY <1>7 DEF Loop_d_lock
  <2>2. loop'.pc = "d_check" /\ loop'.s = s
    BY <1>7, <1>at, <2>1 DEF Loop_d_lock
  <2>3. held'[s].read = held[s].read /\ held'[s].worker
    BY <1>0, <1>7, Acquires DEF Loop_d_lock
  <2> QED BY <2>1, <2>2, <2>3
       DEF Turns, Before, Reading, Answering, Serving, Parked
<1>8. ASSUME Loop_d_check(s)
      PROVE  Goal
  <2>1. UNCHANGED <<task, quic, tasks>> /\ loop.pc = "d_check" /\ loop.s = s
    BY <1>8 DEF Loop_d_check
  <2>2. task[s].pc = "r_wait" /\ ~task[s].is_deleting /\ held[s].worker
    BY <2>1 DEF Turns, Serving
  <2>3. loop'.pc = "d_wait" /\ loop'.s = s
    BY <1>8, <1>at, <2>1, <2>2 DEF Loop_d_check
  <2>4. ~held'[s].read /\ held'[s].worker = held[s].worker
    BY <1>0, <1>8, Releases DEF Loop_d_check
  <2> QED BY <2>1, <2>2, <2>3, <2>4
       DEF Turns, Before, Reading, Answering, Serving, Parked
<1>9. ASSUME Loop_resume(s)
      PROVE  Goal
  <2>1. UNCHANGED <<task, quic, tasks>> /\ loop.s = s
    BY <1>9 DEF Loop_resume
  <2>2. ~held[s].worker /\ held'[s].read = held[s].read
    BY <1>0, <1>9, Acquires DEF Loop_resume
  <2>3. /\ loop'.s = s
        /\ \/ loop.pc = "h_wait" /\ loop'.pc = "h_unlock"
           \/ loop.pc = "w_wait" /\ loop'.pc = "w_unlock"
           \/ loop.pc = "d_wait" /\ loop'.pc = "d_unlock"
    BY <1>9, <1>at, <2>1 DEF Loop_resume
  <2> QED BY <2>1, <2>2, <2>3
       DEF Turns, Before, Reading, Answering, Serving, Parked
<1>10. ASSUME Loop_release(s)
       PROVE  Goal
  <2>1. UNCHANGED <<task, quic, tasks>> /\ loop.s = s
        /\ loop.pc \in {"h_unlock", "d_unlock", "w_unlock"}
    BY <1>10 DEF Loop_release
  <2>2. held'[s].read = held[s].read
    BY <1>0, <1>10, Releases DEF Loop_release
  <2>3. loop'.s = Nil
    BY <1>10, <1>sv DEF Loop_release
  <2> QED BY <1>0, <2>1, <2>2, <2>3
       DEF Turns, Before, Reading, Answering, Serving, Parked
<1>11. ASSUME Conn_reap(s)
       PROVE  Goal
  <2>1. UNCHANGED <<loop, quic>> /\ loop.pc = "idle" /\ s \in tasks /\ tasks' = tasks \ {s}
    BY <1>11 DEF Conn_reap
  <2>2. CASE task[s].is_deleting
    <3>1. UNCHANGED <<task, held>>
      BY <1>11, <2>2 DEF Conn_reap
    <3> QED BY <2>1, <2>2, <3>1
         DEF Turns, Before, Reading, Answering, Serving, Parked
  <2>3. CASE ~task[s].is_deleting
    <3>1. /\ task' = [task EXCEPT ![s].is_deleting = TRUE, ![s].has_id = FALSE]
          /\ UnlockAll(s)
      BY <1>11, <2>3 DEF Conn_reap
    <3>2. task'[s].pc = task[s].pc /\ SameButPc(s) /\ task'[s].is_deleting
      BY <1>0, <3>1 DEF TaskRec, SameButPc
    <3>3. ~held'[s].read
      BY <1>0, <3>1, UnlocksAll
    <3>4. task[s].pc \notin {"none", "queued", "r_enter", "r_lock", "r_ask", "recv"}
      BY <2>1 DEF Turns, Before, Reading, Parked
    <3> QED BY <2>1, <3>2, <3>3, <3>4
         DEF Turns, Before, Reading, Answering, Serving, Parked, SameButPc
  <2> QED BY <2>2, <2>3
<1> HIDE DEF Goal
<1>12. Goal
  BY <1>1, <1>2, <1>3, <1>4, <1>tr, <1>5, <1>6, <1>7, <1>8, <1>9, <1>10, <1>11
<1> QED BY <1>12 DEF Goal

(* The handler of s takes its turn. *)
LEMMA ReadTurns ==
  ASSUME TypeOK, BodyLeft, NEW s \in Streams, Turns(s), s \notin late',
         \/ Handler_start(s) \/ User(s) \/ Respond(s)
         \/ Read_enter(s) \/ Read_lock(s) \/ Read_ask(s) \/ Read_woken(s) \/ Read_timeout(s)
         \/ Read_recv(s)
  PROVE  Turns(s)'
<1>0. /\ Records /\ task \in [Streams -> TaskRec] /\ quic \in [Streams -> QuicRec]
      /\ quic[s].ready \in Nat /\ quic[s].net \in Nat
  BY TypeParts DEF Records, QuicRec
<1>1. HandlerSteps(s)
  BY DEF HandlerSteps
<1>2. loop' = loop
  BY <1>1, HandlerFrame
<1> DEFINE Goal == Turns(s)'
<1>3. ASSUME Handler_start(s)
      PROVE  Goal
  <2>1. UNCHANGED <<held, quic, tasks>> /\ task[s].pc = "queued"
    BY <1>3 DEF Handler_start
  <2>2. CASE Goto(s, "end") \/ (task[s].body_left = 0 /\ Goto(s, "user"))
    <3>1. /\ task'[s].pc = "end" \/ (task'[s].pc = "user" /\ task[s].body_left = 0)
          /\ SameButPc(s) /\ task'[s].is_deleting = task[s].is_deleting
      BY <1>0, <2>2, Goes DEF TaskPCs
    <3> QED BY <1>2, <2>1, <3>1
         DEF Turns, Before, Reading, Answering, Serving, Parked, SameButPc
  <2>3. CASE task' = [task EXCEPT ![s].pc = "r_enter", ![s].v_body = TRUE]
    <3>1. /\ task'[s].pc = "r_enter" /\ task'[s].v_body /\ task'[s].v_read = task[s].v_read
          /\ task'[s].is_deleting = task[s].is_deleting
      BY <1>0, <2>3 DEF TaskRec
    <3> QED BY <1>2, <2>1, <3>1
         DEF Turns, Before, Reading, Answering, Serving, Parked
  <2> QED BY <1>3, <2>2, <2>3 DEF Handler_start
<1>4. ASSUME User(s)
      PROVE  Goal
  <2>1. UNCHANGED <<held, quic, tasks>> /\ task[s].pc = "user"
    BY <1>4 DEF User
  <2>2. CASE task[s].body_left > 0 /\ ~task[s].is_deleting /\ Goto(s, "r_enter")
    <3>1. /\ task'[s].pc = "r_enter" /\ SameButPc(s) /\ task'[s].is_deleting = task[s].is_deleting
      BY <1>0, <2>2, Goes DEF TaskPCs
    <3>2. task[s].v_body /\ task[s].v_read /\ Parked(s, {"d_wait"})
      <4>1. task[s].body_left # 0
        BY <1>0, <2>2 DEF TaskRec
      <4> QED BY <2>1, <2>2, <4>1 DEF Turns, Answering
    <3> QED BY <1>2, <2>1, <2>2, <3>1, <3>2
         DEF Turns, Before, Reading, Answering, Serving, Parked, SameButPc
  <2>3. ASSUME NEW b \in {"binary", "file"},
               task' = [task EXCEPT ![s].pc = "respond", ![s].buff = b]
        PROVE  Goal
    <3>1. /\ task'[s].pc = "respond" /\ task'[s].v_body = task[s].v_body
          /\ task'[s].v_read = task[s].v_read /\ task'[s].is_deleting = task[s].is_deleting
      BY <1>0, <2>3 DEF TaskRec
    <3> QED BY <1>2, <2>1, <3>1
         DEF Turns, Before, Reading, Answering, Serving, Parked
  <2> QED BY <1>4, <2>2, <2>3 DEF User
<1>5. ASSUME Respond(s)
      PROVE  Goal
  <2>1. UNCHANGED <<held, quic, tasks>> /\ task[s].pc = "respond"
    BY <1>5 DEF Respond
  <2>2. CASE task[s].is_deleting
    <3>1. /\ task'[s].pc = "final" /\ SameButPc(s) /\ task'[s].is_deleting = task[s].is_deleting
      BY <1>0, <1>5, <2>2, Goes DEF TaskPCs, Respond
    <3> QED BY <1>2, <2>1, <2>2, <3>1
         DEF Turns, Before, Reading, Answering, Serving, Parked, SameButPc
  <2>3. CASE ~task[s].is_deleting
    <3>1. \E pc \in {"final", "f_lock", "w_enter"}, n \in Nat : Headers(s, pc, n)
      <4>1. MaxText[s] \in Nat
        BY StreamAssumption
      <4> QED BY <1>5, <2>3, <4>1 DEF Respond
    <3>p. PICK pc \in {"final", "f_lock", "w_enter"}, n \in Nat :
            task' = [task EXCEPT ![s].v_body = FALSE, ![s].pc = pc, ![s].text = n]
      BY <3>1 DEF Headers
    <3>2. /\ task'[s].pc = pc /\ ~task'[s].v_body
          /\ task'[s].v_read = task[s].v_read /\ task'[s].is_deleting = task[s].is_deleting
      BY <1>0, <3>p DEF TaskRec
    <3> QED BY <1>2, <2>1, <2>3, <3>2
         DEF Turns, Before, Reading, Answering, Serving, Parked
  <2> QED BY <2>2, <2>3
<1>6. ASSUME Read_enter(s)
      PROVE  Goal
  <2>1. UNCHANGED <<held, quic, tasks>> /\ task[s].pc = "r_enter" /\ ~task[s].is_deleting
    BY <1>6 DEF Read_enter, Turns, Reading
  <2>2. CASE task[s].v_read
    <3>1. /\ task'[s].pc = "recv" /\ SameButPc(s) /\ task'[s].is_deleting = task[s].is_deleting
      BY <1>0, <1>6, <2>1, <2>2, Goes DEF TaskPCs, Read_enter
    <3> QED BY <1>2, <2>1, <2>2, <3>1
         DEF Turns, Before, Reading, Answering, Serving, Parked, SameButPc
  <2>3. CASE ~task[s].v_read
    <3>1. /\ task'[s].pc = "r_lock" /\ SameButPc(s) /\ task'[s].is_deleting = task[s].is_deleting
      BY <1>0, <1>6, <2>1, <2>3, Goes DEF TaskPCs, Read_enter
    <3> QED BY <1>2, <2>1, <2>3, <3>1
         DEF Turns, Before, Reading, Answering, Serving, Parked, SameButPc
  <2> QED BY <2>2, <2>3
<1>7. ASSUME Read_lock(s)
      PROVE  Goal
  <2>1. UNCHANGED <<quic, tasks>> /\ task[s].pc = "r_lock"
    BY <1>7 DEF Read_lock
  <2>2. /\ task'[s].pc = "r_ask" /\ SameButPc(s) /\ task'[s].is_deleting = task[s].is_deleting
    BY <1>0, <1>7, Goes DEF TaskPCs, Read_lock
  <2>3. held'[s].read /\ held'[s].worker = held[s].worker
    BY <1>0, <1>7, Acquires DEF Read_lock
  <2> QED BY <1>2, <2>1, <2>2, <2>3
       DEF Turns, Before, Reading, Answering, Serving, Parked, SameButPc
<1>8. ASSUME Read_ask(s)
      PROVE  Goal
  <2>1. UNCHANGED <<quic, tasks>> /\ task[s].pc = "r_ask" /\ ~task[s].is_deleting /\ held[s].read
    BY <1>8 DEF Read_ask, Turns, Reading
  <2>2. /\ task'[s].pc = "r_wait" /\ SameButPc(s) /\ task'[s].is_deleting = task[s].is_deleting
    BY <1>0, <1>8, <2>1, Goes DEF TaskPCs, Read_ask
  <2>3. held'[s].read = held[s].read
    BY <1>0, <1>8, <2>1, Releases DEF Read_ask
  <2>4. Parked(s, {"h_wait", "d_wait"})
    BY <2>1 DEF Turns, Reading
  <2> QED BY <1>2, <2>1, <2>2, <2>3, <2>4
       DEF Turns, Before, Reading, Answering, Serving, Parked, SameButPc
<1>9. ASSUME Read_woken(s)
      PROVE  Goal
  <2>1. UNCHANGED <<held, quic, tasks>> /\ task[s].pc = "r_wait" /\ ~held[s].read
    BY <1>9 DEF Read_woken
  <2>2. CASE task[s].is_deleting
    <3>1. task' = [task EXCEPT ![s].pc = "user"]
      BY <1>9, <2>2 DEF Read_woken
    <3>2. /\ task'[s].pc = "user" /\ task'[s].v_body = task[s].v_body
          /\ task'[s].v_read = task[s].v_read /\ task'[s].is_deleting
      BY <1>0, <2>2, <3>1 DEF TaskRec
    <3> QED BY <1>2, <2>1, <2>2, <3>2
         DEF Turns, Before, Reading, Answering, Serving, Parked
  <2>3. CASE ~task[s].is_deleting
    <3>1. task' = [task EXCEPT ![s].pc = "recv", ![s].v_read = TRUE]
      BY <1>9, <2>3 DEF Read_woken
    <3>2. /\ task'[s].pc = "recv" /\ task'[s].v_body = task[s].v_body
          /\ task'[s].v_read /\ task'[s].is_deleting = task[s].is_deleting
      BY <1>0, <3>1 DEF TaskRec
    <3> QED BY <1>2, <2>1, <2>3, <3>2
         DEF Turns, Before, Reading, Answering, Serving, Parked
  <2> QED BY <2>2, <2>3
<1>10. ~Read_timeout(s)
  BY DEF Read_timeout
<1>11. ASSUME Read_recv(s)
       PROVE  Goal
  <2>1. UNCHANGED <<held, tasks>> /\ task[s].pc = "recv"
    BY <1>11 DEF Read_recv
  <2>2. CASE quic[s].ready > 0
    <3>1. /\ quic' = [quic EXCEPT ![s].ready = @ - 1]
          /\ task' = [task EXCEPT ![s].pc = "user", ![s].body_left = @ - 1]
      BY <1>11, <2>2 DEF Read_recv
    <3>2. /\ task'[s].pc = "user" /\ task'[s].v_body = task[s].v_body
          /\ task'[s].v_read = task[s].v_read /\ task'[s].is_deleting = task[s].is_deleting
          /\ quic'[s].headers = quic[s].headers /\ quic'[s].told = quic[s].told
      BY <1>0, <3>1 DEF TaskRec, QuicRec
    <3> QED BY <1>2, <2>1, <3>2
         DEF Turns, Before, Reading, Answering, Serving, Parked
  <2>3. CASE ~(quic[s].ready > 0)
    <3>1. /\ quic' = [quic EXCEPT ![s].told = FALSE]
          /\ task' = [task EXCEPT ![s].pc = "r_lock", ![s].v_read = FALSE]
      BY <1>11, <2>3 DEF Read_recv
    <3>2. /\ task'[s].pc = "r_lock" /\ task'[s].v_body = task[s].v_body
          /\ ~task'[s].v_read /\ task'[s].is_deleting = task[s].is_deleting
          /\ quic'[s].headers = quic[s].headers /\ ~quic'[s].told
      BY <1>0, <3>1 DEF TaskRec, QuicRec
    <3> QED BY <1>2, <2>1, <3>2
         DEF Turns, Before, Reading, Answering, Serving, Parked
  <2> QED BY <2>2, <2>3
<1> HIDE DEF Goal
<1>12. Goal
  BY <1>3, <1>4, <1>5, <1>6, <1>7, <1>8, <1>9, <1>10, <1>11
<1> QED BY <1>12 DEF Goal

(* The rest of the handler only matters by not reading any more.           *)
Answers == {"w_enter", "w_lock", "w_ask", "w_wait", "f_lock", "f_ask", "f_wait", "final", "end",
            "end_locks", "erase", "destroy", "gone"}

LEMMA AnswerTurns ==
  ASSUME TypeOK, BodyLeft, NEW s \in Streams, Turns(s), s \notin late', HandlerSteps(s),
         task[s].pc \in Answers
  PROVE  Turns(s)'
<1>0. Records /\ Bounds /\ task \in [Streams -> TaskRec]
  BY TypeParts DEF Records
<1>1. loop' = loop
  BY HandlerFrame
<1>2. UNCHANGED quic
  BY <1>0, HandlerQuic DEF Read_recv, Answers
<1>3. /\ task'[s].pc \in Answers /\ task'[s].v_body = task[s].v_body
      /\ task[s].is_deleting => task'[s].is_deleting
      /\ task'[s].pc \notin {"destroy", "gone"} /\ ~task'[s].is_deleting =>
           task[s].pc \notin {"destroy", "gone"} /\ tasks' = tasks
  <2> DEFINE Moved == /\ task'[s].pc \in Answers /\ task'[s].v_body = task[s].v_body
                      /\ task[s].is_deleting => task'[s].is_deleting
             Stays == task[s].pc \notin {"destroy", "gone"} /\ tasks' = tasks
             Leaves == task'[s].pc \in {"destroy", "gone"} \/ task'[s].is_deleting
  <2>p. Answers \subseteq TaskPCs
    BY DEF Answers, TaskPCs
  <2>g. ASSUME NEW pc \in Answers, Goto(s, pc)
        PROVE  Moved /\ task'[s].pc = pc
    <3>1. pc \in TaskPCs
      BY <2>p
    <3>2. task'[s].pc = pc /\ SameButPc(s) /\ task'[s].is_deleting = task[s].is_deleting
      BY <1>0, <2>g, <3>1, Goes
    <3> QED BY <3>2 DEF SameButPc
  <2>u. ASSUME NEW pc \in Answers, GiveUp(s, pc)
        PROVE  Moved /\ task'[s].is_deleting
    <3>1. pc \in TaskPCs
      BY <2>p
    <3>2. task'[s].pc = pc /\ SameButPc(s) /\ task'[s].is_deleting
      BY <1>0, <2>u, <3>1, GivesUp
    <3> QED BY <3>2 DEF SameButPc
  <2>a. {"w_enter", "w_lock", "w_ask", "w_wait", "f_ask", "final", "end", "end_locks", "erase",
         "destroy", "gone"} \subseteq Answers
    BY DEF Answers
  <2>1. ASSUME Finish(s) \/ Write_enter(s) \/ Write_lock(s) \/ Write_ask(s) \/ Write_wait(s)
               \/ File_lock(s) \/ End_unlock(s)
        PROVE  Moved /\ Stays
    <3>1. Stays
      BY <2>1 DEF Finish, Write_enter, Write_lock, Write_ask, Write_wait, File_lock, End_unlock
    <3>2. \/ Sent(s)
          \/ \E pc \in {"w_enter", "w_lock", "w_ask", "w_wait", "f_ask", "final", "end", "erase"} :
               Goto(s, pc) \/ GiveUp(s, pc)
      BY <2>1 DEF Finish, Write_enter, Write_lock, Write_ask, Write_wait, File_lock, End_unlock
    <3>s. Sent(s) => Moved
      <4>1. ASSUME NEW pc \in {"final", "w_enter"}, NEW n,
                   task' = [task EXCEPT ![s].pc = pc, ![s].text = n]
            PROVE  Moved
        <5>1. /\ task'[s].pc = pc /\ task'[s].v_body = task[s].v_body
              /\ task'[s].is_deleting = task[s].is_deleting
          BY <1>0, <4>1 DEF TaskRec
        <5> QED BY <2>a, <5>1
      <4> HIDE DEF Moved
      <4>2. ASSUME task' = [task EXCEPT ![s].pc = "w_enter", ![s].text = @ - 1]
            PROVE  task' = [task EXCEPT ![s].pc = "w_enter", ![s].text = task[s].text - 1]
        BY <4>2
      <4> QED BY <4>1, <4>2 DEF Sent
    <3>3. Moved
      BY <2>a, <2>g, <2>u, <3>2, <3>s
    <3> QED BY <3>1, <3>3
  <2>2. ASSUME File_ask(s)
        PROVE  Moved /\ Stays
    <3>1. Stays
      BY <2>2 DEF File_ask
    <3>2. CASE Goto(s, "final")
      BY <2>a, <2>g, <3>1, <3>2
    <3>3. ASSUME NEW n \in 0..MaxFile[s],
                 task' = [task EXCEPT ![s].pc = "f_wait", ![s].preSize = n,
                            ![s].buff = "announced", ![s].fti = n]
          PROVE  Moved /\ Stays
      <4>1. /\ task'[s].pc = "f_wait" /\ task'[s].v_body = task[s].v_body
            /\ task'[s].is_deleting = task[s].is_deleting
        BY <1>0, <3>3 DEF TaskRec
      <4> QED BY <3>1, <4>1 DEF Answers
    <3> QED BY <2>2, <3>2, <3>3 DEF File_ask
  <2>3. ASSUME File_wait(s)
        PROVE  Moved /\ Stays
    <3>1. Stays
      BY <2>3 DEF File_wait
    <3>2. CASE Goto(s, "final") \/ GiveUp(s, "final")
      BY <2>a, <2>g, <2>u, <3>1, <3>2
    <3>3. CASE task' = [task EXCEPT ![s].preSize = task[s].fti]
      <4>1. /\ task'[s].pc = task[s].pc /\ task'[s].v_body = task[s].v_body
            /\ task'[s].is_deleting = task[s].is_deleting
        BY <1>0, <3>3 DEF TaskRec
      <4> QED BY <3>1, <4>1
    <3> QED BY <2>3, <3>2, <3>3 DEF File_wait
  <2>4. ASSUME End_close(s) \/ End_erase(s) \/ Destroy(s)
        PROVE  Moved /\ Leaves
    <3>1. GiveUp(s, "end_locks") \/ Goto(s, "destroy") \/ Goto(s, "gone")
      BY <2>4 DEF End_close, End_erase, Destroy
    <3> QED BY <2>a, <2>g, <2>u, <3>1
  <2>5. \/ Finish(s) \/ Write_enter(s) \/ Write_lock(s) \/ Write_ask(s) \/ Write_wait(s)
        \/ File_lock(s) \/ File_ask(s) \/ File_wait(s)
        \/ End_close(s) \/ End_unlock(s) \/ End_erase(s) \/ Destroy(s)
    BY DEF HandlerSteps, Handler_start, User, Respond, Read_enter, Read_lock, Read_ask,
           Read_woken, Read_timeout, Read_recv, Answers
  <2> HIDE DEF Moved, Stays, Leaves
  <2>6. Moved /\ (Stays \/ Leaves)
    BY <2>1, <2>2, <2>3, <2>4, <2>5
  <2> QED BY <2>6 DEF Moved, Stays, Leaves
<1>4. task'[s].pc \notin {"none", "queued", "r_enter", "r_lock", "r_ask", "r_wait", "recv", "user",
                          "respond"}
  BY <1>3 DEF Answers
<1> QED BY <1>1, <1>2, <1>3, <1>4
    DEF Turns, Before, Reading, Answering, Serving, Parked, Answers

LEMMA StepTurns ==
  ASSUME TypeOK, BodyLeft, Next, NEW s \in Streams, Turns(s), s \notin late'
  PROVE  Turns(s)'
<1>1. CASE Loop_recv
  BY <1>1, RecvTurns
<1>2. CASE \/ Loop_writable(s) \/ Loop_w_lock(s) \/ Loop_w_check(s) \/ Loop_headers(s)
           \/ Loop_trailers(s) \/ Loop_h_timeout(s) \/ Loop_data(s) \/ Loop_d_lock(s)
           \/ Loop_d_check(s)
           \/ Loop_resume(s) \/ Loop_release(s) \/ Conn_reap(s)
  BY <1>2, LoopTurns
<1>3. CASE HandlerSteps(s)
  <2>1. CASE task[s].pc \in Answers
    BY <1>3, <2>1, AnswerTurns
  <2>2. CASE task[s].pc \notin Answers
    <3>1. \/ Handler_start(s) \/ User(s) \/ Respond(s)
          \/ Read_enter(s) \/ Read_lock(s) \/ Read_ask(s) \/ Read_woken(s) \/ Read_timeout(s)
          \/ Read_recv(s)
      BY <1>3, <2>2 DEF HandlerSteps, Finish, Write_enter, Write_lock, Write_ask, Write_wait,
                        File_lock, File_ask, File_wait, End_close, End_unlock, End_erase, Destroy,
                        Answers
    <3> QED BY <3>1, ReadTurns
  <2> QED BY <2>1, <2>2
<1> QED BY <1>1, <1>2, <1>3, ElsewhereStays

(* A stream on which a wait timed out stays out of what is claimed.        *)
LEMMA LateGrows ==
  ASSUME TypeOK, Next
  PROVE  late \subseteq late'
<1>1. ASSUME NEW s \in Streams, HandlerSteps(s)
      PROVE  late \subseteq late'
  BY <1>1, HandlerFrame
<1>2. ASSUME ~\E s \in Streams : HandlerSteps(s)
      PROVE  late \subseteq late'
  BY <1>2, NextActions
     DEF Loop_recv, Loop_unlocked, Loop_flush, Conn_closes, Conn_free, Pool_closes,
         Loop_writable, Loop_w_lock,
         Loop_w_check, Loop_headers, Loop_trailers, Loop_h_timeout, Loop_data, Loop_d_lock,
         Loop_d_check,
         Loop_resume, Loop_release, Conn_reap
<1> QED BY <1>1, <1>2

-----------------------------------------------------------------------------
LEMMA InitInv == Init => IInv
<1> SUFFICES ASSUME Init PROVE IInv
  OBVIOUS
<1> DEFINE free == [read |-> FALSE, write |-> FALSE, worker |-> FALSE]
           fresh == [headers |-> "none", net |-> 0, ready |-> 0, told |-> FALSE]
<1>1. /\ NewTask \in TaskRec /\ NewTask.pc = "none"
      /\ ~NewTask.v_body /\ ~NewTask.v_read /\ ~NewTask.is_deleting
      /\ NewTask.body_left = 0 /\ NewTask.text = 0 /\ NewTask.fti = 0 /\ NewTask.preSize = 0
  BY DEF NewTask, TaskRec, TaskPCs
<1>2. free \in HeldRec /\ ~free.worker
  BY DEF HeldRec
<1>3. fresh \in QuicRec /\ fresh.headers = "none" /\ fresh.net = 0 /\ fresh.ready = 0 /\ ~fresh.told
  BY DEF QuicRec
<1>4. /\ task = [s \in Streams |-> NewTask] /\ held = [s \in Streams |-> free]
      /\ quic = [s \in Streams |-> fresh]
  BY DEF Init
<1>5. loop \in LoopRec /\ loop.pc = "idle" /\ tasks = {} /\ History
  BY DEF Init, LoopRec, LoopPCs, History
<1> HIDE DEF free, fresh
<1>6. /\ task \in [Streams -> TaskRec] /\ held \in [Streams -> HeldRec]
      /\ quic \in [Streams -> QuicRec]
      /\ \A s \in Streams : task[s] = NewTask /\ held[s] = free /\ quic[s] = fresh
  BY <1>1, <1>2, <1>3, <1>4
<1>7. Bounds /\ BodyLeft
  BY <1>1, <1>3, <1>6, StreamAssumption DEF Bounds, BodyLeft
<1>8. TypeOK
  BY <1>5, <1>6, <1>7, TypeParts DEF Records
<1>9. ASSUME NEW s \in Streams
      PROVE  Turns(s)
  BY <1>1, <1>3, <1>5, <1>6 DEF Turns, Before, Reading, Answering, Serving, Parked
<1> QED BY <1>7, <1>8, <1>9 DEF IInv

LEMMA InvStep == IInv /\ [Next]_vars => IInv'
<1> SUFFICES ASSUME IInv, [Next]_vars PROVE IInv'
  OBVIOUS
<1>1. CASE Next
  <2>1. TypeOK' /\ BodyLeft'
    BY <1>1, StepTypes DEF IInv
  <2>2. ASSUME NEW s \in Streams, s \notin late'
        PROVE  Turns(s)'
    BY <1>1, <2>2, LateGrows, StepTurns DEF IInv
  <2> QED BY <2>1, <2>2 DEF IInv
<1>2. CASE UNCHANGED vars
  <2>1. UNCHANGED <<loop, task, held, quic, tasks, closed, freed, open, late, touched>>
    BY <1>2 DEF vars
  <2>2. TypeOK' /\ BodyLeft'
    BY <2>1 DEF IInv, TypeOK, BodyLeft
  <2>3. ASSUME NEW s \in Streams, s \notin late'
        PROVE  Turns(s)'
    BY <2>1, <2>3 DEF IInv, Turns, Before, Reading, Answering, Serving, Parked
  <2> QED BY <2>2, <2>3 DEF IInv
<1> QED BY <1>1, <1>2

THEOREM Invariance == Spec => []IInv
BY InitInv, InvStep, PTL DEF Spec

(* Every variable keeps its type, and no counter of parts leaves its       *)
(* range: what framing takes of a part never makes a count negative.       *)
THEOREM TypeCorrect == Spec => []TypeOK
<1>1. IInv => TypeOK
  BY DEF IInv
<1> QED BY <1>1, Invariance, PTL

(* A body is received from the library only while the loop is parked on    *)
(* that request's worker mutex, so the reader never uses the connection    *)
(* together with the loop or with another reader.                          *)
THEOREM ReaderHasTheConnection == Spec => []ReadersAlone
<1>1. IInv => ReadersAlone
  BY DEF IInv, ReadersAlone, Turns, Reading, Parked
<1> QED BY <1>1, Invariance, PTL

(* A reader that waits can still be woken: the next chunk will be          *)
(* announced, or the loop is on its way to unlock quic_m_read, or has.     *)
THEOREM WakeupIsNotLost == Spec => []NoLostWakeup
<1>1. IInv => NoLostWakeup
  BY DEF IInv, NoLostWakeup, Turns, Reading
<1> QED BY <1>1, Invariance, PTL

(* A DATA event that the loop drops was for a request that no longer reads *)
(* its body.                                                               *)
THEOREM DroppedDataIsUnwanted == Spec => DataReachesReader
<1> DEFINE Wanted(s) == quic'[s].told /\ ~quic[s].told /\ loop' = loop =>
             task[s].is_deleting \/ task[s].pc \notin
               {"queued", "r_enter", "r_lock", "r_ask", "r_wait", "recv", "user"}
           Kept == \A s \in Streams \ late : Wanted(s)
<1>1. ASSUME IInv, Next
      PROVE  Kept
  <2> SUFFICES ASSUME NEW s \in Streams, s \notin late,
                      quic'[s].told, ~quic[s].told, loop' = loop
               PROVE  task[s].is_deleting \/ task[s].pc \notin
                        {"queued", "r_enter", "r_lock", "r_ask", "r_wait", "recv", "user"}
    OBVIOUS
  <2>0. /\ TypeOK /\ BodyLeft /\ Turns(s) /\ Records /\ loop \in LoopRec
        /\ quic \in [Streams -> QuicRec]
        /\ task[s].body_left \in Nat /\ quic[s].net \in Nat /\ quic[s].ready \in Nat
    BY <1>1, TypeParts DEF IInv, Records, TaskRec, QuicRec
  <2>1. Loop_data(s)
    <3>1. ASSUME NEW t \in Streams, HandlerSteps(t)
          PROVE  FALSE
      <4>1. CASE t # s
        BY <2>0, <3>1, <4>1, HandlerTypes
      <4>2. CASE t = s
        <5>1. quic'[s].told = quic[s].told \/ ~quic'[s].told
          BY <2>0, <3>1, <4>2, HandlerQuic DEF QuicRec
        <5> QED BY <5>1
      <4> QED BY <4>1, <4>2
    <3>2. ~Loop_recv
      BY <2>0 DEF Loop_recv, LoopRec
    <3>3. quic' # quic
      OBVIOUS
    <3>4. ASSUME NEW t \in Streams, Loop_data(t)
          PROVE  t = s
      <4>1. quic' = [quic EXCEPT ![t].told = TRUE]
        BY <3>4 DEF Loop_data, EventTaken
      <4> QED BY <2>0, <4>1
    <3>5. ASSUME NEW t \in Streams, Loop_headers(t)
          PROVE  FALSE
      <4>1. loop'.pc \in {"h_wait", "idle"} /\ loop.pc = "poll"
        BY <2>0, <3>5 DEF Loop_headers, LoopServes, LoopFails, LoopRec
      <4> QED BY <4>1
    <3> QED BY <1>1, <3>1, <3>2, <3>3, <3>4, <3>5, NextActions
        DEF Loop_unlocked, Loop_flush, Conn_closes, Conn_free, Pool_closes, Loop_writable,
            Loop_w_lock,
            Loop_w_check, Loop_trailers, Loop_h_timeout, Loop_d_lock, Loop_d_check,
            Loop_resume, Loop_release,
            Conn_reap
  <2>2. /\ loop.pc = "poll" /\ quic[s].headers = "taken" /\ quic[s].ready > 0
        /\ ~(s \in tasks /\ task[s].v_body /\ ~task[s].is_deleting)
    <3>1. loop.pc = "poll" /\ EventArmed(s)
      BY <2>1 DEF Loop_data
    <3>2. ASSUME LoopServes(s, "d_lock")
          PROVE  FALSE
      <4>1. loop'.pc = "d_lock"
        BY <2>0, <3>2 DEF LoopServes, LoopRec
      <4> QED BY <3>1, <4>1
    <3> QED BY <2>1, <3>1, <3>2 DEF Loop_data, EventArmed
  <2>3. task[s].pc \notin {"queued", "r_enter", "r_lock", "r_ask", "recv"}
    BY <2>0, <2>2 DEF Turns, Before, Reading, Parked
  <2>4. task[s].pc \in {"r_wait", "user"} => task[s].is_deleting
    <3>1. task[s].body_left # 0
      BY <2>0, <2>2 DEF BodyLeft
    <3> QED BY <2>0, <2>2, <3>1 DEF Turns, Reading, Answering
  <2> QED BY <2>3, <2>4
<1>2. ASSUME UNCHANGED vars
      PROVE  Kept
  BY <1>2 DEF vars
<1>3. IInv /\ [Next]_vars => [Kept]_vars
  BY <1>1
<1> QED BY <1>3, Invariance, PTL DEF Spec, DataReachesReader
=============================================================================
