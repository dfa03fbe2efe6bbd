----------------------------- MODULE QuicStream -----------------------------
(***************************************************************************)
(* One HTTP/3 connection: the loop (http_task::udp_loop_event) and the     *)
(* request handlers (http_task::udp_doit), one per stream, all of          *)
(* src/src/ManapiTaskHttp.cpp.  The QUIC library is not thread-safe; loop  *)
(* and handlers take turns with three timed mutexes per request, which are *)
(* locked by one thread and unlocked by another: the build gives them the  *)
(* meaning of binary semaphores, with an unlock of a free one being void.  *)
(*                                                                         *)
(* The gate that keeps at most one loop per connection belongs to QuicConn.*)
(* The library (quiche) is external: a chunk that arrives arms one DATA    *)
(* event, and no further one before a receive has found nothing to read.   *)
(* Request and response bodies are numbers of parts.  An object the pool   *)
(* has destroyed keeps its last contents here, and touched records the     *)
(* loop's accesses to it.                                                  *)
(***************************************************************************)
EXTENDS Naturals

CONSTANTS
  Streams,
  Nil,
  MaxBody,   \* bound, per stream: parts of the request's body
  MaxText,   \* bound, per stream: parts of a text that is sent
  MaxFile    \* bound, per stream: parts of a file that is sent

ASSUME StreamAssumption ==
  /\ Nil \notin Streams
  /\ MaxBody \in [Streams -> Nat]
  /\ MaxText \in [Streams -> Nat]
  /\ MaxFile \in [Streams -> Nat]

VARIABLES
  loop,    \* pc of the loop, the stream it serves, writable streams left
  task,    \* per stream: the request object
  held,    \* per stream: which of its three mutexes are locked
  quic,    \* per stream: what the library knows
  tasks,   \* conn_io->tasks: the streams whose request is registered
  closed,  \* quiche_conn_is_closed
  freed,   \* quic_delete_conn_io has run to its end
  open,    \* the task pool accepts tasks
  late,    \* history: streams on which some wait timed out
  touched  \* history: streams whose request was used after its destruction

vars == <<loop, task, held, quic, tasks, closed, freed, open, late, touched>>

LoopPCs == {"idle", "writable", "w_lock", "w_check", "w_wait", "w_unlock",
            "poll", "h_wait", "h_unlock", "d_lock", "d_check", "d_wait",
            "d_unlock"}

TaskPCs == {"none", "queued", "r_enter", "r_lock", "r_ask", "r_wait", "recv",
            "user", "respond", "w_enter", "w_lock", "w_ask", "w_wait",
            "f_lock", "f_ask", "f_wait", "final", "end", "end_locks", "erase",
            "destroy", "gone"}

NewTask == [pc |-> "none", is_deleting |-> FALSE, has_id |-> TRUE,
            v_body |-> FALSE, v_read |-> FALSE, body_left |-> 0,
            buff |-> "binary", text |-> 0, fti |-> 0, preSize |-> 0]

Init ==
  /\ loop = [pc |-> "idle", s |-> Nil, todo |-> {}]
  /\ task = [s \in Streams |-> NewTask]
  /\ held = [s \in Streams |->
               [read |-> FALSE, write |-> FALSE, worker |-> FALSE]]
  /\ quic = [s \in Streams |->
               [headers |-> "none", net |-> 0, ready |-> 0, told |-> FALSE]]
  /\ tasks = {}
  /\ closed = FALSE
  /\ freed = FALSE
  /\ open = TRUE
  /\ late = {}
  /\ touched = {}

-----------------------------------------------------------------------------
(* Locks and program counters. *)

LoopAt(pc) == loop' = [loop EXCEPT !.pc = pc]
LoopServes(s, pc) == loop' = [loop EXCEPT !.pc = pc, !.s = s]
LoopFails == loop' = [pc |-> "idle", s |-> Nil, todo |-> {}]  \* an exception

Touch(s) ==
  touched' = IF task[s].pc = "gone" THEN touched \cup {s} ELSE touched

Release(s, m) == held' = [held EXCEPT ![s][m] = FALSE]
Acquire(s, m) == ~held[s][m] /\ held' = [held EXCEPT ![s][m] = TRUE]

Goto(s, pc) == task' = [task EXCEPT ![s].pc = pc]
GiveUp(s, pc) == task' = [task EXCEPT ![s].pc = pc, ![s].is_deleting = TRUE]

-----------------------------------------------------------------------------
(* The loop. *)

(* A packet is processed and the connection's mutex taken: it may open a   *)
(* stream, carry a chunk of a body or only make streams writable.          *)
Loop_recv ==
  /\ loop.pc = "idle" /\ ~closed /\ ~freed
  /\ \/ \E s \in Streams : \E n \in 0..MaxBody[s] :
          /\ quic[s].headers = "none"
          /\ quic' = [quic EXCEPT ![s].headers = "ready", ![s].net = n]
          /\ task' = [task EXCEPT ![s].body_left = n]
     \/ \E s \in Streams :
          /\ quic[s].headers # "none" /\ quic[s].net > 0
          /\ quic' = [quic EXCEPT ![s].net = @ - 1, ![s].ready = @ + 1]
          /\ UNCHANGED task
     \/ UNCHANGED <<quic, task>>
  /\ \E writable \in SUBSET tasks :
       loop' = [pc |-> "writable", s |-> Nil, todo |-> writable]
  /\ UNCHANGED <<held, tasks, closed, freed, late, touched, open>>

(* A writable stream is served unless its body is still to be read or its  *)
(* request is ending.                                                      *)
Loop_writable(s) ==
  /\ loop.pc = "writable" /\ s \in loop.todo
  /\ loop' = IF s \in tasks /\ ~task[s].v_body /\ ~task[s].is_deleting
             THEN [pc |-> "w_lock", s |-> s, todo |-> loop.todo \ {s}]
             ELSE [loop EXCEPT !.todo = @ \ {s}]
  /\ UNCHANGED <<task, held, quic, tasks, closed, freed, late, touched, open>>

Loop_w_lock(s) ==
  /\ loop.pc = "w_lock" /\ loop.s = s
  /\ Acquire(s, "worker")
  /\ LoopAt("w_check")
  /\ Touch(s)
  /\ UNCHANGED <<task, quic, tasks, closed, freed, late, open>>

(* Part of a file: what the stream's capacity allows, less what framing    *)
(* takes; the handler is woken when the capacity covered what was left.    *)
SendPart(s) ==
  \E capacity \in 0..task[s].fti, framing \in {0, 1} :
    /\ framing <= capacity
    /\ task' = [task EXCEPT ![s].fti = @ - (capacity - framing)]
    /\ IF capacity = task[s].fti THEN Release(s, "write") ELSE UNCHANGED held
    /\ LoopAt("w_unlock")

(* BINARY: hand the connection to the handler and wait for it.  FILE: send *)
(* a part; without capacity the request ends; a failed send throws out of  *)
(* the loop.  A file not announced yet does not open and is skipped.       *)
Loop_w_check(s) ==
  /\ loop.pc = "w_check" /\ loop.s = s
  /\ \/ /\ task[s].is_deleting \/ task[s].buff = "file"
        /\ LoopAt("w_unlock")
        /\ UNCHANGED <<task, held>>
     \/ /\ ~task[s].is_deleting /\ task[s].buff = "binary"
        /\ Release(s, "write")
        /\ LoopAt("w_wait")
        /\ UNCHANGED task
     \/ /\ ~task[s].is_deleting /\ task[s].buff = "announced"
        /\ \/ SendPart(s)
           \/ /\ task' = [task EXCEPT ![s].is_deleting = TRUE]
              /\ Release(s, "write")
              /\ LoopAt("w_unlock")
           \/ /\ held' = [held EXCEPT ![s].write = FALSE, ![s].worker = FALSE]
              /\ LoopFails
              /\ UNCHANGED task
  /\ Touch(s)
  /\ UNCHANGED <<quic, tasks, closed, freed, late, open>>

(* Every stream of the iterator has been served: release the connection's  *)
(* mutex and poll for events.                                              *)
Loop_unlocked ==
  /\ loop.pc = "writable" /\ loop.todo = {}
  /\ LoopAt("poll")
  /\ UNCHANGED <<task, held, quic, tasks, closed, freed, late, touched, open>>

(* HEADERS: the request is created with its worker mutex held, registered  *)
(* and given to the task pool; the loop waits until the handler asks for   *)
(* something or ends.  A closed pool destroys the request at once, and     *)
(* nobody looks: the loop waits for it all the same.  Headers that cannot  *)
(* be read destroy it before it is registered and end the loop.            *)
Loop_headers(s) ==
  /\ loop.pc = "poll" /\ quic[s].headers = "ready"
  /\ quic' = [quic EXCEPT ![s].headers = "taken"]
  /\ \/ /\ Acquire(s, "worker")
        /\ tasks' = tasks \cup {s}
        /\ Goto(s, IF open THEN "queued" ELSE "gone")
        /\ LoopServes(s, "h_wait")
     \/ /\ Goto(s, "gone")
        /\ LoopFails
        /\ UNCHANGED <<held, tasks>>
  /\ UNCHANGED <<closed, freed, late, touched, open>>

(* HEADERS once more, behind the whole body (trailers), on a stream whose  *)
(* request is still registered: an exception ends the loop.                *)
Loop_trailers(s) ==
  /\ loop.pc = "poll" /\ quic[s].headers = "taken"
  /\ quic[s].net = 0 /\ quic[s].ready = 0
  /\ s \in tasks
  /\ LoopFails
  /\ UNCHANGED <<task, held, quic, tasks, closed, freed, late, touched, open>>

(* try_lock_for(100 s) gives up: the request is to end. *)
Loop_h_timeout(s) ==
  /\ loop.pc = "h_wait" /\ loop.s = s
  /\ held[s].worker
  /\ task' = [task EXCEPT ![s].is_deleting = TRUE]
  /\ late' = late \cup {s}
  /\ LoopAt("h_unlock")
  /\ Touch(s)
  /\ UNCHANGED <<held, quic, tasks, closed, freed, open>>

EventArmed(s) ==
  /\ quic[s].headers = "taken" /\ quic[s].ready > 0 /\ ~quic[s].told
EventTaken(s) == quic' = [quic EXCEPT ![s].told = TRUE]

(* DATA: dropped unless the handler still reads its body. *)
Loop_data(s) ==
  /\ loop.pc = "poll" /\ EventArmed(s)
  /\ EventTaken(s)
  /\ IF s \in tasks /\ task[s].v_body /\ ~task[s].is_deleting
     THEN LoopServes(s, "d_lock") ELSE loop' = loop
  /\ UNCHANGED <<task, held, tasks, closed, freed, late, touched, open>>

Loop_d_lock(s) ==
  /\ loop.pc = "d_lock" /\ loop.s = s
  /\ Acquire(s, "worker")
  /\ LoopAt("d_check")
  /\ Touch(s)
  /\ UNCHANGED <<task, quic, tasks, closed, freed, late, open>>

(* Mutant of Loop_d_check: the reader is not woken. *)
LoopNoWake(s) ==
  /\ loop.pc = "d_check" /\ loop.s = s
  /\ LoopAt(IF task[s].is_deleting THEN "d_unlock" ELSE "d_wait")
  /\ Touch(s)
  /\ UNCHANGED <<task, held, quic, tasks, closed, freed, late, open>>

(* Mutant of Loop_d_check: the loop does not wait for the reader. *)
LoopNoPark(s) ==
  /\ loop.pc = "d_check" /\ loop.s = s
  /\ Release(s, "read")
  /\ LoopAt("d_unlock")
  /\ Touch(s)
  /\ UNCHANGED <<task, quic, tasks, closed, freed, late, open>>

(* The reader is woken; the loop waits for it unless it has given up. *)
Loop_d_check(s) ==
  /\ loop.pc = "d_check" /\ loop.s = s
  /\ Release(s, "read")
  /\ LoopAt(IF task[s].is_deleting THEN "d_unlock" ELSE "d_wait")
  /\ Touch(s)
  /\ UNCHANGED <<task, quic, tasks, closed, freed, late, open>>

(* The handler lets the loop go on: quic_m_worker.lock(), or the           *)
(* try_lock_for of HEADERS, succeeds.                                      *)
Loop_resume(s) ==
  /\ loop.s = s
  /\ \/ loop.pc = "h_wait" /\ LoopAt("h_unlock")
     \/ loop.pc = "w_wait" /\ LoopAt("w_unlock")
     \/ loop.pc = "d_wait" /\ LoopAt("d_unlock")
  /\ Acquire(s, "worker")
  /\ Touch(s)
  /\ UNCHANGED <<task, quic, tasks, closed, freed, late, open>>

(* The lock_guard of the branch unlocks the worker mutex. *)
Loop_release(s) ==
  /\ loop.s = s
  /\ \/ loop.pc \in {"h_unlock", "d_unlock"} /\ LoopServes(Nil, "poll")
     \/ loop.pc = "w_unlock" /\ LoopServes(Nil, "writable")
  /\ Release(s, "worker")
  /\ Touch(s)
  /\ UNCHANGED <<task, quic, tasks, closed, freed, late, open>>

(* No event is left: flush, and look for the next packet. *)
Loop_flush ==
  /\ loop.pc = "poll"
  /\ \A s \in Streams : quic[s].headers # "ready" /\ ~EventArmed(s)
  /\ LoopAt("idle")
  /\ UNCHANGED <<task, held, quic, tasks, closed, freed, late, touched, open>>

-----------------------------------------------------------------------------
(* The handlers. *)

(* Mutant of Handler_start: v_body is not set before the first read. *)
StartNoBody(s) ==
  /\ task[s].pc = "queued"
  /\ \/ Goto(s, "end")
     \/ Goto(s, IF task[s].body_left = 0 THEN "user" ELSE "r_enter")
  /\ UNCHANGED <<loop, held, quic, tasks, closed, freed, late, touched, open>>

(* The pool executes the request.  With a body, v_body is set before the   *)
(* first read; an exception (no route, no content-length) ends it at once. *)
Handler_start(s) ==
  /\ task[s].pc = "queued"
  /\ \/ Goto(s, "end")
     \/ task[s].body_left = 0 /\ Goto(s, "user")
     \/ /\ task[s].body_left > 0
        /\ task' = [task EXCEPT ![s].pc = "r_enter", ![s].v_body = TRUE]
  /\ UNCHANGED <<loop, held, quic, tasks, closed, freed, late, touched, open>>

(* mask_read. *)
Read_enter(s) ==
  /\ task[s].pc = "r_enter"
  /\ Goto(s, IF task[s].is_deleting THEN "user"
             ELSE IF task[s].v_read THEN "recv" ELSE "r_lock")
  /\ UNCHANGED <<loop, held, quic, tasks, closed, freed, late, touched, open>>

Read_lock(s) ==
  /\ task[s].pc = "r_lock"
  /\ Acquire(s, "read")
  /\ Goto(s, "r_ask")
  /\ UNCHANGED <<loop, quic, tasks, closed, freed, late, touched, open>>

(* Let the loop go on, to fetch more of the body. *)
Read_ask(s) ==
  /\ task[s].pc = "r_ask"
  /\ IF task[s].is_deleting THEN Release(s, "read") /\ Goto(s, "user")
                            ELSE Release(s, "worker") /\ Goto(s, "r_wait")
  /\ UNCHANGED <<loop, quic, tasks, closed, freed, late, touched, open>>

(* The loop (or the end of the connection) has unlocked quic_m_read; the   *)
(* reader locks it and its lock_guard unlocks it again.                    *)
Read_woken(s) ==
  /\ task[s].pc = "r_wait" /\ ~held[s].read
  /\ task' = IF task[s].is_deleting
             THEN [task EXCEPT ![s].pc = "user"]
             ELSE [task EXCEPT ![s].pc = "recv", ![s].v_read = TRUE]
  /\ UNCHANGED <<loop, held, quic, tasks, closed, freed, late, touched, open>>

Read_timeout(s) ==
  /\ task[s].pc = "r_wait" /\ held[s].read
  /\ GiveUp(s, "user")
  /\ Release(s, "read")
  /\ late' = late \cup {s}
  /\ UNCHANGED <<loop, quic, tasks, closed, freed, touched, open>>

(* quiche_h3_recv_body returns bytes, or DONE: then wait for the loop. *)
Read_recv(s) ==
  /\ task[s].pc = "recv"
  /\ IF quic[s].ready > 0
     THEN /\ quic' = [quic EXCEPT ![s].ready = @ - 1]
          /\ task' = [task EXCEPT ![s].pc = "user", ![s].body_left = @ - 1]
     ELSE /\ quic' = [quic EXCEPT ![s].told = FALSE]
          /\ task' = [task EXCEPT ![s].pc = "r_lock", ![s].v_read = FALSE]
  /\ UNCHANGED <<loop, held, tasks, closed, freed, late, touched, open>>

(* The handler reads on, or responds: send_response chooses the kind of    *)
(* buffer before mask_response.  A failed read throws, and is answered too. *)
User(s) ==
  /\ task[s].pc = "user"
  /\ \/ task[s].body_left > 0 /\ ~task[s].is_deleting /\ Goto(s, "r_enter")
     \/ \E b \in {"binary", "file"} :
          task' = [task EXCEPT ![s].pc = "respond", ![s].buff = b]
  /\ UNCHANGED <<loop, held, quic, tasks, closed, freed, late, touched, open>>

(* mask_response: no more reading, the headers are sent; then the body, if *)
(* there is one.                                                           *)
Headers(s, pc, n) ==
  task' = [task EXCEPT ![s].v_body = FALSE, ![s].pc = pc, ![s].text = n]

Respond(s) ==
  /\ task[s].pc = "respond"
  /\ \/ task[s].is_deleting /\ Goto(s, "final")
     \/ ~task[s].is_deleting /\ Headers(s, "final", 0)
     \/ ~task[s].is_deleting /\ task[s].buff = "file" /\ Headers(s, "f_lock", 0)
     \/ /\ ~task[s].is_deleting /\ task[s].buff = "binary"
        /\ \E n \in 1..MaxText[s] : Headers(s, "w_enter", n)
  /\ UNCHANGED <<loop, held, quic, tasks, closed, freed, late, touched, open>>

(* Capacity: a part of the text is sent, perhaps the last, or the library  *)
(* does not take it, which ends the answer.                                *)
Sent(s) ==
  \/ task' = [task EXCEPT ![s].pc = "final", ![s].text = 0]
  \/ /\ task[s].text > 1
     /\ task' = [task EXCEPT ![s].pc = "w_enter", ![s].text = @ - 1]

(* mask_write: send at once if there is capacity, otherwise ask the loop.  *)
Write_enter(s) ==
  /\ task[s].pc = "w_enter"
  /\ \/ task[s].is_deleting /\ Goto(s, "final")
     \/ /\ ~task[s].is_deleting
        /\ \/ Sent(s)
           \/ Goto(s, "w_lock")   \* little capacity
           \/ GiveUp(s, "final")  \* no capacity at all
  /\ UNCHANGED <<loop, held, quic, tasks, closed, freed, late, touched, open>>

Write_lock(s) ==
  /\ task[s].pc = "w_lock"
  /\ \/ Acquire(s, "write") /\ Goto(s, "w_ask") /\ UNCHANGED late
     \/ /\ held[s].write
        /\ Release(s, "write")
        /\ GiveUp(s, "final")
        /\ late' = late \cup {s}
  /\ UNCHANGED <<loop, quic, tasks, closed, freed, touched, open>>

Write_ask(s) ==
  /\ task[s].pc = "w_ask"
  /\ IF task[s].is_deleting THEN Release(s, "write") /\ Goto(s, "final")
                            ELSE Release(s, "worker") /\ Goto(s, "w_wait")
  /\ UNCHANGED <<loop, quic, tasks, closed, freed, late, touched, open>>

(* Every 50 ms: woken by the loop or not, the capacity is looked at.  The  *)
(* mutex is unlocked when the attempt ends.                                *)
Write_wait(s) ==
  /\ task[s].pc = "w_wait"
  /\ Release(s, "write")
  /\ \/ task[s].is_deleting /\ Goto(s, "final") /\ UNCHANGED late
     \/ /\ ~task[s].is_deleting
        /\ \/ Sent(s) /\ UNCHANGED late
           \/ ~held[s].write /\ Goto(s, "w_lock") /\ UNCHANGED late
           \/ GiveUp(s, "final") /\ late' = late \cup {s}
  /\ UNCHANGED <<loop, quic, tasks, closed, freed, touched, open>>

(* Mutant of File_wait: waits for the loop without a limit of time. *)
FileWaitUnlimited(s) ==
  /\ task[s].pc = "f_wait"
  /\ task[s].is_deleting \/ ~held[s].write
  /\ Release(s, "write") /\ Goto(s, "final")
  /\ UNCHANGED <<loop, quic, tasks, closed, freed, late, touched, open>>

(* mask_write_file: announce the file, let the loop send it, wait until it *)
(* says it has; a timeout ends the request unless some part was sent.      *)
File_lock(s) ==
  /\ task[s].pc = "f_lock"
  /\ Acquire(s, "write")
  /\ Goto(s, "f_ask")
  /\ UNCHANGED <<loop, quic, tasks, closed, freed, late, touched, open>>

File_ask(s) ==
  /\ task[s].pc = "f_ask"
  /\ IF task[s].is_deleting
     THEN Release(s, "write") /\ Goto(s, "final")
     ELSE /\ Release(s, "worker")
          /\ \E n \in 0..MaxFile[s] :
               task' = [task EXCEPT ![s].pc = "f_wait", ![s].preSize = n,
                          ![s].buff = "announced", ![s].fti = n]
  /\ UNCHANGED <<loop, quic, tasks, closed, freed, late, touched, open>>

File_wait(s) ==
  /\ task[s].pc = "f_wait"
  /\ IF task[s].is_deleting \/ ~held[s].write
     THEN Release(s, "write") /\ Goto(s, "final") /\ UNCHANGED late
     ELSE IF task[s].preSize = task[s].fti
     THEN Release(s, "write") /\ GiveUp(s, "final") /\ late' = late \cup {s}
     ELSE IF task[s].fti = 0
     THEN Release(s, "write") /\ Goto(s, "final") /\ UNCHANGED late
     ELSE /\ task' = [task EXCEPT ![s].preSize = task[s].fti]
          /\ UNCHANGED <<held, late>>
  /\ UNCHANGED <<loop, quic, tasks, closed, freed, touched, open>>

(* The end of the stream is sent, unless the request is ending already. *)
Finish(s) ==
  /\ task[s].pc = "final"
  /\ Goto(s, "end")
  /\ UNCHANGED <<loop, held, quic, tasks, closed, freed, late, touched, open>>

(* bd_conn: a request that gave up closes the whole connection. *)
End_close(s) ==
  /\ task[s].pc = "end"
  /\ closed' = (closed \/ (task[s].is_deleting /\ task[s].has_id))
  /\ GiveUp(s, "end_locks")
  /\ UNCHANGED <<loop, held, quic, tasks, freed, late, touched, open>>

(* Mutant of End_unlock: the worker mutex stays locked. *)
EndKeepsWorker(s) ==
  /\ task[s].pc = "end_locks"
  /\ held' = [held EXCEPT ![s].read = FALSE, ![s].write = FALSE]
  /\ Goto(s, "erase")
  /\ UNCHANGED <<loop, quic, tasks, closed, freed, late, touched, open>>

UnlockAll(s) ==
  held' = [held EXCEPT
             ![s] = [read |-> FALSE, write |-> FALSE, worker |-> FALSE]]

(* bd_conn unlocks write, read and worker. *)
End_unlock(s) ==
  /\ task[s].pc = "end_locks"
  /\ UnlockAll(s)
  /\ Goto(s, "erase")
  /\ UNCHANGED <<loop, quic, tasks, closed, freed, late, touched, open>>

End_erase(s) ==
  /\ task[s].pc = "erase"
  /\ tasks' = IF task[s].has_id THEN tasks \ {s} ELSE tasks
  /\ Goto(s, "destroy")
  /\ UNCHANGED <<loop, held, quic, closed, freed, late, touched, open>>

(* The pool destroys the executed task. *)
Destroy(s) ==
  /\ task[s].pc = "destroy"
  /\ Goto(s, "gone")
  /\ UNCHANGED <<loop, held, quic, tasks, closed, freed, late, touched, open>>

-----------------------------------------------------------------------------
(* The end of the connection. *)

(* The peer closes it, it idles out, or a stream is reset (an event). *)
Conn_closes ==
  /\ loop.pc \in {"idle", "poll"} /\ ~closed
  /\ closed' = TRUE
  /\ UNCHANGED <<loop, task, held, quic, tasks, freed, late, touched, open>>

(* While no loop runs, quic_delete_conn_io with quic_set_to_delete: every  *)
(* registered request is told to end, its waits are released, and it is    *)
(* forgotten.                                                              *)
Conn_reap(s) ==
  /\ loop.pc = "idle" /\ closed /\ ~freed
  /\ s \in tasks
  /\ tasks' = tasks \ {s}
  /\ IF task[s].is_deleting THEN UNCHANGED <<task, held>>
     ELSE /\ task' = [task EXCEPT ![s].is_deleting = TRUE, ![s].has_id = FALSE]
          /\ UnlockAll(s)
  /\ UNCHANGED <<loop, quic, closed, freed, late, touched, open>>

Conn_free ==
  /\ loop.pc = "idle" /\ closed /\ ~freed
  /\ tasks = {}
  /\ freed' = TRUE
  /\ UNCHANGED <<loop, task, held, quic, tasks, closed, late, touched, open>>

(* The server stops: its task pool is closed.  What is queued is executed  *)
(* as long as a worker takes it.                                           *)
Pool_closes ==
  /\ open
  /\ open' = FALSE
  /\ UNCHANGED <<loop, task, held, quic, tasks, closed, freed, late, touched>>

-----------------------------------------------------------------------------
LoopSteps ==
  \/ \E s \in Streams :
       \/ Loop_writable(s) \/ Loop_w_lock(s) \/ Loop_w_check(s)
       \/ Loop_headers(s) \/ Loop_trailers(s) \/ Loop_h_timeout(s)
       \/ Loop_data(s) \/ Loop_d_lock(s) \/ Loop_d_check(s)
       \/ Loop_resume(s) \/ Loop_release(s)
  \/ Loop_unlocked
  \/ Loop_flush

HandlerSteps(s) ==
  \/ Handler_start(s) \/ User(s) \/ Respond(s) \/ Finish(s)
  \/ Read_enter(s) \/ Read_lock(s) \/ Read_ask(s)
  \/ Read_woken(s) \/ Read_timeout(s) \/ Read_recv(s)
  \/ Write_enter(s) \/ Write_lock(s) \/ Write_ask(s) \/ Write_wait(s)
  \/ File_lock(s) \/ File_ask(s) \/ File_wait(s)
  \/ End_close(s) \/ End_unlock(s) \/ End_erase(s) \/ Destroy(s)

Next ==
  \/ Loop_recv \/ LoopSteps
  \/ \E s \in Streams : HandlerSteps(s)
  \/ Conn_closes \/ Conn_free \/ Pool_closes
  \/ \E s \in Streams : Conn_reap(s)

Spec == Init /\ [][Next]_vars

(* The loop's thread and the workers run; timed waits expire; the user's   *)
(* handler ends.  No packet is promised, and no start once the task pool   *)
(* has been closed.                                                        *)
Abandoned(s) == task[s].pc = "queued" /\ ~open

FairSpec ==
  /\ Spec
  /\ WF_vars(LoopSteps)
  /\ \A s \in Streams : WF_vars(~Abandoned(s) /\ HandlerSteps(s))

-----------------------------------------------------------------------------
(* Every variable has its type. *)
TypeOK ==
  /\ loop \in [pc : LoopPCs, s : Streams \cup {Nil}, todo : SUBSET Streams]
  /\ task \in [Streams ->
       [pc : TaskPCs, is_deleting : BOOLEAN, has_id : BOOLEAN,
        v_body : BOOLEAN, v_read : BOOLEAN, body_left : Nat,
        buff : {"binary", "file", "announced"}, text : Nat, fti : Nat,
        preSize : Nat]]
  /\ \A s \in Streams :
       /\ task[s].body_left \in 0..MaxBody[s]
       /\ task[s].text \in 0..MaxText[s]
       /\ task[s].fti \in 0..MaxFile[s] /\ task[s].preSize \in 0..MaxFile[s]
       /\ quic[s].net + quic[s].ready \in 0..MaxBody[s]
  /\ held \in [Streams ->
       [read : BOOLEAN, write : BOOLEAN, worker : BOOLEAN]]
  /\ quic \in [Streams ->
       [headers : {"none", "ready", "taken"}, net : Nat, ready : Nat,
        told : BOOLEAN]]
  /\ tasks \subseteq Streams
  /\ closed \in BOOLEAN /\ freed \in BOOLEAN /\ open \in BOOLEAN
  /\ late \subseteq Streams /\ touched \subseteq Streams

(* A body is received from the library only while the loop is parked on    *)
(* that request's worker mutex: reader and loop, and two readers, never    *)
(* use the connection together, unless a wait of the stream timed out.     *)
ReadersAlone ==
  \A s \in Streams \ late :
    task[s].pc = "recv" => loop.pc = "d_wait" /\ loop.s = s

(* A reader that waits can still be woken: the library would announce the  *)
(* next chunk, or the loop is about to unlock quic_m_read, or it has.      *)
NoLostWakeup ==
  \A s \in Streams \ late :
    task[s].pc = "r_wait" =>
      \/ ~quic[s].told \/ ~held[s].read
      \/ loop.pc \in {"d_lock", "d_check"} /\ loop.s = s

(* A DATA event is dropped only when the handler no longer reads: it has   *)
(* responded, given up or gone, or a wait timed out.                       *)
DataReachesReader ==
  [][\A s \in Streams \ late :
       quic'[s].told /\ ~quic[s].told /\ loop' = loop =>
         task[s].is_deleting \/ task[s].pc \notin
           {"queued", "r_enter", "r_lock", "r_ask", "r_wait", "recv", "user"}
    ]_vars

(* The loop always finishes with a packet: whatever it waits for, with no  *)
(* limit of time (w_wait, d_wait, the worker mutex), some handler does.    *)
LoopComesBack == loop.pc # "idle" ~> loop.pc = "idle"

(* A request that was given to the pool ends and is destroyed, also one    *)
(* that waits for its turn to write.  Excepted are a writer that asks for  *)
(* capacity again and again, for ever, and a request that was not taken    *)
(* before the pool was closed and never is.                                *)
RequestsEnd ==
  \A s \in Streams :
    \/ task[s].pc = "queued" ~> task[s].pc = "gone"
    \/ []<>(task[s].pc = "w_ask")
    \/ <>[]Abandoned(s)

(* The comment "its bad, but we know that its works" on keeping a raw      *)
(* pointer to the task: the loop never uses a request that was destroyed.  *)
TaskOutlivesLoop == touched = {}
=============================================================================
