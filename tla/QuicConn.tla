------------------------------ MODULE QuicConn ------------------------------
(***************************************************************************)
(* The life of a QUIC connection: created and fed by the event loop        *)
(* (http_pool::new_connection_quic), served by udp_loop_event in a worker  *)
(* of the task pool, kept alive by timers whose callback quic_timeout_cb   *)
(* runs in a worker too, and erased by that callback or by http_pool::stop.*)
(*                                                                         *)
(* Connections are found by their key in quic_map_conns; one key is        *)
(* modelled, with the connections that bear it one after the other.  The   *)
(* map's lock is held across steps only by stop (m_map); everyone else     *)
(* locks it for one step.  conn_io->mutex is conn[c].mutex, the thread     *)
(* that holds it.  What happens inside a connection between taking a       *)
(* packet and flushing is QuicStream's subject.  An object that was erased *)
(* keeps its last contents for those who still hold a pointer to it.       *)
(*                                                                         *)
(* The server stops its task pool before its http_pool: http_pool::stop    *)
(* begins when every worker has left.  Between the close and that moment   *)
(* the pool refuses tasks while workers may still take what is queued      *)
(* (ThreadPool says how many; here any number).                            *)
(***************************************************************************)
EXTENDS Naturals, FiniteSets

CONSTANTS
  Workers,     \* workers of the task pool that serve this key
  Conns,       \* the connection objects: 1, 2, ..., in order of creation
  Stopper,     \* the thread in http_pool::stop
  Nobody,
  MaxPackets,  \* bound: datagrams that arrive
  MaxTimers    \* bound: timers appended

ASSUME ConnAssumption ==
  /\ Conns = 1..Cardinality(Conns)
  /\ Stopper \notin Workers /\ Nobody \notin Workers \cup {Stopper}
  /\ MaxPackets \in Nat /\ MaxTimers \in Nat

None == 0  \* no connection, and no timer

VARIABLES
  entry,    \* quic_map_conns: the connection under the key, or None
  m_map,    \* whether stop holds the map's lock
  conn,     \* the connections
  reader,   \* the event loop: "idle", or "append" with its pointer
  packets,  \* datagrams received so far
  loops,    \* udp_loop_event tasks in the task pool
  timers,   \* pending timers of the key
  timer_no, \* timers appended so far
  cbs,      \* quic_timeout_cb tasks in the task pool
  worker,   \* per worker: where it is, its pointer
  stop,     \* how far the server's stop has come
  in_use,   \* history: connections erased while a loop was due or running
  refused   \* history: whether the closed task pool has refused a task

vars == <<entry, m_map, conn, reader, packets, loops, timers, timer_no, cbs,
          worker, stop, in_use, refused>>

Unmade == [made |-> FALSE, is_deleting |-> FALSE, is_responsing |-> FALSE,
           buffers |-> 0, timer_id |-> None, mutex |-> Nobody,
           closed |-> FALSE, flushed |-> FALSE, failed |-> FALSE]

Init ==
  /\ entry = None
  /\ m_map = FALSE
  /\ conn = [c \in Conns |-> Unmade]
  /\ reader = [pc |-> "idle", p |-> None, first |-> FALSE]
  /\ packets = 0
  /\ loops = 0
  /\ timers = {}
  /\ timer_no = 0
  /\ cbs = 0
  /\ worker = [w \in Workers |-> [pc |-> "idle", p |-> None]]
  /\ stop = "none"
  /\ in_use = {}
  /\ refused = FALSE

Goto(w, pc) == worker' = [worker EXCEPT ![w].pc = pc]
Done(w) == worker' = [worker EXCEPT ![w] = [pc |-> "idle", p |-> None]]
At(w, pc) == worker[w].pc = pc
P(w) == worker[w].p

LoopPCs  == {"l_check", "l_take", "l_lock", "l_serve", "l_flush", "l_append",
             "l_exit"}
TimerPCs == {"t_lock", "t_check", "t_flush", "t_append", "t_closed",
             "t_delete", "t_erase"}

(* The task pool accepts tasks, and workers take them. *)
Open   == stop = "none"
Taking == stop \in {"none", "closing"}

Looping(c) == {w \in Workers : worker[w].pc \in LoopPCs /\ P(w) = c}

-----------------------------------------------------------------------------
(* The event loop: http_pool::new_connection_quic. *)

(* The gate: whoever turns is_responsing on appends the loop's task. *)
Pass(c) ==
  /\ reader' = [pc |-> "append", p |-> c, first |-> ~conn[c].is_responsing]
  /\ conn' = [conn EXCEPT ![c].made = TRUE, ![c].is_responsing = TRUE]

(* Mutant of Packet_known: the gate is not looked at. *)
PacketUngated ==
  /\ reader.pc = "idle" /\ packets < MaxPackets /\ ~m_map
  /\ stop # "stopped"
  /\ entry # None
  /\ reader' = [pc |-> "append", p |-> entry, first |-> TRUE]
  /\ conn' = [conn EXCEPT ![entry].is_responsing = TRUE]
  /\ packets' = packets + 1
  /\ UNCHANGED <<entry, m_map, loops, timers, timer_no, cbs, worker, stop,
                 in_use, refused>>

(* A datagram for a known key. *)
Packet_known ==
  /\ reader.pc = "idle" /\ packets < MaxPackets /\ ~m_map
  /\ stop # "stopped"
  /\ entry # None
  /\ Pass(entry)
  /\ packets' = packets + 1
  /\ UNCHANGED <<entry, m_map, loops, timers, timer_no, cbs, worker, stop,
                 in_use, refused>>

(* A valid first datagram: quic_create_connection inserts a connection. *)
Packet_new ==
  /\ reader.pc = "idle" /\ packets < MaxPackets /\ ~m_map
  /\ stop # "stopped"
  /\ entry = None
  /\ \E c \in Conns :
       /\ ~conn[c].made /\ \A d \in Conns : d < c => conn[d].made
       /\ entry' = c
       /\ Pass(c)
  /\ packets' = packets + 1
  /\ UNCHANGED <<m_map, loops, timers, timer_no, cbs, worker, stop, in_use, refused>>

(* Under buffers_mutex: the datagram is stored and, if the gate was open,  *)
(* a task that will run the loop is appended.  A closed pool refuses it,   *)
(* which nobody looks at: the gate then stays shut.                        *)
Packet_append ==
  /\ reader.pc = "append"
  /\ conn' = [conn EXCEPT ![reader.p].buffers = @ + 1]
  /\ loops' = IF reader.first /\ Open THEN loops + 1 ELSE loops
  /\ refused' = (refused \/ (reader.first /\ ~Open))
  /\ reader' = [pc |-> "idle", p |-> None, first |-> FALSE]
  /\ UNCHANGED <<entry, m_map, packets, timers, timer_no, cbs, worker, stop,
                 in_use>>

-----------------------------------------------------------------------------
(* http_task::udp_loop_event in a worker. *)

(* The task is taken; the connection may be gone. *)
Loop_find(w) ==
  /\ At(w, "idle") /\ Taking /\ loops > 0 /\ ~m_map
  /\ loops' = loops - 1
  /\ worker' = IF entry = None THEN worker
               ELSE [worker EXCEPT ![w] = [pc |-> "l_check", p |-> entry]]
  /\ UNCHANGED <<entry, m_map, conn, reader, packets, timers, timer_no, cbs,
                 stop, in_use, refused>>

(* Mutant of Loop_check: the gate opens as soon as the loop has begun. *)
CheckOpensGate(w) ==
  /\ At(w, "l_check")
  /\ Goto(w, IF conn[P(w)].is_deleting THEN "l_exit" ELSE "l_take")
  /\ conn' = [conn EXCEPT ![P(w)].is_responsing = FALSE]
  /\ UNCHANGED <<entry, m_map, reader, packets, loops, timers, timer_no,
                 cbs, stop, in_use, refused>>

(* A connection that is being deleted is left alone. *)
Loop_check(w) ==
  /\ At(w, "l_check")
  /\ Goto(w, IF conn[P(w)].is_deleting THEN "l_exit" ELSE "l_take")
  /\ UNCHANGED <<entry, m_map, conn, reader, packets, loops, timers, timer_no,
                 cbs, stop, in_use, refused>>

(* Under buffers_mutex: one datagram is given to the library, which may    *)
(* refuse it; without one the loop ends.                                   *)
Loop_take(w) ==
  /\ At(w, "l_take")
  /\ IF conn[P(w)].buffers = 0
     THEN Goto(w, "l_exit") /\ UNCHANGED conn
     ELSE /\ conn' = [conn EXCEPT ![P(w)].buffers = @ - 1]
          /\ Goto(w, "l_lock") \/ Goto(w, "l_exit")
  /\ UNCHANGED <<entry, m_map, reader, packets, loops, timers, timer_no, cbs,
                 stop, in_use, refused>>

(* conn_io->mutex; a connection that is closed or being deleted is left. *)
Loop_lock(w) ==
  /\ At(w, "l_lock") /\ conn[P(w)].mutex = Nobody
  /\ IF conn[P(w)].closed \/ conn[P(w)].is_deleting
     THEN Goto(w, "l_exit") /\ UNCHANGED conn
     ELSE /\ conn' = [conn EXCEPT ![P(w)].mutex = w]
          /\ Goto(w, "l_serve")
  /\ UNCHANGED <<entry, m_map, reader, packets, loops, timers, timer_no, cbs,
                 stop, in_use, refused>>

(* Mutant of Loop_serve: the mutex is not released by an exception. *)
ServeKeepsMutex(w) ==
  /\ At(w, "l_serve")
  /\ \/ Goto(w, "l_exit") /\ UNCHANGED conn
     \/ /\ ~conn[P(w)].is_deleting /\ Goto(w, "l_flush")
        /\ conn' = [conn EXCEPT ![P(w)].mutex = Nobody]
  /\ UNCHANGED <<entry, m_map, reader, packets, loops, timers, timer_no, cbs,
                 stop, in_use, refused>>

(* Streams are served, the mutex released, events polled (QuicStream); an  *)
(* exception ends the loop.                                                *)
Loop_serve(w) ==
  /\ At(w, "l_serve")
  /\ conn' = [conn EXCEPT ![P(w)].mutex = Nobody]
  /\ \/ Goto(w, "l_exit")
     \/ ~conn[P(w)].is_deleting /\ Goto(w, "l_flush")
  /\ UNCHANGED <<entry, m_map, reader, packets, loops, timers, timer_no, cbs,
                 stop, in_use, refused>>

(* quic_flush_egress when the library makes no packet or the socket does   *)
(* not take it: no timer is removed or appended.                           *)
Failed(c) == [conn[c] EXCEPT !.failed = TRUE]

(* First half: nothing to wait for (a = -1) exactly on a closed connection;*)
(* otherwise the timer in timer_id is removed.                             *)
Flush_remove(w, append, after) ==
  IF conn[P(w)].closed
  THEN Goto(w, after) /\ UNCHANGED timers
  ELSE /\ timers' = timers \ {conn[P(w)].timer_id}
       /\ Goto(w, append)

Flushed(c) == [conn[c] EXCEPT !.flushed = TRUE, !.failed = FALSE]

(* Mutant of Flush_append: nothing is done when the time has come already. *)
FlushZeroDropped(w, after) ==
  /\ Goto(w, after)
  /\ conn' = [conn EXCEPT ![P(w)] = Flushed(P(w))]
  /\ UNCHANGED <<cbs, timers, timer_no, refused>>

(* Second half: a callback at once (a = 0), which leaves timer_id as it    *)
(* was and which a closed pool refuses, or a new timer.                    *)
Flush_append(w, after) ==
  /\ Goto(w, after)
  /\ \/ /\ cbs' = IF Open THEN cbs + 1 ELSE cbs
        /\ refused' = (refused \/ ~Open)
        /\ conn' = [conn EXCEPT ![P(w)] = Flushed(P(w))]
        /\ UNCHANGED <<timers, timer_no>>
     \/ /\ timer_no < MaxTimers
        /\ timer_no' = timer_no + 1
        /\ timers' = timers \cup {timer_no'}
        /\ conn' = [conn EXCEPT ![P(w)] = [Flushed(P(w)) EXCEPT !.timer_id = timer_no']]
        /\ UNCHANGED <<cbs, refused>>

(* The loop flushes without the connection's mutex.  When the library      *)
(* fails it goes on with the next datagram, when the socket fails it ends  *)
(* by an exception.                                                        *)
Loop_flush(w) ==
  /\ At(w, "l_flush")
  /\ \/ Flush_remove(w, "l_append", "l_take") /\ UNCHANGED conn
     \/ /\ conn' = [conn EXCEPT ![P(w)] = Failed(P(w))]
        /\ Goto(w, "l_take") \/ Goto(w, "l_exit")
        /\ UNCHANGED timers
  /\ UNCHANGED <<entry, m_map, reader, packets, loops, timer_no, cbs, stop,
                 in_use, refused>>

Loop_append(w) ==
  /\ At(w, "l_append")
  /\ Flush_append(w, "l_take")
  /\ UNCHANGED <<entry, m_map, reader, packets, loops, stop, in_use>>

(* Mutant of Loop_exit: the gate stays shut. *)
LoopKeepsGate(w) ==
  /\ At(w, "l_exit")
  /\ Done(w)
  /\ UNCHANGED <<entry, m_map, conn, reader, packets, loops, timers, timer_no,
                 cbs, stop, in_use, refused>>

(* However it ends, the loop opens the gate again, under no lock. *)
Loop_exit(w) ==
  /\ At(w, "l_exit")
  /\ conn' = [conn EXCEPT ![P(w)].is_responsing = FALSE]
  /\ Done(w)
  /\ UNCHANGED <<entry, m_map, reader, packets, loops, timers, timer_no, cbs,
                 stop, in_use, refused>>

-----------------------------------------------------------------------------
(* http_task::quic_timeout_cb. *)

(* The loop of the timer pool, itself a worker's task, appends a callback. *)
Timer_fires(t) ==
  /\ Taking
  /\ t \in timers
  /\ timers' = timers \ {t}
  /\ cbs' = IF Open THEN cbs + 1 ELSE cbs
  /\ refused' = (refused \/ ~Open)
  /\ UNCHANGED <<entry, m_map, conn, reader, packets, loops, timer_no, worker,
                 stop, in_use>>

(* The pointer is read under the map's lock and used after its release. *)
Timer_find(w) ==
  /\ At(w, "idle") /\ Taking /\ cbs > 0 /\ ~m_map
  /\ cbs' = cbs - 1
  /\ worker' = IF entry = None \/ (entry # None /\ conn[entry].is_deleting)
               THEN worker
               ELSE [worker EXCEPT ![w] = [pc |-> "t_lock", p |-> entry]]
  /\ UNCHANGED <<entry, m_map, conn, reader, packets, loops, timers, timer_no,
                 stop, in_use, refused>>

(* With the mutex, the key is looked up again (without the map's lock);    *)
(* timer_id is cleared and the library told, which may close it.           *)
Timer_lock(w) ==
  /\ At(w, "t_lock") /\ conn[P(w)].mutex = Nobody
  /\ IF entry = None \/ conn[P(w)].is_deleting
     THEN Done(w) /\ UNCHANGED conn
     ELSE \E over \in BOOLEAN :
            /\ conn' = [conn EXCEPT ![P(w)].mutex = w,
                          ![P(w)].timer_id = None, ![P(w)].closed = @ \/ over]
            /\ Goto(w, "t_flush")
  /\ UNCHANGED <<entry, m_map, reader, packets, loops, timers, timer_no, cbs,
                 stop, in_use, refused>>

(* The same here: the callback goes on, or ends and releases the mutex.    *)
Timer_flush(w) ==
  /\ At(w, "t_flush")
  /\ \/ Flush_remove(w, "t_append", "t_closed") /\ UNCHANGED conn
     \/ /\ conn' = [conn EXCEPT ![P(w)] = Failed(P(w))]
        /\ Goto(w, "t_closed")
        /\ UNCHANGED timers
     \/ /\ conn' = [conn EXCEPT ![P(w)] = [Failed(P(w)) EXCEPT !.mutex = Nobody]]
        /\ Done(w)
        /\ UNCHANGED timers
  /\ UNCHANGED <<entry, m_map, reader, packets, loops, timer_no, cbs, stop,
                 in_use, refused>>

Timer_append(w) ==
  /\ At(w, "t_append")
  /\ Flush_append(w, "t_closed")
  /\ UNCHANGED <<entry, m_map, reader, packets, loops, stop, in_use>>

(* A closed connection that no loop uses is to be deleted. *)
Timer_closed(w) ==
  /\ At(w, "t_closed")
  /\ IF ~conn[P(w)].is_responsing /\ conn[P(w)].closed
     THEN /\ conn' = [conn EXCEPT ![P(w)].is_deleting = TRUE]
          /\ Goto(w, "t_delete")
     ELSE /\ conn' = [conn EXCEPT ![P(w)].mutex = Nobody]
          /\ Done(w)
  /\ UNCHANGED <<entry, m_map, reader, packets, loops, timers, timer_no, cbs,
                 stop, in_use, refused>>

(* quic_delete_conn_io: refused when a loop uses the connection.           *)
Delete(c) ==
  IF conn[c].is_responsing THEN UNCHANGED <<conn, timers>>
  ELSE /\ conn' = [conn EXCEPT ![c].is_deleting = TRUE]
       /\ timers' = timers \ {conn[c].timer_id}

Timer_delete(w) ==
  /\ At(w, "t_delete")
  /\ Delete(P(w))
  /\ Goto(w, "t_erase")
  /\ UNCHANGED <<entry, m_map, reader, packets, loops, timer_no, cbs, stop,
                 in_use, refused>>

(* The key is erased in either case: with it, the object it leads to.      *)
Erase ==
  /\ entry' = None
  /\ in_use' = IF entry # None /\ conn[entry].is_responsing
               THEN in_use \cup {entry} ELSE in_use

(* The map's lock is taken with the mutex still held. *)
Timer_erase(w) ==
  /\ At(w, "t_erase") /\ ~m_map
  /\ conn' = [conn EXCEPT ![P(w)].mutex = Nobody]
  /\ Erase
  /\ Done(w)
  /\ UNCHANGED <<m_map, reader, packets, loops, timers, timer_no, cbs, stop,
                 refused>>

-----------------------------------------------------------------------------
(* http::stop_pool closes the task pool and waits for its workers ...      *)
Stop_pool ==
  /\ stop = "none"
  /\ stop' = "closing"
  /\ UNCHANGED <<entry, m_map, conn, reader, packets, loops, timers, timer_no,
                 cbs, worker, in_use, refused>>

(* ... then http_pool::stop: with the map locked, each connection is       *)
(* locked, deleted and erased; then the socket is shut down.               *)
Stop_map ==
  /\ stop = "closing" /\ ~m_map
  /\ \A w \in Workers : At(w, "idle")
  /\ m_map' = TRUE
  /\ stop' = IF entry = None THEN "unlock" ELSE "lock"
  /\ UNCHANGED <<entry, conn, reader, packets, loops, timers, timer_no, cbs,
                 worker, in_use, refused>>

Stop_lock ==
  /\ stop = "lock" /\ conn[entry].mutex = Nobody
  /\ conn' = [conn EXCEPT ![entry].mutex = Stopper]
  /\ stop' = "delete"
  /\ UNCHANGED <<entry, m_map, reader, packets, loops, timers, timer_no, cbs,
                 worker, in_use, refused>>

Stop_delete ==
  /\ stop = "delete"
  /\ Delete(entry)
  /\ stop' = "erase"
  /\ UNCHANGED <<entry, m_map, reader, packets, loops, timer_no, cbs, worker,
                 in_use, refused>>

Stop_erase ==
  /\ stop = "erase"
  /\ Erase
  /\ stop' = "unlock"
  /\ UNCHANGED <<m_map, conn, reader, packets, loops, timers, timer_no, cbs,
                 worker, refused>>

Stop_unlock ==
  /\ stop = "unlock"
  /\ m_map' = FALSE
  /\ stop' = "stopped"
  /\ UNCHANGED <<entry, conn, reader, packets, loops, timers, timer_no, cbs,
                 worker, in_use, refused>>

-----------------------------------------------------------------------------
Reads == Packet_known \/ Packet_new \/ Packet_append

LoopSteps(w) ==
  \/ Loop_find(w) \/ Loop_check(w) \/ Loop_take(w) \/ Loop_lock(w)
  \/ Loop_serve(w) \/ Loop_flush(w) \/ Loop_append(w) \/ Loop_exit(w)

TimerSteps(w) ==
  \/ Timer_find(w) \/ Timer_lock(w) \/ Timer_flush(w) \/ Timer_append(w)
  \/ Timer_closed(w) \/ Timer_delete(w) \/ Timer_erase(w)

StopSteps ==
  Stop_pool \/ Stop_map \/ Stop_lock \/ Stop_delete \/ Stop_erase \/ Stop_unlock

Next ==
  \/ Reads
  \/ \E w \in Workers : LoopSteps(w) \/ TimerSteps(w)
  \/ \E t \in timers : Timer_fires(t)
  \/ StopSteps

Spec == Init /\ [][Next]_vars

(* The workers run, and none is kept from a mutex that is free again and   *)
(* again.  No datagram, timer or stop is promised.                         *)
FairSpec ==
  /\ Spec
  /\ \A w \in Workers :
       /\ WF_vars(LoopSteps(w) \/ TimerSteps(w))
       /\ SF_vars(Loop_lock(w) \/ Timer_lock(w))

-----------------------------------------------------------------------------
(* Every variable has its type. *)
TypeOK ==
  /\ entry \in Conns \cup {None}
  /\ m_map \in BOOLEAN
  /\ conn \in [Conns ->
       [made : BOOLEAN, is_deleting : BOOLEAN, is_responsing : BOOLEAN,
        buffers : 0..MaxPackets, timer_id : 0..MaxTimers,
        mutex : Workers \cup {Stopper, Nobody}, closed : BOOLEAN,
        flushed : BOOLEAN, failed : BOOLEAN]]
  /\ reader \in [pc : {"idle", "append"}, p : Conns \cup {None},
                 first : BOOLEAN]
  /\ packets \in 0..MaxPackets
  /\ loops \in 0..MaxPackets
  /\ timer_no \in 0..MaxTimers
  /\ timers \subseteq 1..timer_no
  /\ cbs \in Nat
  /\ worker \in [Workers -> [pc : {"idle"} \cup LoopPCs \cup TimerPCs,
                             p : Conns \cup {None}]]
  /\ stop \in {"none", "closing", "lock", "delete", "erase", "unlock",
              "stopped"}
  /\ in_use \subseteq Conns
  /\ refused \in BOOLEAN

(* As long as no connection was erased while in use, is_responsing admits  *)
(* one loop to a connection, due or running, however datagrams arrive.     *)
OneLoop ==
  in_use = {} =>
    loops + Cardinality({w \in Workers : worker[w].pc \in LoopPCs})
      + (IF reader.first THEN 1 ELSE 0) <= 1

(* As long as no connection was erased while in use, a loop works on the   *)
(* connection the map holds, and so does the reader that is to start one.  *)
LoopKeepsConn ==
  in_use = {} =>
    /\ \A w \in Workers : worker[w].pc \in LoopPCs => P(w) = entry
    /\ reader.first => reader.p = entry

(* The gate of a connection in the map is shut only while a loop is due or *)
(* running or about to be appended: the next datagram starts a loop        *)
(* otherwise, also for a datagram stored behind the last look of a loop.   *)
(* Once the closed task pool has refused a task, a gate may stay shut.     *)
GateOpens ==
  entry # None /\ conn[entry].is_responsing =>
    loops > 0 \/ Looping(entry) # {} \/ reader.first \/ refused

(* A connection that has been flushed and is neither closed nor being      *)
(* deleted has a timer or a callback to come, although loop and callback   *)
(* may flush at the same time.  Excepted are one whose last flush failed,  *)
(* which leaves it without a timer when a callback has just consumed its   *)
(* old one, and any after the closed pool has refused a task.              *)
TimerKept ==
  entry # None =>
    \/ ~conn[entry].flushed \/ conn[entry].closed \/ conn[entry].is_deleting
    \/ conn[entry].failed
    \/ timers # {} \/ cbs > 0
    \/ \E w \in Workers : worker[w].pc \in TimerPCs \cup {"l_append"}
    \/ refused

(* A loop and a callback come to their end, whichever of them waits for    *)
(* the connection's mutex, also while the server stops.                    *)
WorkersReturn == \A w \in Workers : ~At(w, "idle") ~> At(w, "idle")

(* The comment "This connection is used by the main pool" in the callback: *)
(* a connection that a loop uses is not deleted by it.                     *)
UsedIsKept ==
  [][\A w \in Workers :
       At(w, "t_erase") /\ ~At(w, "t_erase")' => in_use' = in_use]_vars
=============================================================================
