-------------------------- MODULE QuicConnProofs ----------------------------
(***************************************************************************)
(* Proofs, for every set of workers, any number of connections, datagrams  *)
(* and timers, of the safety invariants that MCQuicConn checks on a small  *)
(* instance.                                                               *)
(*                                                                         *)
(* The invariant has three layers, each inductive relative to the ones     *)
(* before: Typed (types, and that no step holds a pointer to a connection  *)
(* that was not made), Gate (what is_responsing says of the loops of the   *)
(* connection in the map) and Kept (what will wake the connection in the   *)
(* map next).                                                              *)
(***************************************************************************)
EXTENDS QuicConn, FiniteSetTheorems, TLAPS

(* Pointers lead to connections that were made, the others are untouched;  *)
(* a datagram that was counted is stored in at most one connection and     *)
(* appends at most one task.                                               *)
Pointers ==
  /\ entry # None => conn[entry].made
  /\ \A w \in Workers : ~At(w, "idle") => P(w) \in Conns /\ conn[P(w)].made
  /\ reader.pc = "append" => reader.p \in Conns /\ conn[reader.p].made
  /\ reader.pc = "idle" => ~reader.first
  /\ stop \in {"lock", "delete", "erase"} => entry # None
  /\ m_map <=> stop \in {"lock", "delete", "erase", "unlock"}
  /\ \A c \in Conns : ~conn[c].made => ~conn[c].is_responsing /\ ~conn[c].flushed

Counts ==
  LET stored == IF reader.pc = "append" THEN packets - 1 ELSE packets
  IN  /\ stored >= 0
      /\ loops <= stored
      /\ \A c \in Conns : conn[c].buffers <= stored

Typed == TypeOK /\ Pointers /\ Counts

(* Unless a connection was erased under a loop, what is due or running     *)
(* exists once, for the connection in the map, whose gate is shut.         *)
AnyLoop(w) == worker[w].pc \in LoopPCs

Single ==
  in_use = {} =>
    /\ loops <= 1
    /\ loops > 0 => ~reader.first /\ \A w \in Workers : ~AnyLoop(w)
    /\ reader.first => \A w \in Workers : ~AnyLoop(w)
    /\ \A v, w \in Workers : AnyLoop(v) /\ AnyLoop(w) => v = w
    /\ LoopKeepsConn
    /\ loops > 0 \/ reader.first \/ (\E w \in Workers : AnyLoop(w)) =>
         entry # None /\ conn[entry].is_responsing

Gate == GateOpens /\ Single

(* TimerKept, with the timer and the worker that are this connection's:    *)
(* a flush removes no timer but that of its own connection.                *)
Excused(c) ==
  ~conn[c].flushed \/ conn[c].closed \/ conn[c].is_deleting \/ conn[c].failed

Keeper(w) == worker[w].pc \in {"t_lock", "t_flush", "t_append", "l_append"}

Woken == entry # None =>
  \/ Excused(entry)
  \/ conn[entry].timer_id \in timers
  \/ cbs > 0
  \/ \E w \in Workers : Keeper(w) /\ P(w) = entry
  \/ refused

OwnTimer ==
  /\ \A c \in Conns : conn[c].timer_id <= timer_no
  /\ \A c, d \in Conns :
       conn[c].timer_id = conn[d].timer_id /\ conn[c].timer_id # None => c = d

Kept == OwnTimer /\ Woken

IInv == Typed /\ Gate /\ Kept

ConnRec ==
  [made : BOOLEAN, is_deleting : BOOLEAN, is_responsing : BOOLEAN,
   buffers : 0..MaxPackets, timer_id : 0..MaxTimers,
   mutex : Workers \cup {Stopper, Nobody}, closed : BOOLEAN, flushed : BOOLEAN,
   failed : BOOLEAN]

WorkerRec == [pc : {"idle"} \cup LoopPCs \cup TimerPCs, p : Conns \cup {None}]

(* The steps of the specification, one disjunct per action. *)
LEMMA NextActions ==
  ASSUME Next
  PROVE  \/ Packet_known \/ Packet_new \/ Packet_append
         \/ \E w \in Workers :
              \/ Loop_find(w) \/ Loop_check(w) \/ Loop_take(w) \/ Loop_lock(w)
              \/ Loop_serve(w) \/ Loop_flush(w) \/ Loop_append(w) \/ Loop_exit(w)
         \/ \E w \in Workers :
              \/ Timer_find(w) \/ Timer_lock(w) \/ Timer_flush(w) \/ Timer_append(w)
              \/ Timer_closed(w) \/ Timer_delete(w) \/ Timer_erase(w)
         \/ \E t \in timers : Timer_fires(t)
         \/ Stop_pool \/ Stop_map \/ Stop_lock \/ Stop_delete \/ Stop_erase \/ Stop_unlock
BY DEF Next, Reads, LoopSteps, TimerSteps, StopSteps

-----------------------------------------------------------------------------
LEMMA InitTyped ==
  ASSUME Init
  PROVE  Typed
<1> USE ConnAssumption DEF Init, None
<1>1. Unmade \in ConnRec
  BY DEF Unmade, ConnRec
<1>2. conn \in [Conns -> ConnRec]
  BY <1>1
<1>3. worker \in [Workers -> WorkerRec]
  BY DEF WorkerRec
<1>4. TypeOK
  <2>1. reader \in [pc : {"idle", "append"}, p : Conns \cup {None}, first : BOOLEAN]
    OBVIOUS
  <2>2. packets \in 0 .. MaxPackets /\ loops \in 0 .. MaxPackets /\ timer_no \in 0 .. MaxTimers
    OBVIOUS
  <2> QED BY <1>2, <1>3, <2>1, <2>2, Zenon DEF TypeOK, ConnRec, WorkerRec
<1>5. Pointers
  <2>1. \A w \in Workers : At(w, "idle")
    BY DEF At
  <2>2. \A c \in Conns : ~conn[c].is_responsing /\ ~conn[c].flushed
    BY DEF Unmade
  <2> QED BY <2>1, <2>2 DEF Pointers
<1>6. Counts
  BY DEF Counts, Unmade
<1> QED BY <1>4, <1>5, <1>6 DEF Typed

(* No step takes a connection out of its type. *)
LEMMA StepConn ==
  ASSUME Typed, Next
  PROVE  conn' \in [Conns -> ConnRec]
<1> USE DEF ConnRec
<1>0. /\ conn \in [Conns -> ConnRec]
      /\ timer_no \in 0 .. MaxTimers
      /\ entry \in Conns \cup {None}
      /\ \A w \in Workers : ~At(w, "idle") => P(w) \in Conns
  BY DEF Typed, TypeOK, Pointers
<1>1. ASSUME UNCHANGED conn
      PROVE  conn' \in [Conns -> ConnRec]
  BY <1>0, <1>1
<1>2. CASE Packet_known
  <2>1. entry \in Conns
    BY <1>0, <1>2 DEF Packet_known
  <2>2. conn' = [conn EXCEPT ![entry].made = TRUE, ![entry].is_responsing = TRUE]
    BY <1>2 DEF Packet_known, Pass
  <2> QED BY <1>0, <2>1, <2>2
<1>3. CASE Packet_new
  <2>1. PICK c \in Conns : conn' = [conn EXCEPT ![c].made = TRUE, ![c].is_responsing = TRUE]
    BY <1>3 DEF Packet_new, Pass
  <2> QED BY <1>0, <2>1
<1>4. CASE Packet_append
  <2>1. reader.p \in Conns /\ conn[reader.p].buffers + 1 \in 0 .. MaxPackets
    BY <1>0, <1>4, ConnAssumption DEF Packet_append, Typed, TypeOK, Pointers, Counts
  <2>2. conn' = [conn EXCEPT ![reader.p].buffers = @ + 1]
    BY <1>4 DEF Packet_append
  <2> QED BY <1>0, <2>1, <2>2
<1>5. ASSUME NEW w \in Workers, Loop_find(w) \/ Loop_check(w) \/ Timer_find(w)
      PROVE  conn' \in [Conns -> ConnRec]
  BY <1>1, <1>5 DEF Loop_find, Loop_check, Timer_find
<1>6. ASSUME NEW w \in Workers, Loop_flush(w) \/ Timer_flush(w)
      PROVE  conn' \in [Conns -> ConnRec]
  <2>1. P(w) \in Conns
    BY <1>0, <1>6 DEF Loop_flush, Timer_flush, At
  <2>2. CASE conn' = [conn EXCEPT ![P(w)] = Failed(P(w))]
    <3>1. Failed(P(w)) \in ConnRec
      BY <1>0, <2>1 DEF Failed
    <3> QED BY <1>0, <2>1, <2>2, <3>1
  <2>3. CASE conn' = [conn EXCEPT ![P(w)] = [Failed(P(w)) EXCEPT !.mutex = Nobody]]
    <3>1. Failed(P(w)) \in ConnRec
      BY <1>0, <2>1 DEF Failed
    <3>2. [Failed(P(w)) EXCEPT !.mutex = Nobody] \in ConnRec
      BY <3>1
    <3> QED BY <1>0, <2>1, <2>3, <3>2
  <2> QED BY <1>1, <1>6, <2>2, <2>3 DEF Loop_flush, Timer_flush
<1>7. ASSUME NEW w \in Workers, Loop_take(w)
      PROVE  conn' \in [Conns -> ConnRec]
  <2>1. P(w) \in Conns
    BY <1>0, <1>7 DEF Loop_take, At
  <2>2. CASE conn[P(w)].buffers # 0 /\ conn' = [conn EXCEPT ![P(w)].buffers = @ - 1]
    <3>1. conn[P(w)].buffers - 1 \in 0 .. MaxPackets
      BY <1>0, <2>1, <2>2, ConnAssumption
    <3> QED BY <1>0, <2>1, <2>2, <3>1
  <2> QED BY <1>1, <1>7, <2>2 DEF Loop_take
<1>8. ASSUME NEW w \in Workers, Loop_lock(w)
      PROVE  conn' \in [Conns -> ConnRec]
  <2>1. P(w) \in Conns
    BY <1>0, <1>8 DEF Loop_lock, At
  <2>2. CASE conn' = [conn EXCEPT ![P(w)].mutex = w]
    BY <1>0, <2>1, <2>2
  <2> QED BY <1>1, <1>8, <2>2 DEF Loop_lock
<1>9. ASSUME NEW c \in Conns, conn' = [conn EXCEPT ![c].mutex = Nobody]
      PROVE  conn' \in [Conns -> ConnRec]
  BY <1>0, <1>9
<1>10. ASSUME NEW w \in Workers, Loop_serve(w) \/ Timer_erase(w)
       PROVE  conn' \in [Conns -> ConnRec]
  <2>1. P(w) \in Conns /\ conn' = [conn EXCEPT ![P(w)].mutex = Nobody]
    BY <1>0, <1>10 DEF Loop_serve, Timer_erase, At
  <2> QED BY <1>9, <2>1
<1>11. ASSUME NEW w \in Workers, Loop_append(w) \/ Timer_append(w)
       PROVE  conn' \in [Conns -> ConnRec]
  <2>1. P(w) \in Conns
    BY <1>0, <1>11 DEF Loop_append, Timer_append, At
  <2>4. Flushed(P(w)) \in ConnRec
    BY <1>0, <2>1 DEF Flushed
  <2>2. CASE conn' = [conn EXCEPT ![P(w)] = Flushed(P(w))]
    BY <1>0, <2>1, <2>2, <2>4
  <2>3. CASE /\ timer_no < MaxTimers
             /\ timer_no' = timer_no + 1
             /\ conn' = [conn EXCEPT ![P(w)] = [Flushed(P(w)) EXCEPT !.timer_id = timer_no']]
    <3>1. timer_no' \in 0 .. MaxTimers
      BY <1>0, <2>3, ConnAssumption
    <3>2. [Flushed(P(w)) EXCEPT !.timer_id = timer_no'] \in ConnRec
      BY <2>4, <3>1
    <3> QED BY <1>0, <2>1, <2>3, <3>2
  <2> QED BY <1>11, <2>2, <2>3 DEF Loop_append, Timer_append, Flush_append
<1>12. ASSUME NEW w \in Workers, Loop_exit(w)
       PROVE  conn' \in [Conns -> ConnRec]
  <2>1. P(w) \in Conns /\ conn' = [conn EXCEPT ![P(w)].is_responsing = FALSE]
    BY <1>0, <1>12 DEF Loop_exit, At
  <2> QED BY <1>0, <2>1
<1>13. ASSUME NEW w \in Workers, Timer_lock(w)
       PROVE  conn' \in [Conns -> ConnRec]
  <2>1. P(w) \in Conns
    BY <1>0, <1>13 DEF Timer_lock, At
  <2>2. ASSUME NEW over \in BOOLEAN,
               conn' = [conn EXCEPT ![P(w)].mutex = w, ![P(w)].timer_id = None,
                                    ![P(w)].closed = over]
        PROVE  conn' \in [Conns -> ConnRec]
    <3> DEFINE r == [conn[P(w)] EXCEPT !.mutex = w, !.timer_id = None, !.closed = over]
    <3>1. None \in 0 .. MaxTimers
      BY ConnAssumption DEF None
    <3>2. r \in ConnRec
      BY <1>0, <2>1, <3>1
    <3>3. conn' = [conn EXCEPT ![P(w)] = r]
      BY <1>0, <2>1, <2>2
    <3> HIDE DEF r
    <3> QED BY <1>0, <3>2, <3>3
  <2>3. ASSUME NEW over \in BOOLEAN,
               conn' = [conn EXCEPT ![P(w)].mutex = w, ![P(w)].timer_id = None,
                                    ![P(w)].closed = @ \/ over]
        PROVE  conn' \in [Conns -> ConnRec]
    <3>1. (conn[P(w)].closed \/ over) \in BOOLEAN
      OBVIOUS
    <3> QED BY <2>2, <2>3, <3>1
  <2> QED BY <1>1, <1>13, <2>3 DEF Timer_lock
<1>14. ASSUME NEW w \in Workers, Timer_closed(w)
       PROVE  conn' \in [Conns -> ConnRec]
  <2>1. P(w) \in Conns
    BY <1>0, <1>14 DEF Timer_closed, At
  <2>2. CASE conn' = [conn EXCEPT ![P(w)].is_deleting = TRUE]
    BY <1>0, <2>1, <2>2
  <2> QED BY <1>9, <1>14, <2>1, <2>2 DEF Timer_closed
<1>15. ASSUME NEW c \in Conns, Delete(c)
       PROVE  conn' \in [Conns -> ConnRec]
  <2>1. CASE conn' = [conn EXCEPT ![c].is_deleting = TRUE]
    BY <1>0, <2>1
  <2> QED BY <1>1, <1>15, <2>1 DEF Delete
<1>16. ASSUME NEW w \in Workers, Timer_delete(w)
       PROVE  conn' \in [Conns -> ConnRec]
  BY <1>0, <1>15, <1>16 DEF Timer_delete, At
<1>17. CASE Stop_lock \/ Stop_delete
  <2>1. entry \in Conns
    BY <1>0, <1>17 DEF Stop_lock, Stop_delete, Typed, Pointers
  <2>2. CASE conn' = [conn EXCEPT ![entry].mutex = Stopper]
    BY <1>0, <2>1, <2>2
  <2> QED BY <1>15, <1>17, <2>1, <2>2 DEF Stop_lock, Stop_delete
<1>18. CASE Stop_pool \/ Stop_map \/ Stop_erase \/ Stop_unlock \/ \E t \in timers : Timer_fires(t)
  BY <1>1, <1>18 DEF Stop_pool, Stop_map, Stop_erase, Stop_unlock, Timer_fires
<1> QED
  BY <1>2, <1>3, <1>4, <1>5, <1>6, <1>7, <1>8, <1>10, <1>11, <1>12, <1>13, <1>14, <1>16, <1>17,
     <1>18, NextActions

(* Most steps leave a connection as it is, lock or unlock it, take a       *)
(* datagram from it or mark it as being deleted.                           *)
QuietStep ==
  \/ \E w \in Workers :
       \/ Loop_find(w) \/ Loop_check(w) \/ Loop_take(w) \/ Loop_lock(w) \/ Loop_serve(w)
       \/ Loop_flush(w)
       \/ Timer_find(w) \/ Timer_flush(w) \/ Timer_closed(w) \/ Timer_delete(w)
       \/ Timer_erase(w)
  \/ \E t \in timers : Timer_fires(t)
  \/ Stop_pool \/ Stop_map \/ Stop_lock \/ Stop_delete \/ Stop_erase \/ Stop_unlock

SameConns ==
  \A c \in Conns :
    /\ conn'[c].made = conn[c].made
    /\ conn'[c].is_responsing = conn[c].is_responsing
    /\ conn'[c].flushed = conn[c].flushed
    /\ conn'[c].closed = conn[c].closed
    /\ conn'[c].timer_id = conn[c].timer_id
    /\ conn[c].is_deleting => conn'[c].is_deleting
    /\ conn[c].failed => conn'[c].failed
    /\ conn'[c].buffers <= conn[c].buffers

LEMMA QuietConns ==
  ASSUME Typed, QuietStep
  PROVE  SameConns
<1> USE DEF ConnRec, SameConns
<1>0. /\ conn \in [Conns -> ConnRec]
      /\ \A w \in Workers : ~At(w, "idle") => P(w) \in Conns
      /\ \A c \in Conns : conn[c].buffers \in Nat
  BY ConnAssumption DEF Typed, TypeOK, Pointers
<1>1. ASSUME UNCHANGED conn
      PROVE  SameConns
  BY <1>0, <1>1
<1>2. ASSUME NEW c \in Conns, NEW m, conn' = [conn EXCEPT ![c].mutex = m]
      PROVE  SameConns
  BY <1>0, <1>2
<1>3. ASSUME NEW c \in Conns, conn' = [conn EXCEPT ![c].is_deleting = TRUE]
      PROVE  SameConns
  BY <1>0, <1>3
<1>4. ASSUME NEW c \in Conns, conn' = [conn EXCEPT ![c].buffers = @ - 1]
      PROVE  SameConns
  BY <1>0, <1>4
<1>5. ASSUME NEW w \in Workers,
             Loop_find(w) \/ Loop_check(w) \/ Timer_find(w)
      PROVE  SameConns
  <2>1. UNCHANGED conn
    BY <1>5 DEF Loop_find, Loop_check, Timer_find
  <2> QED BY <1>1, <2>1
<1>12. ASSUME NEW w \in Workers, Loop_flush(w) \/ Timer_flush(w)
       PROVE  SameConns
  <2>1. P(w) \in Conns
    BY <1>0, <1>12 DEF Loop_flush, Timer_flush, At
  <2>2. \/ UNCHANGED conn
        \/ \E m : conn' = [conn EXCEPT ![P(w)] = [conn[P(w)] EXCEPT !.failed = TRUE, !.mutex = m]]
    <3>1. conn[P(w)] \in ConnRec
      BY <1>0, <2>1
    <3>2. Failed(P(w)) = [conn[P(w)] EXCEPT !.failed = TRUE, !.mutex = conn[P(w)].mutex]
      BY <3>1 DEF Failed
    <3>3. [Failed(P(w)) EXCEPT !.mutex = Nobody]
            = [conn[P(w)] EXCEPT !.failed = TRUE, !.mutex = Nobody]
      BY <3>1 DEF Failed
    <3> QED BY <1>12, <3>2, <3>3 DEF Loop_flush, Timer_flush
  <2>3. ASSUME NEW m,
               conn' = [conn EXCEPT ![P(w)] = [conn[P(w)] EXCEPT !.failed = TRUE, !.mutex = m]]
        PROVE  SameConns
    BY <1>0, <2>1, <2>3
  <2> QED BY <1>1, <2>2, <2>3
<1>6. ASSUME NEW w \in Workers, Loop_take(w)
      PROVE  SameConns
  <2>1. P(w) \in Conns
    BY <1>0, <1>6 DEF Loop_take, At
  <2>2. UNCHANGED conn \/ conn' = [conn EXCEPT ![P(w)].buffers = @ - 1]
    BY <1>6 DEF Loop_take
  <2> QED BY <1>1, <1>4, <2>1, <2>2
<1>7. ASSUME NEW w \in Workers, Loop_lock(w) \/ Loop_serve(w) \/ Timer_erase(w)
      PROVE  SameConns
  <2>1. P(w) \in Conns
    BY <1>0, <1>7 DEF Loop_lock, Loop_serve, Timer_erase, At
  <2>2. \/ UNCHANGED conn
        \/ conn' = [conn EXCEPT ![P(w)].mutex = w]
        \/ conn' = [conn EXCEPT ![P(w)].mutex = Nobody]
    BY <1>7 DEF Loop_lock, Loop_serve, Timer_erase
  <2> QED BY <1>1, <1>2, <2>1, <2>2
<1>8. ASSUME NEW w \in Workers, Timer_closed(w)
      PROVE  SameConns
  <2>1. P(w) \in Conns
    BY <1>0, <1>8 DEF Timer_closed, At
  <2>2. \/ conn' = [conn EXCEPT ![P(w)].is_deleting = TRUE]
        \/ conn' = [conn EXCEPT ![P(w)].mutex = Nobody]
    BY <1>8 DEF Timer_closed
  <2> QED BY <1>2, <1>3, <2>1, <2>2
<1>9. ASSUME NEW w \in Workers, Timer_delete(w)
      PROVE  SameConns
  <2>1. P(w) \in Conns
    BY <1>0, <1>9 DEF Timer_delete, At
  <2>2. UNCHANGED conn \/ conn' = [conn EXCEPT ![P(w)].is_deleting = TRUE]
    BY <1>9 DEF Timer_delete, Delete
  <2> QED BY <1>1, <1>3, <2>1, <2>2
<1>10. CASE Stop_lock \/ Stop_delete
  <2>1. entry \in Conns
    BY <1>10 DEF Stop_lock, Stop_delete, Typed, TypeOK, Pointers
  <2>2. \/ UNCHANGED conn
        \/ conn' = [conn EXCEPT ![entry].mutex = Stopper]
        \/ conn' = [conn EXCEPT ![entry].is_deleting = TRUE]
    BY <1>10 DEF Stop_lock, Stop_delete, Delete
  <2> QED BY <1>1, <1>2, <1>3, <2>1, <2>2
<1>11. CASE Stop_pool \/ Stop_map \/ Stop_erase \/ Stop_unlock \/ \E t \in timers : Timer_fires(t)
  <2>1. UNCHANGED conn
    BY <1>11 DEF Stop_pool, Stop_map, Stop_erase, Stop_unlock, Timer_fires
  <2> QED BY <1>1, <2>1
<1> HIDE DEF SameConns
<1> QED
  BY <1>5, <1>6, <1>7, <1>8, <1>9, <1>10, <1>11, <1>12 DEF QuietStep

(* The other steps, with what each does to the connections. *)
LEMMA LoudConns ==
  ASSUME Typed, Next, ~QuietStep
  PROVE  \/ /\ Packet_known \/ Packet_new
            /\ \E c \in Conns :
                 /\ c = entry' /\ reader' = [pc |-> "append", p |-> c,
                                           first |-> ~conn[c].is_responsing]
                 /\ conn' = [conn EXCEPT ![c].made = TRUE, ![c].is_responsing = TRUE]
         \/ /\ Packet_append /\ reader.p \in Conns /\ conn[reader.p].made
            /\ conn' = [conn EXCEPT ![reader.p].buffers = @ + 1]
         \/ \E w \in Workers :
              /\ Loop_append(w) \/ Timer_append(w)
              /\ P(w) \in Conns /\ conn[P(w)].made
         \/ \E w \in Workers :
              /\ Loop_exit(w)
              /\ P(w) \in Conns /\ conn[P(w)].made
              /\ conn' = [conn EXCEPT ![P(w)].is_responsing = FALSE]
         \/ \E w \in Workers :
              /\ Timer_lock(w)
              /\ P(w) \in Conns /\ conn[P(w)].made
<1>0. \A w \in Workers : ~At(w, "idle") => P(w) \in Conns /\ conn[P(w)].made
  BY DEF Typed, Pointers
<1>1. CASE Packet_known
  BY <1>1 DEF Packet_known, Pass, Typed, TypeOK
<1>2. CASE Packet_new
  BY <1>2 DEF Packet_new, Pass
<1>3. CASE Packet_append
  BY <1>3 DEF Packet_append, Typed, Pointers
<1>4. ASSUME NEW w \in Workers, Loop_append(w) \/ Timer_append(w) \/ Loop_exit(w) \/ Timer_lock(w)
      PROVE  P(w) \in Conns /\ conn[P(w)].made
  BY <1>0, <1>4 DEF Loop_append, Timer_append, Loop_exit, Timer_lock, At
<1>5. ASSUME NEW w \in Workers, Loop_exit(w)
      PROVE  conn' = [conn EXCEPT ![P(w)].is_responsing = FALSE]
  BY <1>5 DEF Loop_exit
<1> QED
  BY <1>1, <1>2, <1>3, <1>4, <1>5, NextActions DEF QuietStep

(* A worker keeps its pointer until it is idle, and gets one by looking up *)
(* the key.                                                                *)
LEMMA StepWorker ==
  ASSUME Typed, Next
  PROVE  /\ worker' \in [Workers -> WorkerRec]
         /\ \A w \in Workers : ~At(w, "idle")' =>
              \/ ~At(w, "idle") /\ P(w)' = P(w)
              \/ entry # None /\ P(w)' = entry
<1> DEFINE Goal == /\ worker' \in [Workers -> WorkerRec]
                   /\ \A w \in Workers : ~At(w, "idle")' =>
                        \/ ~At(w, "idle") /\ P(w)' = P(w)
                        \/ entry # None /\ P(w)' = entry
<1> USE DEF WorkerRec, At, P
<1>0. worker \in [Workers -> WorkerRec] /\ entry \in Conns \cup {None}
  BY DEF Typed, TypeOK
<1>1. ASSUME UNCHANGED worker
      PROVE  Goal
  BY <1>0, <1>1
<1>2. ASSUME NEW w \in Workers, NEW r \in WorkerRec, worker' = [worker EXCEPT ![w] = r],
             r.pc # "idle" => \/ worker[w].pc # "idle" /\ r.p = worker[w].p
                              \/ entry # None /\ r.p = entry
      PROVE  Goal
  <2>1. worker' \in [Workers -> WorkerRec]
    BY <1>0, <1>2 DEF WorkerRec
  <2>2. \A v \in Workers : v # w => worker'[v] = worker[v]
    BY <1>0, <1>2
  <2>3. worker'[w] = r
    BY <1>0, <1>2
  <2> QED BY <1>2, <2>1, <2>2, <2>3
<1>3. ASSUME NEW w \in Workers, Done(w)
      PROVE  Goal
  <2>1. [pc |-> "idle", p |-> None] \in WorkerRec
    OBVIOUS
  <2> QED BY <1>2, <1>3, <2>1 DEF Done
<1>4. ASSUME NEW w \in Workers, NEW pc \in LoopPCs \cup TimerPCs, worker[w].pc # "idle", Goto(w, pc)
      PROVE  Goal
  <2> DEFINE r == [worker[w] EXCEPT !.pc = pc]
  <2>1. r \in WorkerRec /\ r.p = worker[w].p
    BY <1>0
  <2>2. worker' = [worker EXCEPT ![w] = r]
    BY <1>4 DEF Goto
  <2> HIDE DEF r
  <2> QED BY <1>2, <1>4, <2>1, <2>2
<1>5. ASSUME NEW w \in Workers, NEW pc \in LoopPCs \cup TimerPCs, entry # None,
             worker' = [worker EXCEPT ![w] = [pc |-> pc, p |-> entry]]
      PROVE  Goal
  <2> DEFINE r == [pc |-> pc, p |-> entry]
  <2>1. r \in WorkerRec /\ r.p = entry
    BY <1>0
  <2>2. worker' = [worker EXCEPT ![w] = r]
    BY <1>5
  <2> HIDE DEF r
  <2> QED BY <1>2, <1>5, <2>1, <2>2
<1> HIDE DEF Goal
<1>6. ASSUME NEW w \in Workers, Loop_find(w) \/ Timer_find(w)
      PROVE  Goal
  BY <1>1, <1>5, <1>6 DEF Loop_find, Timer_find, LoopPCs, TimerPCs
<1>7. ASSUME NEW w \in Workers,
             Loop_check(w) \/ Loop_take(w) \/ Loop_lock(w) \/ Loop_serve(w) \/ Loop_flush(w)
      PROVE  Goal
  BY <1>4, <1>7 DEF Loop_check, Loop_take, Loop_lock, Loop_serve, Loop_flush, Flush_remove, LoopPCs
<1>8. ASSUME NEW w \in Workers, Loop_append(w) \/ Timer_append(w)
      PROVE  Goal
  BY <1>4, <1>8 DEF Loop_append, Timer_append, Flush_append, LoopPCs, TimerPCs
<1>9. ASSUME NEW w \in Workers, Loop_exit(w) \/ Timer_erase(w)
      PROVE  Goal
  BY <1>3, <1>9 DEF Loop_exit, Timer_erase
<1>10. ASSUME NEW w \in Workers, Timer_lock(w) \/ Timer_flush(w) \/ Timer_closed(w) \/ Timer_delete(w)
      PROVE  Goal
  BY <1>3, <1>4, <1>10 DEF Timer_lock, Timer_flush, Timer_closed, Timer_delete, Flush_remove, TimerPCs
<1>11. ASSUME Packet_known \/ Packet_new \/ Packet_append
       PROVE  Goal
  <2>1. UNCHANGED worker
    BY <1>11 DEF Packet_known, Packet_new, Packet_append
  <2> QED BY <1>1, <2>1
<1>12. ASSUME \/ Stop_pool \/ Stop_map \/ Stop_lock \/ Stop_delete \/ Stop_erase \/ Stop_unlock
              \/ \E t \in timers : Timer_fires(t)
       PROVE  Goal
  <2>1. UNCHANGED worker
    BY <1>12 DEF Stop_pool, Stop_map, Stop_lock, Stop_delete, Stop_erase, Stop_unlock, Timer_fires
  <2> QED BY <1>1, <2>1
<1>13. Goal
  BY <1>6, <1>7, <1>8, <1>9, <1>10, <1>11, <1>12, NextActions
<1> QED BY <1>13 DEF Goal

LEMMA EraseTypes ==
  ASSUME Typed, Erase
  PROVE  /\ entry' = None
         /\ in_use' \subseteq Conns
         /\ in_use' = {} => in_use = {} /\ ~(entry # None /\ conn[entry].is_responsing)
<1>1. entry \in Conns \cup {None} /\ in_use \subseteq Conns
  BY DEF Typed, TypeOK
<1> QED BY <1>1 DEF Erase, None

LEMMA StepTypeOK ==
  ASSUME Typed, Next
  PROVE  TypeOK'
<1> DEFINE Rest == /\ entry \in Conns \cup {None}
                   /\ m_map \in BOOLEAN
                   /\ reader \in [pc : {"idle", "append"}, p : Conns \cup {None}, first : BOOLEAN]
                   /\ packets \in 0 .. MaxPackets
                   /\ loops \in 0 .. MaxPackets
                   /\ timer_no \in 0 .. MaxTimers
                   /\ timers \subseteq 1 .. timer_no
                   /\ cbs \in Nat
                   /\ stop \in {"none", "closing", "lock", "delete", "erase", "unlock", "stopped"}
                   /\ in_use \subseteq Conns
                   /\ refused \in BOOLEAN
<1> USE ConnAssumption
<1>0. Rest /\ conn \in [Conns -> ConnRec]
  BY DEF Typed, TypeOK, ConnRec
<1>1. CASE Packet_known \/ Packet_new
  <2>1. entry' \in Conns
    BY <1>0, <1>1 DEF Packet_known, Packet_new
  <2>2. PICK c \in Conns : reader' = [pc |-> "append", p |-> c, first |-> ~conn[c].is_responsing]
    BY <1>0, <1>1 DEF Packet_known, Packet_new, Pass
  <2>3. reader' \in [pc : {"idle", "append"}, p : Conns \cup {None}, first : BOOLEAN]
    <3>1. (~conn[c].is_responsing) \in BOOLEAN
      OBVIOUS
    <3> QED BY <2>2, <3>1
  <2>4. packets' \in 0 .. MaxPackets
    BY <1>0, <1>1 DEF Packet_known, Packet_new
  <2>5. UNCHANGED <<m_map, loops, timer_no, timers, cbs, stop, in_use, refused>>
    BY <1>1 DEF Packet_known, Packet_new
  <2>6. Rest'
    BY <1>0, <2>1, <2>3, <2>4, <2>5
  <2> QED BY <2>6, StepConn, StepWorker DEF TypeOK, ConnRec, WorkerRec
<1>2. CASE Packet_append
  <2>1. loops' \in 0 .. MaxPackets
    BY <1>0, <1>2 DEF Packet_append, Typed, Counts
  <2>2. reader' \in [pc : {"idle", "append"}, p : Conns \cup {None}, first : BOOLEAN]
    BY <1>2 DEF Packet_append
  <2>3. UNCHANGED <<entry, m_map, packets, timer_no, timers, cbs, stop, in_use>>
        /\ refused' \in BOOLEAN
    BY <1>0, <1>2 DEF Packet_append
  <2>4. Rest'
    BY <1>0, <2>1, <2>2, <2>3
  <2> QED BY <2>4, StepConn, StepWorker DEF TypeOK, ConnRec, WorkerRec
<1>3. ASSUME NEW w \in Workers, Loop_find(w) \/ Timer_find(w)
      PROVE  Rest'
  <2>1. \/ loops' = loops - 1 /\ loops > 0 /\ UNCHANGED cbs
        \/ cbs' = cbs - 1 /\ cbs > 0 /\ UNCHANGED loops
    BY <1>3 DEF Loop_find, Timer_find
  <2>2. UNCHANGED <<entry, m_map, reader, packets, timer_no, timers, stop, in_use, refused>>
    BY <1>3 DEF Loop_find, Timer_find
  <2> QED BY <1>0, <2>1, <2>2
<1>4. ASSUME NEW w \in Workers,
             Loop_check(w) \/ Loop_take(w) \/ Loop_lock(w) \/ Loop_serve(w) \/ Loop_exit(w)
      PROVE  Rest'
  <2>1. UNCHANGED <<entry, m_map, reader, packets, loops, timer_no, timers, cbs, stop, in_use, refused>>
    BY <1>4 DEF Loop_check, Loop_take, Loop_lock, Loop_serve, Loop_exit
  <2> QED BY <1>0, <2>1
<1>5. ASSUME NEW w \in Workers, Loop_flush(w) \/ Timer_flush(w)
      PROVE  Rest'
  <2>1. UNCHANGED <<entry, m_map, reader, packets, loops, timer_no, cbs, stop, in_use, refused>>
    BY <1>5 DEF Loop_flush, Timer_flush
  <2>2. timers' \subseteq timers
    BY <1>5 DEF Loop_flush, Timer_flush, Flush_remove
  <2> QED BY <1>0, <2>1, <2>2
<1>6. ASSUME NEW w \in Workers, Loop_append(w) \/ Timer_append(w)
      PROVE  Rest'
  <2>1. \/ (cbs' = cbs + 1 \/ cbs' = cbs) /\ UNCHANGED <<timers, timer_no>>
        \/ /\ timer_no < MaxTimers /\ timer_no' = timer_no + 1
           /\ timers' = timers \cup {timer_no'} /\ UNCHANGED cbs
    BY <1>6 DEF Loop_append, Timer_append, Flush_append
  <2>2. UNCHANGED <<entry, m_map, reader, packets, loops, stop, in_use>>
    BY <1>6 DEF Loop_append, Timer_append
  <2>5. refused' \in BOOLEAN
    BY <1>0, <1>6 DEF Loop_append, Timer_append, Flush_append
  <2>3. cbs \in Nat /\ timer_no \in 0 .. MaxTimers /\ timers \subseteq 1 .. timer_no
    BY <1>0
  <2>4. cbs' \in Nat /\ timer_no' \in 0 .. MaxTimers /\ timers' \subseteq 1 .. timer_no'
    <3>1. CASE (cbs' = cbs + 1 \/ cbs' = cbs) /\ UNCHANGED <<timers, timer_no>>
      BY <2>3, <3>1
    <3>2. CASE /\ timer_no < MaxTimers /\ timer_no' = timer_no + 1
               /\ timers' = timers \cup {timer_no'} /\ UNCHANGED cbs
      <4>1. timer_no' \in 0 .. MaxTimers /\ timer_no' \in 1 .. timer_no'
        BY <2>3, <3>2
      <4>2. 1 .. timer_no \subseteq 1 .. timer_no'
        BY <2>3, <3>2
      <4> QED BY <2>3, <3>2, <4>1, <4>2
    <3> QED BY <2>1, <3>1, <3>2
  <2> QED BY <1>0, <2>2, <2>4, <2>5
<1>7. ASSUME NEW w \in Workers, Timer_lock(w) \/ Timer_closed(w)
      PROVE  Rest'
  <2>1. UNCHANGED <<entry, m_map, reader, packets, loops, timer_no, timers, cbs, stop, in_use, refused>>
    BY <1>7 DEF Timer_lock, Timer_closed
  <2> QED BY <1>0, <2>1
<1>8. ASSUME NEW w \in Workers, Timer_delete(w)
      PROVE  Rest'
  <2>1. UNCHANGED <<entry, m_map, reader, packets, loops, timer_no, cbs, stop, in_use, refused>>
    BY <1>8 DEF Timer_delete
  <2>2. timers' \subseteq timers
    BY <1>8 DEF Timer_delete, Delete
  <2> QED BY <1>0, <2>1, <2>2
<1>9. ASSUME NEW w \in Workers, Timer_erase(w)
      PROVE  Rest'
  <2>1. entry' \in Conns \cup {None} /\ in_use' \subseteq Conns
    BY <1>0, <1>9, EraseTypes DEF Timer_erase
  <2>2. UNCHANGED <<m_map, reader, packets, loops, timer_no, timers, cbs, stop, refused>>
    BY <1>9 DEF Timer_erase
  <2> QED BY <1>0, <2>1, <2>2
<1>10. ASSUME NEW t \in timers, Timer_fires(t)
       PROVE  Rest'
  BY <1>0, <1>10 DEF Timer_fires
<1>11. CASE Stop_pool \/ Stop_map \/ Stop_lock \/ Stop_unlock
  <2>1. Rest'
    BY <1>0, <1>11 DEF Stop_pool, Stop_map, Stop_lock, Stop_unlock
  <2> QED BY <2>1, StepConn, StepWorker DEF TypeOK, ConnRec, WorkerRec
<1>12. ASSUME Stop_delete
       PROVE  Rest'
  <2>1. /\ UNCHANGED <<entry, m_map, reader, packets, loops, timer_no, cbs, in_use, refused>>
        /\ stop' = "erase"
    BY <1>12 DEF Stop_delete
  <2>2. timers' \subseteq timers
    BY <1>12 DEF Stop_delete, Delete
  <2> QED BY <1>0, <2>1, <2>2
<1>14. ASSUME Stop_erase
       PROVE  Rest'
  <2>1. entry' \in Conns \cup {None} /\ in_use' \subseteq Conns
    BY <1>0, <1>14, EraseTypes DEF Stop_erase
  <2>2. /\ UNCHANGED <<m_map, reader, packets, loops, timer_no, timers, cbs, refused>>
        /\ stop' = "unlock"
    BY <1>14 DEF Stop_erase
  <2> QED BY <1>0, <2>1, <2>2
<1>13. Rest' => TypeOK'
  BY StepConn, StepWorker DEF TypeOK, ConnRec, WorkerRec
<1> HIDE DEF Rest
<1> QED
  BY <1>1, <1>2, <1>3, <1>4, <1>5, <1>6, <1>7, <1>8, <1>9, <1>10, <1>11, <1>12, <1>13, <1>14, NextActions

(* What the second half of a flush does to its connection. *)
LEMMA FlushedConn ==
  ASSUME Typed, NEW w \in Workers, Loop_append(w) \/ Timer_append(w)
  PROVE  /\ \A c \in Conns \ {P(w)} : conn'[c] = conn[c]
         /\ conn'[P(w)].buffers = conn[P(w)].buffers
         /\ conn'[P(w)].is_responsing = conn[P(w)].is_responsing
         /\ conn'[P(w)].made = conn[P(w)].made
<1>1. conn \in [Conns -> ConnRec] /\ P(w) \in Conns
  BY DEF Typed, TypeOK, ConnRec, Pointers, Loop_append, Timer_append, At
<1>2. ASSUME NEW r, conn' = [conn EXCEPT ![P(w)] = r],
             r.buffers = conn[P(w)].buffers, r.is_responsing = conn[P(w)].is_responsing,
             r.made = conn[P(w)].made
      PROVE  /\ \A c \in Conns \ {P(w)} : conn'[c] = conn[c]
             /\ conn'[P(w)].buffers = conn[P(w)].buffers
             /\ conn'[P(w)].is_responsing = conn[P(w)].is_responsing
             /\ conn'[P(w)].made = conn[P(w)].made
  BY <1>1, <1>2
<1>3. ASSUME NEW r \in {Flushed(P(w)), [Flushed(P(w)) EXCEPT !.timer_id = timer_no']}
      PROVE  /\ r.buffers = conn[P(w)].buffers /\ r.is_responsing = conn[P(w)].is_responsing
             /\ r.made = conn[P(w)].made
  BY <1>1, <1>3 DEF Flushed, ConnRec
<1>4. \E r \in {Flushed(P(w)), [Flushed(P(w)) EXCEPT !.timer_id = timer_no']} :
        conn' = [conn EXCEPT ![P(w)] = r]
  BY DEF Loop_append, Timer_append, Flush_append
<1> QED BY <1>2, <1>3, <1>4

(* A connection stays made, and what a step touches is made. *)
LEMMA MadeStays ==
  ASSUME Typed, Next
  PROVE  \A c \in Conns : /\ conn[c].made => conn'[c].made
                          /\ ~conn'[c].made => ~conn'[c].is_responsing /\ ~conn'[c].flushed
<1> DEFINE Goal == \A c \in Conns :
                     /\ conn[c].made => conn'[c].made
                     /\ ~conn'[c].made => ~conn'[c].is_responsing /\ ~conn'[c].flushed
<1>0. /\ conn \in [Conns -> ConnRec]
      /\ \A c \in Conns : ~conn[c].made => ~conn[c].is_responsing /\ ~conn[c].flushed
  BY DEF Typed, TypeOK, ConnRec, Pointers
<1>1. ASSUME QuietStep
      PROVE  Goal
  BY <1>0, <1>1, QuietConns DEF SameConns
<1>2. ASSUME NEW c \in Conns, \A d \in Conns \ {c} : conn'[d] = conn[d], conn'[c].made
      PROVE  Goal
  BY <1>0, <1>2
<1>3. ASSUME NEW c \in Conns,
             conn' = [conn EXCEPT ![c].made = TRUE, ![c].is_responsing = TRUE]
      PROVE  Goal
  <2>1. (\A d \in Conns \ {c} : conn'[d] = conn[d]) /\ conn'[c].made
    BY <1>0, <1>3 DEF ConnRec
  <2> QED BY <1>2, <2>1
<1>4. ASSUME NEW c \in Conns, conn[c].made,
             conn' = [conn EXCEPT ![c].is_responsing = FALSE] \/ conn' = [conn EXCEPT ![c].buffers = @ + 1]
      PROVE  Goal
  <2>1. (\A d \in Conns \ {c} : conn'[d] = conn[d]) /\ conn'[c].made
    BY <1>0, <1>4 DEF ConnRec
  <2> QED BY <1>2, <2>1
<1>7. ASSUME NEW w \in Workers, Loop_append(w) \/ Timer_append(w), P(w) \in Conns,
             conn[P(w)].made
      PROVE  Goal
  BY <1>2, <1>7, FlushedConn
<1>5. ASSUME NEW w \in Workers, Timer_lock(w), P(w) \in Conns, conn[P(w)].made
      PROVE  Goal
  <2>1. \/ UNCHANGED conn
        \/ \E over \in BOOLEAN :
             conn' = [conn EXCEPT ![P(w)].mutex = w, ![P(w)].timer_id = None,
                                  ![P(w)].closed = @ \/ over]
    BY <1>5 DEF Timer_lock
  <2>2. (\A d \in Conns \ {P(w)} : conn'[d] = conn[d]) /\ conn'[P(w)].made
    BY <1>0, <1>5, <2>1 DEF ConnRec
  <2> QED BY <1>2, <1>5, <2>2
<1> HIDE DEF Goal
<1>6. Goal
  BY <1>1, <1>3, <1>4, <1>5, <1>7, LoudConns
<1> QED BY <1>6 DEF Goal

(* The steps of the workers, of the timers and most of stop's leave the    *)
(* map, the reader, the task and the erasures alone.                       *)
LEMMA WorkerFrame ==
  ASSUME Next, ~Packet_known, ~Packet_new, ~Packet_append
  PROVE  /\ UNCHANGED <<reader, packets>>
         /\ loops' = loops \/ \E w \in Workers : Loop_find(w)
         /\ \/ UNCHANGED <<entry, in_use>>
            \/ Erase /\ (Stop_erase \/ \E w \in Workers : Timer_erase(w))
         /\ \/ UNCHANGED <<stop, m_map>>
            \/ Stop_pool \/ Stop_map \/ Stop_lock \/ Stop_delete \/ Stop_erase \/ Stop_unlock
<1> DEFINE Goal ==
       /\ UNCHANGED <<reader, packets>>
       /\ loops' = loops \/ \E w \in Workers : Loop_find(w)
       /\ \/ UNCHANGED <<entry, in_use>>
          \/ Erase /\ (Stop_erase \/ \E w \in Workers : Timer_erase(w))
       /\ \/ UNCHANGED <<stop, m_map>>
          \/ Stop_pool \/ Stop_map \/ Stop_lock \/ Stop_delete \/ Stop_erase \/ Stop_unlock
<1>1. ASSUME NEW w \in Workers,
             \/ Loop_check(w) \/ Loop_take(w) \/ Loop_lock(w) \/ Loop_serve(w)
             \/ Loop_flush(w) \/ Loop_append(w) \/ Loop_exit(w)
      PROVE  UNCHANGED <<reader, packets, loops, entry, in_use, stop, m_map>>
  BY <1>1 DEF Loop_check, Loop_take, Loop_lock, Loop_serve, Loop_flush, Loop_append, Loop_exit
<1>2. ASSUME NEW w \in Workers, Loop_find(w)
      PROVE  UNCHANGED <<reader, packets, entry, in_use, stop, m_map>>
  BY <1>2 DEF Loop_find
<1>3. ASSUME NEW w \in Workers,
             \/ Timer_find(w) \/ Timer_lock(w) \/ Timer_flush(w) \/ Timer_append(w)
             \/ Timer_closed(w) \/ Timer_delete(w)
      PROVE  UNCHANGED <<reader, packets, loops, entry, in_use, stop, m_map>>
  BY <1>3 DEF Timer_find, Timer_lock, Timer_flush, Timer_append, Timer_closed, Timer_delete
<1>4. ASSUME NEW w \in Workers, Timer_erase(w)
      PROVE  Erase /\ UNCHANGED <<reader, packets, loops, stop, m_map>>
  BY <1>4 DEF Timer_erase
<1>5. ASSUME NEW t \in timers, Timer_fires(t)
      PROVE  UNCHANGED <<reader, packets, loops, entry, in_use, stop, m_map>>
  BY <1>5 DEF Timer_fires
<1>6. ASSUME Stop_pool \/ Stop_map \/ Stop_lock \/ Stop_delete \/ Stop_unlock
      PROVE  UNCHANGED <<reader, packets, loops, entry, in_use>>
  BY <1>6 DEF Stop_pool, Stop_map, Stop_lock, Stop_delete, Stop_unlock
<1>7. ASSUME Stop_erase
      PROVE  Erase /\ UNCHANGED <<reader, packets, loops>>
  BY <1>7 DEF Stop_erase
<1> QED
  BY <1>1, <1>2, <1>3, <1>4, <1>5, <1>6, <1>7, NextActions, Zenon

LEMMA StepPointers ==
  ASSUME Typed, Next
  PROVE  Pointers'
<1> DEFINE Rest == /\ entry # None => conn[entry].made
                   /\ reader.pc = "append" => reader.p \in Conns /\ conn[reader.p].made
                   /\ reader.pc = "idle" => ~reader.first
                   /\ stop \in {"lock", "delete", "erase"} => entry # None
                   /\ m_map <=> stop \in {"lock", "delete", "erase", "unlock"}
<1>0. /\ entry \in Conns \cup {None}
      /\ \A w \in Workers : ~At(w, "idle") => P(w) \in Conns /\ conn[P(w)].made
      /\ Rest
  BY DEF Typed, TypeOK, Pointers
<1>1. \A c \in Conns : conn[c].made => conn'[c].made
  BY MadeStays
<1>2. \A w \in Workers : ~At(w, "idle")' => P(w)' \in Conns /\ conn'[P(w)'].made
  <2> SUFFICES ASSUME NEW w \in Workers, ~At(w, "idle")'
               PROVE  P(w)' \in Conns /\ conn'[P(w)'].made
    OBVIOUS
  <2>1. CASE ~At(w, "idle") /\ P(w)' = P(w)
    <3>1. P(w) \in Conns /\ conn'[P(w)].made
      BY <1>0, <1>1, <2>1
    <3> QED BY <2>1, <3>1
  <2>2. CASE entry # None /\ P(w)' = entry
    <3>1. entry \in Conns /\ conn'[entry].made
      BY <1>0, <1>1, <2>2
    <3> QED BY <2>2, <3>1
  <2> QED BY <2>1, <2>2, StepWorker
<1>3. ASSUME Packet_known \/ Packet_new
      PROVE  Rest'
  <2>1. PICK c \in Conns :
          /\ c = entry' /\ conn' = [conn EXCEPT ![c].made = TRUE, ![c].is_responsing = TRUE]
          /\ reader' = [pc |-> "append", p |-> c, first |-> ~conn[c].is_responsing]
    BY <1>0, <1>3 DEF Packet_known, Packet_new, Pass
  <2>2. conn'[c].made
    BY <2>1 DEF Typed, TypeOK
  <2>3. stop' = stop /\ m_map' = m_map /\ ~m_map
    BY <1>3 DEF Packet_known, Packet_new
  <2>4. reader'.p = c /\ reader'.pc = "append"
    BY <2>1
  <2> HIDE DEF Pointers
  <2> QED BY <1>0, <2>1, <2>2, <2>3, <2>4
<1>4. ASSUME Packet_append
      PROVE  Rest'
  <2>1. /\ UNCHANGED <<entry, m_map, stop>>
        /\ reader'.pc = "idle" /\ ~reader'.first
    BY <1>4 DEF Packet_append
  <2> QED BY <1>0, <1>1, <2>1
<1>5. ASSUME ~Packet_known, ~Packet_new, ~Packet_append
      PROVE  Rest'
  <2>1. UNCHANGED reader
    BY <1>5, WorkerFrame
  <2>2. reader'.pc = "append" => reader'.p \in Conns /\ conn'[reader'.p].made
    BY <1>0, <1>1, <2>1
  <2>3. entry' # None => conn'[entry'].made
    BY <1>0, <1>1, <1>5, WorkerFrame DEF Erase
  <2>4. /\ stop' \in {"lock", "delete", "erase"} => entry' # None
        /\ m_map' <=> stop' \in {"lock", "delete", "erase", "unlock"}
    <3>1. CASE Stop_pool \/ Stop_map
      BY <1>0, <3>1 DEF Stop_pool, Stop_map
    <3>2. CASE Stop_lock \/ Stop_delete
      <4>1. UNCHANGED <<entry, m_map>> /\ stop \in {"lock", "delete"} /\ stop' \in {"delete", "erase"}
        BY <3>2 DEF Stop_lock, Stop_delete
      <4> QED BY <1>0, <4>1
    <3>3. CASE Stop_erase \/ Stop_unlock
      BY <1>0, <3>3 DEF Stop_erase, Stop_unlock
    <3>4. CASE UNCHANGED <<stop, m_map>>
      <4>1. CASE UNCHANGED entry
        BY <1>0, <3>4, <4>1
      <4>2. CASE Stop_erase
        BY <3>3, <4>2
      <4>3. CASE \E w \in Workers : Timer_erase(w)
        BY <1>0, <3>4, <4>3 DEF Timer_erase
      <4> QED BY <1>5, <4>1, <4>2, <4>3, WorkerFrame
    <3> QED BY <1>5, <3>1, <3>2, <3>3, <3>4, WorkerFrame
  <2> QED BY <1>0, <2>1, <2>2, <2>3, <2>4
<1>6. Rest'
  <2> HIDE DEF Rest
  <2> QED BY <1>3, <1>4, <1>5
<1> QED BY <1>2, <1>6, MadeStays DEF Pointers

(* Only the reader stores datagrams. *)
LEMMA StepBuffers ==
  ASSUME Typed, Next, ~Packet_append
  PROVE  \A c \in Conns : conn'[c].buffers <= conn[c].buffers
<1> DEFINE Goal == \A c \in Conns : conn'[c].buffers <= conn[c].buffers
<1>0. conn \in [Conns -> ConnRec] /\ \A c \in Conns : conn[c].buffers \in Nat
  BY ConnAssumption DEF Typed, TypeOK, ConnRec
<1>1. ASSUME QuietStep
      PROVE  Goal
  BY <1>1, QuietConns DEF SameConns
<1>2. ASSUME \A c \in Conns : conn'[c].buffers = conn[c].buffers
      PROVE  Goal
  BY <1>0, <1>2
<1>3. ASSUME NEW c \in Conns,
             \/ conn' = [conn EXCEPT ![c].made = TRUE, ![c].is_responsing = TRUE]
             \/ conn' = [conn EXCEPT ![c].is_responsing = FALSE]
      PROVE  Goal
  BY <1>0, <1>2, <1>3 DEF ConnRec
<1>4. ASSUME NEW w \in Workers, Timer_lock(w)
      PROVE  Goal
  <2>1. \/ UNCHANGED conn
        \/ \E over \in BOOLEAN :
             conn' = [conn EXCEPT ![P(w)].mutex = w, ![P(w)].timer_id = None,
                                  ![P(w)].closed = @ \/ over]
    BY <1>4 DEF Timer_lock
  <2> QED BY <1>0, <1>2, <2>1 DEF ConnRec
<1>6. ASSUME NEW w \in Workers, Loop_append(w) \/ Timer_append(w)
      PROVE  Goal
  BY <1>2, <1>6, FlushedConn
<1> HIDE DEF Goal
<1>5. Goal
  BY <1>1, <1>3, <1>4, <1>6, LoudConns
<1> QED BY <1>5 DEF Goal

LEMMA StepCounts ==
  ASSUME Typed, Next
  PROVE  Counts'
<1> DEFINE stored == IF reader.pc = "append" THEN packets - 1 ELSE packets
<1>0. /\ stored \in Nat /\ loops \in Nat /\ loops <= stored /\ packets \in Nat
      /\ \A c \in Conns : conn[c].buffers \in Nat /\ conn[c].buffers <= stored
      /\ conn \in [Conns -> ConnRec]
      /\ reader.pc \in {"idle", "append"}
  BY ConnAssumption DEF Typed, TypeOK, Counts, ConnRec
<1>1. CASE Packet_known \/ Packet_new
  <2>1. PICK c \in Conns :
          /\ conn' = [conn EXCEPT ![c].made = TRUE, ![c].is_responsing = TRUE]
          /\ reader' = [pc |-> "append", p |-> c, first |-> ~conn[c].is_responsing]
    BY <1>1 DEF Packet_known, Packet_new, Pass, Typed, TypeOK
  <2>2. \A d \in Conns : conn'[d].buffers = conn[d].buffers
    BY <1>0, <2>1 DEF ConnRec
  <2>3. reader.pc = "idle" /\ packets' = packets + 1 /\ loops' = loops
    BY <1>1 DEF Packet_known, Packet_new
  <2>4. stored' = stored
    BY <1>0, <2>1, <2>3
  <2> QED BY <1>0, <2>2, <2>3, <2>4 DEF Counts
<1>2. CASE Packet_append
  <2>1. /\ reader.pc = "append" /\ reader'.pc = "idle" /\ packets' = packets
        /\ loops' = loops \/ loops' = loops + 1
    BY <1>2 DEF Packet_append
  <2>2. stored' = stored + 1
    BY <1>0, <2>1
  <2>3. reader.p \in Conns /\ conn' = [conn EXCEPT ![reader.p].buffers = @ + 1]
    BY <1>2, <2>1 DEF Packet_append, Typed, Pointers
  <2>4. \A d \in Conns : conn'[d].buffers = conn[d].buffers \/ conn'[d].buffers = conn[d].buffers + 1
    BY <1>0, <2>3 DEF ConnRec
  <2> QED BY <1>0, <2>1, <2>2, <2>4 DEF Counts
<1>3. CASE ~Packet_known /\ ~Packet_new /\ ~Packet_append
  <2>1. UNCHANGED <<reader, packets>> /\ (loops' = loops \/ \E w \in Workers : Loop_find(w))
    BY <1>3, WorkerFrame
  <2>2. loops' = loops \/ (loops > 0 /\ loops' = loops - 1)
    BY <2>1 DEF Loop_find
  <2>3. stored' = stored
    BY <2>1
  <2>4. \A d \in Conns : conn'[d].buffers <= conn[d].buffers
    BY StepBuffers, <1>0, <1>3
  <2>5. \A d \in Conns : conn'[d].buffers \in Nat
    BY StepConn, ConnAssumption DEF ConnRec
  <2> QED BY <1>0, <2>2, <2>3, <2>4, <2>5 DEF Counts
<1> QED BY <1>1, <1>2, <1>3

LEMMA StepTyped ==
  ASSUME Typed, Next
  PROVE  Typed'
BY StepTypeOK, StepPointers, StepCounts DEF Typed

-----------------------------------------------------------------------------
(* The gate, the reader and the loops.                                     *)

LEMMA InitGate ==
  ASSUME Init
  PROVE  Gate
<1>1. entry = None /\ loops = 0 /\ ~reader.first /\ \A w \in Workers : ~AnyLoop(w)
  BY DEF Init, AnyLoop, LoopPCs
<1> QED BY <1>1 DEF Gate, GateOpens, Single, AnyLoop, LoopKeepsConn

(* Loops begin with Loop_find, end with Loop_exit and stay with their      *)
(* connection.                                                             *)
LEMMA LoopersStay ==
  ASSUME Typed, Next, \A w \in Workers : ~Loop_find(w) /\ ~Loop_exit(w)
  PROVE  \A w \in Workers : /\ AnyLoop(w)' <=> AnyLoop(w)
                            /\ AnyLoop(w) => P(w)' = P(w)
<1> DEFINE Goal == \A w \in Workers : /\ AnyLoop(w)' <=> AnyLoop(w)
                                      /\ AnyLoop(w) => P(w)' = P(w)
<1> USE DEF AnyLoop, At, P, WorkerRec
<1>0. worker \in [Workers -> WorkerRec]
  BY DEF Typed, TypeOK
<1>1. ASSUME UNCHANGED worker
      PROVE  Goal
  BY <1>1
<1>2. ASSUME NEW w \in Workers, NEW pc \in LoopPCs, AnyLoop(w), Goto(w, pc)
      PROVE  Goal
  BY <1>0, <1>2 DEF Goto
<1>3. ASSUME NEW w \in Workers, NEW pc \in TimerPCs, ~AnyLoop(w), Goto(w, pc)
      PROVE  Goal
  <2>1. pc \notin LoopPCs
    BY DEF LoopPCs, TimerPCs
  <2> QED BY <1>0, <1>3, <2>1 DEF Goto
<1>4. ASSUME NEW w \in Workers, NEW r, ~AnyLoop(w), r.pc \notin LoopPCs,
             worker' = [worker EXCEPT ![w] = r]
      PROVE  Goal
  BY <1>0, <1>4
<1> HIDE DEF Goal
<1>5. ASSUME NEW w \in Workers,
             \/ Loop_check(w) \/ Loop_take(w) \/ Loop_lock(w) \/ Loop_serve(w)
             \/ Loop_flush(w)
      PROVE  Goal
  BY <1>2, <1>5
     DEF Loop_check, Loop_take, Loop_lock, Loop_serve, Loop_flush, Flush_remove, LoopPCs
<1>6. ASSUME NEW w \in Workers, Loop_append(w)
      PROVE  Goal
  BY <1>2, <1>6 DEF Loop_append, Flush_append, LoopPCs
<1>7. ASSUME NEW w \in Workers, Timer_find(w)
      PROVE  Goal
  <2>1. ~AnyLoop(w)
    BY <1>7 DEF Timer_find, LoopPCs
  <2> DEFINE r == [pc |-> "t_lock", p |-> entry]
  <2>2. UNCHANGED worker \/ worker' = [worker EXCEPT ![w] = r]
    BY <1>7 DEF Timer_find
  <2>3. r.pc \notin LoopPCs
    BY DEF LoopPCs
  <2> HIDE DEF r
  <2> QED BY <1>1, <1>4, <2>1, <2>2, <2>3
<1>8. ASSUME NEW w \in Workers,
             \/ Timer_lock(w) \/ Timer_flush(w) \/ Timer_append(w) \/ Timer_closed(w)
             \/ Timer_delete(w) \/ Timer_erase(w)
      PROVE  Goal
  <2>1. ~AnyLoop(w)
    BY <1>8 DEF Timer_lock, Timer_flush, Timer_append, Timer_closed, Timer_delete, Timer_erase,
                LoopPCs
  <2> DEFINE r == [pc |-> "idle", p |-> None]
  <2>2. r.pc \notin LoopPCs
    BY DEF LoopPCs
  <2>3. (\E pc \in TimerPCs : Goto(w, pc)) \/ worker' = [worker EXCEPT ![w] = r]
    BY <1>8 DEF Timer_lock, Timer_flush, Timer_append, Timer_closed, Timer_delete, Timer_erase,
                Flush_remove, Flush_append, Done, TimerPCs
  <2> HIDE DEF r
  <2> QED BY <1>3, <1>4, <2>1, <2>2, <2>3
<1>9. ASSUME \/ Packet_known \/ Packet_new \/ Packet_append
             \/ Stop_pool \/ Stop_map \/ Stop_lock \/ Stop_delete \/ Stop_erase \/ Stop_unlock
             \/ \E t \in timers : Timer_fires(t)
      PROVE  Goal
  <2>1. UNCHANGED worker
    BY <1>9 DEF Packet_known, Packet_new, Packet_append, Stop_pool, Stop_map, Stop_lock, Stop_delete,
                Stop_erase, Stop_unlock, Timer_fires
  <2> QED BY <1>1, <2>1
<1>10. Goal
  BY <1>5, <1>6, <1>7, <1>8, <1>9, NextActions
<1> QED BY <1>10 DEF Goal

(* Only the reader shuts the gate, only the end of a loop opens it.        *)
LEMMA GateStays ==
  ASSUME Typed, Next, ~Packet_known, ~Packet_new, \A w \in Workers : ~Loop_exit(w)
  PROVE  \A c \in Conns : conn'[c].is_responsing = conn[c].is_responsing
<1> DEFINE Goal == \A c \in Conns : conn'[c].is_responsing = conn[c].is_responsing
<1>0. conn \in [Conns -> ConnRec]
  BY DEF Typed, TypeOK, ConnRec
<1>1. ASSUME QuietStep
      PROVE  Goal
  BY <1>1, QuietConns DEF SameConns
<1>2. ASSUME NEW c \in Conns, conn' = [conn EXCEPT ![c].buffers = @ + 1]
      PROVE  Goal
  BY <1>0, <1>2 DEF ConnRec
<1>3. ASSUME NEW w \in Workers, Timer_lock(w)
      PROVE  Goal
  <2>1. \/ UNCHANGED conn
        \/ \E over \in BOOLEAN :
             conn' = [conn EXCEPT ![P(w)].mutex = w, ![P(w)].timer_id = None,
                                  ![P(w)].closed = @ \/ over]
    BY <1>3 DEF Timer_lock
  <2> QED BY <1>0, <2>1 DEF ConnRec
<1>5. ASSUME NEW w \in Workers, Loop_append(w) \/ Timer_append(w)
      PROVE  Goal
  BY <1>5, FlushedConn
<1> HIDE DEF Goal
<1>4. Goal
  BY <1>1, <1>2, <1>3, <1>5, LoudConns
<1> QED BY <1>4 DEF Goal

(* How the loop begins and ends. *)
LEMMA LoopFinds ==
  ASSUME Typed, NEW w \in Workers, Loop_find(w)
  PROVE  /\ UNCHANGED <<entry, conn, reader, in_use>>
         /\ loops \in Nat /\ loops > 0 /\ loops' = loops - 1
         /\ entry # None => AnyLoop(w)' /\ P(w)' = entry
         /\ entry = None => UNCHANGED worker
         /\ ~AnyLoop(w)
         /\ \A v \in Workers \ {w} : (AnyLoop(v)' <=> AnyLoop(v)) /\ P(v)' = P(v)
<1>1. worker \in [Workers -> WorkerRec] /\ loops \in Nat
  BY ConnAssumption DEF Typed, TypeOK, WorkerRec
<1>2. UNCHANGED <<entry, conn, reader, in_use>> /\ loops > 0 /\ loops' = loops - 1
  BY DEF Loop_find
<1>3. worker[w].pc = "idle" /\ ~AnyLoop(w)
  BY DEF Loop_find, At, AnyLoop, LoopPCs
<1>4. CASE entry = None
  <2>1. UNCHANGED worker
    BY <1>4 DEF Loop_find
  <2> QED BY <1>1, <1>2, <1>3, <1>4, <2>1 DEF AnyLoop, P
<1>5. CASE entry # None
  <2>1. worker' = [worker EXCEPT ![w] = [pc |-> "l_check", p |-> entry]]
    BY <1>5 DEF Loop_find
  <2>2. worker'[w].pc = "l_check" /\ worker'[w].p = entry /\ \A v \in Workers \ {w} : worker'[v] = worker[v]
    BY <1>1, <2>1
  <2> QED BY <1>1, <1>2, <1>3, <1>5, <2>2 DEF AnyLoop, P, LoopPCs
<1> QED BY <1>4, <1>5

LEMMA LoopEnds ==
  ASSUME Typed, NEW w \in Workers, Loop_exit(w)
  PROVE  /\ UNCHANGED <<entry, loops, reader, in_use>>
         /\ AnyLoop(w) /\ ~AnyLoop(w)' /\ P(w) \in Conns
         /\ \A v \in Workers \ {w} : (AnyLoop(v)' <=> AnyLoop(v)) /\ P(v)' = P(v)
         /\ ~conn'[P(w)].is_responsing
         /\ \A c \in Conns \ {P(w)} : conn'[c] = conn[c]
<1>1. worker \in [Workers -> WorkerRec] /\ conn \in [Conns -> ConnRec] /\ P(w) \in Conns
  BY DEF Typed, TypeOK, WorkerRec, ConnRec, Pointers, Loop_exit, At
<1>2. UNCHANGED <<entry, loops, reader, in_use>>
  BY DEF Loop_exit
<1>3. AnyLoop(w)
  BY DEF Loop_exit, At, AnyLoop, LoopPCs
<1>4. worker' = [worker EXCEPT ![w] = [pc |-> "idle", p |-> None]]
  BY DEF Loop_exit, Done
<1>5. worker'[w].pc = "idle" /\ \A v \in Workers \ {w} : worker'[v] = worker[v]
  BY <1>1, <1>4
<1>6. conn' = [conn EXCEPT ![P(w)].is_responsing = FALSE]
  BY DEF Loop_exit
<1>7. ~conn'[P(w)].is_responsing /\ \A c \in Conns \ {P(w)} : conn'[c] = conn[c]
  BY <1>1, <1>6 DEF ConnRec
<1> QED BY <1>1, <1>2, <1>3, <1>5, <1>7 DEF AnyLoop, P, LoopPCs

LEMMA NoneIsNoConn ==
  None \notin Conns
<1>1. Conns = 1 .. Cardinality(Conns)
  BY ConnAssumption
<1>2. ASSUME NEW n
      PROVE  0 \notin 1 .. n
  OBVIOUS
<1> QED BY <1>1, <1>2 DEF None

(* What the reader does with the gate. *)
LEMMA ReaderPasses ==
  ASSUME Typed, Next, Packet_known \/ Packet_new
  PROVE  /\ UNCHANGED <<worker, loops, in_use>>
         /\ ~reader.first
         /\ entry' \in Conns /\ entry' # None /\ reader'.p = entry' /\ conn'[entry'].is_responsing
         /\ reader'.first <=> ~conn[entry'].is_responsing
         /\ entry' = entry \/ (entry = None /\ reader'.first)
<1>1. PICK c \in Conns :
        /\ c = entry' /\ conn' = [conn EXCEPT ![c].made = TRUE, ![c].is_responsing = TRUE]
        /\ reader' = [pc |-> "append", p |-> c, first |-> ~conn[c].is_responsing]
        /\ entry' = entry \/ (entry = None /\ ~conn[c].made)
  BY DEF Packet_known, Packet_new, Pass, Typed, TypeOK
<1>2. conn \in [Conns -> ConnRec] /\ (~conn[c].made => ~conn[c].is_responsing)
  BY DEF Typed, TypeOK, ConnRec, Pointers
<1>3. UNCHANGED <<worker, loops, in_use>> /\ reader.pc = "idle"
  BY DEF Packet_known, Packet_new
<1>4. ~reader.first
  BY <1>3 DEF Typed, Pointers
<1>5. conn'[c].is_responsing
  BY <1>1, <1>2 DEF ConnRec
<1>6. reader'.p = c /\ (reader'.first <=> ~conn[c].is_responsing)
  BY <1>1
<1>7. None \notin Conns
  BY NoneIsNoConn
<1> QED BY <1>1, <1>2, <1>3, <1>4, <1>5, <1>6, <1>7

(* What the closed pool has refused is never taken back. *)
LEMMA RefusedStays ==
  ASSUME Next, refused
  PROVE  refused'
<1>1. ASSUME NEW w \in Workers,
             \/ Loop_find(w) \/ Loop_check(w) \/ Loop_take(w) \/ Loop_lock(w) \/ Loop_serve(w)
             \/ Loop_flush(w) \/ Loop_exit(w)
             \/ Timer_find(w) \/ Timer_lock(w) \/ Timer_flush(w) \/ Timer_closed(w)
             \/ Timer_delete(w) \/ Timer_erase(w)
      PROVE  refused'
  BY <1>1 DEF Loop_find, Loop_check, Loop_take, Loop_lock, Loop_serve, Loop_flush, Loop_exit,
              Timer_find, Timer_lock, Timer_flush, Timer_closed, Timer_delete, Timer_erase
<1>2. ASSUME NEW w \in Workers, Loop_append(w) \/ Timer_append(w)
      PROVE  refused'
  BY <1>2 DEF Loop_append, Timer_append, Flush_append
<1>3. ASSUME \/ Packet_known \/ Packet_new \/ Packet_append
             \/ Stop_pool \/ Stop_map \/ Stop_lock \/ Stop_delete \/ Stop_erase \/ Stop_unlock
             \/ \E t \in timers : Timer_fires(t)
      PROVE  refused'
  BY <1>3 DEF Packet_known, Packet_new, Packet_append, Stop_pool, Stop_map, Stop_lock,
              Stop_delete, Stop_erase, Stop_unlock, Timer_fires
<1> QED BY <1>1, <1>2, <1>3, NextActions

LEMMA StepGateOpens ==
  ASSUME Typed, GateOpens, Next
  PROVE  GateOpens'
<1> DEFINE Witness == loops > 0 \/ reader.first \/ refused
                      \/ \E w \in Workers : AnyLoop(w) /\ P(w) = entry
<1>0. GateOpens <=> (entry # None /\ conn[entry].is_responsing => Witness)
  BY DEF GateOpens, Looping, AnyLoop
<1>1. GateOpens' <=> (entry' # None /\ conn'[entry'].is_responsing => Witness')
  BY DEF GateOpens, Looping, AnyLoop, P
<1>2. entry \in Conns \cup {None} /\ loops \in Nat
  BY ConnAssumption DEF Typed, TypeOK
<1> SUFFICES ASSUME entry' # None, conn'[entry'].is_responsing
             PROVE  Witness'
  BY <1>1
<1>7. CASE refused
  BY <1>7, RefusedStays
<1>3. CASE (Packet_known \/ Packet_new) /\ ~refused
  <2>1. CASE reader'.first
    BY <2>1
  <2>2. CASE ~reader'.first
    <3>1. entry' = entry /\ conn[entry].is_responsing /\ entry # None
      BY <1>3, <2>2, ReaderPasses
    <3>2. loops > 0 \/ \E w \in Workers : AnyLoop(w) /\ P(w) = entry
      BY <1>0, <1>3, <3>1, ReaderPasses
    <3>3. loops' = loops /\ \A w \in Workers : (AnyLoop(w)' <=> AnyLoop(w)) /\ P(w)' = P(w)
      BY <1>3, ReaderPasses DEF AnyLoop, P
    <3> QED BY <3>1, <3>2, <3>3
  <2> QED BY <2>1, <2>2
<1>4. ASSUME NEW w \in Workers, Loop_find(w)
      PROVE  Witness'
  <2>1. entry' = entry /\ AnyLoop(w)' /\ P(w)' = entry'
    BY <1>4, LoopFinds
  <2> QED BY <2>1
<1>5. ASSUME NEW w \in Workers, Loop_exit(w)
      PROVE  Witness'
  <2>1. /\ entry' = entry /\ entry \in Conns /\ entry # P(w) /\ conn[entry].is_responsing
        /\ UNCHANGED <<loops, reader>>
    BY <1>2, <1>5, LoopEnds
  <2>2. CASE loops > 0 \/ reader.first
    BY <2>1, <2>2
  <2>3. ASSUME NEW v \in Workers, AnyLoop(v), P(v) = entry
        PROVE  Witness'
    <3>1. v # w
      BY <2>1, <2>3
    <3>2. AnyLoop(v)' /\ P(v)' = P(v)
      BY <1>5, <2>3, <3>1, LoopEnds
    <3>3. AnyLoop(v)' /\ P(v)' = entry'
      BY <2>1, <2>3, <3>2
    <3> QED BY <3>3, Zenon
  <2>4. entry # None
    BY <2>1, NoneIsNoConn
  <2> QED BY <1>0, <1>7, <2>1, <2>2, <2>3, <2>4, Zenon
<1>6. CASE /\ ~Packet_known /\ ~Packet_new
           /\ \A w \in Workers : ~Loop_find(w) /\ ~Loop_exit(w)
  <2>1. entry' = entry
        /\ (loops > 0 \/ reader.first => loops' > 0 \/ reader'.first \/ refused')
    <3>1. CASE Packet_append
      <4>1. entry' = entry /\ (Open /\ reader.first => loops' = loops + 1)
            /\ (~(Open /\ reader.first) => loops' = loops)
        BY <3>1 DEF Packet_append
      <4>2. reader.first /\ ~Open => refused'
        BY <3>1, Zenon DEF Packet_append
      <4>3. loops > 0 => loops' > 0
        BY <1>2, <4>1
      <4>4. Open /\ reader.first => loops' > 0
        BY <1>2, <4>1
      <4> QED BY <4>1, <4>2, <4>3, <4>4, Zenon
    <3>2. CASE ~Packet_append
      BY <1>6, <3>2, WorkerFrame DEF Erase
    <3> QED BY <3>1, <3>2
  <2>2. conn[entry].is_responsing /\ entry # None
    BY <1>2, <1>6, <2>1, GateStays
  <2>3. ASSUME NEW v \in Workers, AnyLoop(v), P(v) = entry
        PROVE  Witness'
    <3>1. AnyLoop(v)' /\ P(v)' = P(v)
      BY <1>6, <2>3, LoopersStay
    <3>2. AnyLoop(v)' /\ P(v)' = entry'
      BY <2>1, <2>3, <3>1
    <3> QED BY <3>2, Zenon
  <2> QED BY <1>0, <1>7, <2>1, <2>2, <2>3, Zenon
<1> QED BY <1>3, <1>4, <1>5, <1>6, <1>7

LEMMA StepSingle ==
  ASSUME Typed, Single, Next
  PROVE  Single'
<1> DEFINE Busy == loops > 0 \/ reader.first \/ \E w \in Workers : AnyLoop(w)
           Body == /\ loops <= 1
                   /\ loops > 0 => ~reader.first /\ \A w \in Workers : ~AnyLoop(w)
                   /\ reader.first => \A w \in Workers : ~AnyLoop(w)
                   /\ \A v, w \in Workers : AnyLoop(v) /\ AnyLoop(w) => v = w
                   /\ \A w \in Workers : AnyLoop(w) => P(w) = entry
                   /\ reader.first => reader.p = entry
                   /\ Busy => entry # None /\ conn[entry].is_responsing
<1>0. entry \in Conns \cup {None} /\ loops \in Nat
  BY ConnAssumption DEF Typed, TypeOK
<1>1. in_use = {} /\ Single => Body
  BY DEF Single, LoopKeepsConn, AnyLoop
<1>2. Single' <=> (in_use' = {} => Body')
  BY DEF Single, LoopKeepsConn, AnyLoop, P
<1>3. in_use' = {} => in_use = {}
  <2>1. CASE Packet_known \/ Packet_new \/ Packet_append
    BY <2>1 DEF Packet_known, Packet_new, Packet_append
  <2>2. CASE ~Packet_known /\ ~Packet_new /\ ~Packet_append
    BY <2>2, WorkerFrame, EraseTypes
  <2> QED BY <2>1, <2>2
<1> SUFFICES ASSUME in_use' = {}
             PROVE  Body'
  BY <1>2
<1>4. in_use = {} /\ Body
  BY <1>1, <1>3
<1> HIDE DEF Body
<1>5. ASSUME UNCHANGED <<worker, loops>>, Packet_known \/ Packet_new
      PROVE  Body'
  <2>1. \A w \in Workers : (AnyLoop(w)' <=> AnyLoop(w)) /\ P(w)' = P(w)
    BY <1>5 DEF AnyLoop, P
  <2>2. CASE reader'.first
    <3>1. ~Busy
      BY <1>4, <1>5, <2>2, ReaderPasses DEF Body
    <3> QED BY <1>0, <1>5, <2>1, <2>2, <3>1, ReaderPasses DEF Body
  <2>3. CASE ~reader'.first
    <3>1. entry' = entry
      BY <1>5, <2>3, ReaderPasses
    <3> QED BY <1>0, <1>4, <1>5, <2>1, <2>3, <3>1, ReaderPasses DEF Body
  <2> QED BY <2>2, <2>3
<1>6. CASE Packet_append
  <2>1. UNCHANGED <<entry, worker>> /\ ~reader'.first
        /\ loops' = IF reader.first /\ Open THEN loops + 1 ELSE loops
    BY <1>6 DEF Packet_append
  <2>2. \A w \in Workers : (AnyLoop(w)' <=> AnyLoop(w)) /\ P(w)' = P(w)
    BY <2>1 DEF AnyLoop, P
  <2>3. entry # None => conn'[entry].is_responsing = conn[entry].is_responsing
    <3>1. \A w \in Workers : ~Loop_exit(w)
      BY <1>6 DEF Packet_append, Loop_exit
    <3>2. ~Packet_known /\ ~Packet_new
      BY <1>6 DEF Packet_append, Packet_known, Packet_new
    <3> QED BY <1>0, <3>1, <3>2, GateStays
  <2> QED BY <1>0, <1>4, <2>1, <2>2, <2>3 DEF Body
<1>7. ASSUME NEW w \in Workers, Loop_find(w)
      PROVE  Body'
  <2>1. entry # None /\ conn[entry].is_responsing /\ loops <= 1 /\ loops > 0 /\ ~reader.first
        /\ \A v \in Workers : ~AnyLoop(v)
    BY <1>4, <1>7, LoopFinds DEF Body
  <2>2. loops' = 0 /\ UNCHANGED <<entry, conn, reader>>
    BY <1>0, <1>7, <2>1, LoopFinds
  <2>3. AnyLoop(w)' /\ P(w)' = entry /\ \A v \in Workers \ {w} : ~AnyLoop(v)'
    BY <1>7, <2>1, LoopFinds
  <2> QED BY <2>1, <2>2, <2>3 DEF Body
<1>8. ASSUME NEW w \in Workers, Loop_exit(w)
      PROVE  Body'
  <2>1. ~(loops > 0) /\ ~reader.first /\ \A v \in Workers \ {w} : ~AnyLoop(v)
    BY <1>4, <1>8, LoopEnds DEF Body
  <2>2. UNCHANGED <<loops, reader>> /\ \A v \in Workers : ~AnyLoop(v)'
    BY <1>8, <2>1, LoopEnds
  <2> QED BY <1>0, <2>1, <2>2 DEF Body
<1>9. CASE /\ ~Packet_known /\ ~Packet_new /\ ~Packet_append
           /\ \A w \in Workers : ~Loop_find(w) /\ ~Loop_exit(w)
  <2>1. UNCHANGED <<loops, reader>>
    BY <1>9, WorkerFrame
  <2>2. \A w \in Workers : (AnyLoop(w)' <=> AnyLoop(w)) /\ (AnyLoop(w) => P(w)' = P(w))
    BY <1>9, LoopersStay
  <2>3. CASE entry' = entry
    <3>1. entry # None => conn'[entry].is_responsing = conn[entry].is_responsing
      BY <1>0, <1>9, GateStays
    <3> QED BY <1>4, <2>1, <2>2, <2>3, <3>1 DEF Body
  <2>4. CASE Erase
    <3>1. ~Busy
      BY <1>4, <2>4, EraseTypes DEF Body
    <3> QED BY <1>0, <2>1, <2>2, <3>1 DEF Body
  <2> QED BY <1>9, <2>3, <2>4, WorkerFrame
<1>10. CASE Packet_known \/ Packet_new
  BY <1>5, <1>10, ReaderPasses
<1> QED BY <1>6, <1>7, <1>8, <1>9, <1>10

-----------------------------------------------------------------------------
(* What wakes the connection.                                              *)

LEMMA InitKept ==
  ASSUME Init
  PROVE  Kept
BY DEF Init, Kept, OwnTimer, Woken, Unmade, None

(* timer_id is cleared, or set to a timer that is new.                     *)
LEMMA TimerIds ==
  ASSUME Typed, Next
  PROVE  \/ /\ timer_no' = timer_no
            /\ \A c \in Conns : conn'[c].timer_id \in {conn[c].timer_id, None}
         \/ /\ timer_no' = timer_no + 1
            /\ \E d \in Conns :
                 /\ conn'[d].timer_id = timer_no'
                 /\ \A c \in Conns \ {d} : conn'[c].timer_id = conn[c].timer_id
<1> DEFINE Same == /\ timer_no' = timer_no
                   /\ \A c \in Conns : conn'[c].timer_id \in {conn[c].timer_id, None}
           Fresh == /\ timer_no' = timer_no + 1
                    /\ \E d \in Conns :
                         /\ conn'[d].timer_id = timer_no'
                         /\ \A c \in Conns \ {d} : conn'[c].timer_id = conn[c].timer_id
<1>0. conn \in [Conns -> ConnRec]
  BY DEF Typed, TypeOK, ConnRec
<1>1. ASSUME QuietStep
      PROVE  Same
  <2>1. timer_no' = timer_no
    BY <1>1 DEF QuietStep, Loop_find, Loop_check, Loop_take, Loop_lock, Loop_serve, Loop_flush,
                Timer_find, Timer_flush, Timer_closed, Timer_delete, Timer_erase, Timer_fires,
                Stop_pool, Stop_map, Stop_lock, Stop_delete, Stop_erase, Stop_unlock
  <2> QED BY <1>1, <2>1, QuietConns DEF SameConns
<1>2. ASSUME NEW c \in Conns, Packet_known \/ Packet_new,
             conn' = [conn EXCEPT ![c].made = TRUE, ![c].is_responsing = TRUE]
      PROVE  Same
  <2>1. timer_no' = timer_no
    BY <1>2 DEF Packet_known, Packet_new
  <2> QED BY <1>0, <1>2, <2>1 DEF ConnRec
<1>3. ASSUME Packet_append, reader.p \in Conns, conn' = [conn EXCEPT ![reader.p].buffers = @ + 1]
      PROVE  Same
  <2>1. timer_no' = timer_no
    BY <1>3 DEF Packet_append
  <2> QED BY <1>0, <1>3, <2>1 DEF ConnRec
<1>4. ASSUME NEW w \in Workers, Loop_exit(w), P(w) \in Conns,
             conn' = [conn EXCEPT ![P(w)].is_responsing = FALSE]
      PROVE  Same
  <2>1. timer_no' = timer_no
    BY <1>4 DEF Loop_exit
  <2> QED BY <1>0, <1>4, <2>1 DEF ConnRec
<1>5. ASSUME NEW w \in Workers, Timer_lock(w), P(w) \in Conns
      PROVE  Same
  <2>1. timer_no' = timer_no
    BY <1>5 DEF Timer_lock
  <2>2. \/ UNCHANGED conn
        \/ \E over \in BOOLEAN :
             conn' = [conn EXCEPT ![P(w)].mutex = w, ![P(w)].timer_id = None,
                                  ![P(w)].closed = @ \/ over]
    BY <1>5 DEF Timer_lock
  <2> QED BY <1>0, <1>5, <2>1, <2>2 DEF ConnRec
<1>6. ASSUME NEW w \in Workers, Loop_append(w) \/ Timer_append(w), P(w) \in Conns
      PROVE  Same \/ Fresh
  <2>1. \/ conn' = [conn EXCEPT ![P(w)] = Flushed(P(w))] /\ timer_no' = timer_no
        \/ /\ timer_no' = timer_no + 1
           /\ conn' = [conn EXCEPT ![P(w)] = [Flushed(P(w)) EXCEPT !.timer_id = timer_no']]
    BY <1>6 DEF Loop_append, Timer_append, Flush_append
  <2>2. CASE conn' = [conn EXCEPT ![P(w)] = Flushed(P(w))] /\ timer_no' = timer_no
    BY <1>0, <1>6, <2>2 DEF ConnRec, Flushed
  <2>3. CASE /\ timer_no' = timer_no + 1
             /\ conn' = [conn EXCEPT ![P(w)] = [Flushed(P(w)) EXCEPT !.timer_id = timer_no']]
    <3>1. conn'[P(w)].timer_id = timer_no' /\ \A c \in Conns \ {P(w)} : conn'[c] = conn[c]
      BY <1>0, <1>6, <2>3 DEF ConnRec, Flushed
    <3> QED BY <1>6, <2>3, <3>1
  <2> QED BY <2>1, <2>2, <2>3
<1> HIDE DEF Same, Fresh
<1>7. Same \/ Fresh
  BY <1>1, <1>2, <1>3, <1>4, <1>5, <1>6, LoudConns
<1> QED BY <1>7 DEF Same, Fresh

LEMMA StepOwnTimer ==
  ASSUME Typed, OwnTimer, Next
  PROVE  OwnTimer'
<1>0. timer_no \in Nat /\ \A c \in Conns : conn[c].timer_id \in Nat
  BY ConnAssumption DEF Typed, TypeOK, ConnRec
<1>1. \A c \in Conns : conn[c].timer_id <= timer_no
  BY DEF OwnTimer
<1>2. CASE /\ timer_no' = timer_no
           /\ \A c \in Conns : conn'[c].timer_id \in {conn[c].timer_id, None}
  <2>1. \A c \in Conns : conn'[c].timer_id <= timer_no'
    BY <1>0, <1>1, <1>2 DEF None
  <2> QED BY <1>2, <2>1 DEF OwnTimer
<1>3. CASE /\ timer_no' = timer_no + 1
           /\ \E d \in Conns :
                /\ conn'[d].timer_id = timer_no'
                /\ \A c \in Conns \ {d} : conn'[c].timer_id = conn[c].timer_id
  <2>1. PICK d \in Conns : /\ conn'[d].timer_id = timer_no'
                           /\ \A c \in Conns \ {d} : conn'[c].timer_id = conn[c].timer_id
    BY <1>3
  <2>2. \A c \in Conns \ {d} : conn'[c].timer_id \in Nat /\ conn'[c].timer_id < timer_no'
    BY <1>0, <1>1, <1>3, <2>1
  <2>3. \A c \in Conns : conn'[c].timer_id <= timer_no'
    BY <1>0, <1>3, <2>1, <2>2
  <2>4. \A c, e \in Conns :
          conn'[c].timer_id = conn'[e].timer_id /\ conn'[c].timer_id # None => c = e
    <3> SUFFICES ASSUME NEW c \in Conns, NEW e \in Conns,
                        conn'[c].timer_id = conn'[e].timer_id, conn'[c].timer_id # None
                 PROVE  c = e
      OBVIOUS
    <3>1. CASE c # d /\ e # d
      BY <2>1, <3>1 DEF OwnTimer
    <3>2. CASE c = d \/ e = d
      BY <1>0, <1>3, <2>1, <2>2, <3>2
    <3> QED BY <3>1, <3>2
  <2> QED BY <2>3, <2>4 DEF OwnTimer
<1> QED BY <1>2, <1>3, TimerIds

(* A connection that was closed or is being deleted stays so, and only a   *)
(* flush makes it flushed.                                                 *)
LEMMA ExcusedStays ==
  ASSUME Typed, Next, \A w \in Workers : ~Loop_append(w) /\ ~Timer_append(w)
  PROVE  \A c \in Conns : Excused(c) => Excused(c)'
<1> DEFINE Goal == \A c \in Conns : Excused(c) => Excused(c)'
<1>0. conn \in [Conns -> ConnRec]
  BY DEF Typed, TypeOK, ConnRec
<1>1. ASSUME QuietStep
      PROVE  Goal
  BY <1>1, QuietConns DEF SameConns, Excused
<1>2. ASSUME \A c \in Conns : /\ conn'[c].flushed = conn[c].flushed
                              /\ conn[c].closed => conn'[c].closed
                              /\ conn'[c].is_deleting = conn[c].is_deleting
                              /\ conn[c].failed => conn'[c].failed
      PROVE  Goal
  BY <1>2 DEF Excused
<1>3. ASSUME NEW c \in Conns,
             \/ conn' = [conn EXCEPT ![c].made = TRUE, ![c].is_responsing = TRUE]
             \/ conn' = [conn EXCEPT ![c].buffers = @ + 1]
             \/ conn' = [conn EXCEPT ![c].is_responsing = FALSE]
      PROVE  Goal
  BY <1>0, <1>2, <1>3 DEF ConnRec
<1>4. ASSUME NEW w \in Workers, Timer_lock(w)
      PROVE  Goal
  <2>1. \/ UNCHANGED conn
        \/ \E over \in BOOLEAN :
             conn' = [conn EXCEPT ![P(w)].mutex = w, ![P(w)].timer_id = None,
                                  ![P(w)].closed = @ \/ over]
    BY <1>4 DEF Timer_lock
  <2> QED BY <1>0, <1>2, <2>1 DEF ConnRec
<1> HIDE DEF Goal
<1>5. Goal
  BY <1>1, <1>3, <1>4, LoudConns
<1> QED BY <1>5 DEF Goal

(* Whoever is to flush stays so until it does.                             *)
LEMMA KeepersStay ==
  ASSUME Typed, Next, NEW v \in Workers, Keeper(v),
         ~Timer_lock(v), ~Timer_flush(v), ~Timer_append(v), ~Loop_append(v)
  PROVE  Keeper(v)' /\ P(v)' = P(v)
<1> SUFFICES worker'[v] = worker[v]
  BY DEF Keeper, P
<1> USE DEF At
<1>0. worker \in [Workers -> WorkerRec]
  BY DEF Typed, TypeOK, WorkerRec
<1>1. ASSUME NEW w \in Workers, w # v,
             (\E r : worker' = [worker EXCEPT ![w] = r])
      PROVE  worker'[v] = worker[v]
  BY <1>0, <1>1
<1>2. ASSUME NEW w \in Workers, w # v, NEW pc, Goto(w, pc)
      PROVE  worker'[v] = worker[v]
  BY <1>0, <1>2 DEF Goto
<1>3. ASSUME NEW w \in Workers,
             \/ Loop_find(w) \/ Loop_check(w) \/ Loop_take(w) \/ Loop_lock(w) \/ Loop_serve(w)
             \/ Loop_flush(w) \/ Loop_exit(w)
             \/ Timer_find(w) \/ Timer_closed(w) \/ Timer_delete(w) \/ Timer_erase(w)
      PROVE  w # v
  BY <1>3 DEF Keeper, Loop_find, Loop_check, Loop_take, Loop_lock, Loop_serve, Loop_flush,
              Loop_exit, Timer_find, Timer_closed, Timer_delete, Timer_erase
<1>4. ASSUME NEW w \in Workers, Loop_find(w) \/ Timer_find(w)
      PROVE  worker'[v] = worker[v]
  BY <1>1, <1>3, <1>4 DEF Loop_find, Timer_find
<1>5. ASSUME NEW w \in Workers,
             \/ Loop_check(w) \/ Loop_take(w) \/ Loop_lock(w) \/ Loop_serve(w) \/ Loop_flush(w)
      PROVE  worker'[v] = worker[v]
  BY <1>2, <1>3, <1>5 DEF Loop_check, Loop_take, Loop_lock, Loop_serve, Loop_flush, Flush_remove
<1>6. ASSUME NEW w \in Workers,
             Loop_exit(w) \/ Timer_closed(w) \/ Timer_delete(w) \/ Timer_erase(w)
      PROVE  worker'[v] = worker[v]
  BY <1>1, <1>2, <1>3, <1>6 DEF Loop_exit, Timer_closed, Timer_delete, Timer_erase, Done
<1>7. ASSUME NEW w \in Workers,
             Loop_append(w) \/ Timer_append(w) \/ Timer_flush(w) \/ Timer_lock(w)
      PROVE  worker'[v] = worker[v]
  <2>1. w # v
    BY <1>7
  <2> QED BY <1>1, <1>2, <1>7, <2>1
       DEF Loop_append, Timer_append, Timer_flush, Timer_lock, Flush_append, Flush_remove, Done
<1>8. ASSUME \/ Packet_known \/ Packet_new \/ Packet_append
             \/ Stop_pool \/ Stop_map \/ Stop_lock \/ Stop_delete \/ Stop_erase \/ Stop_unlock
             \/ \E t \in timers : Timer_fires(t)
      PROVE  worker'[v] = worker[v]
  BY <1>8 DEF Packet_known, Packet_new, Packet_append, Stop_pool, Stop_map, Stop_lock, Stop_delete,
              Stop_erase, Stop_unlock, Timer_fires
<1> QED BY <1>4, <1>5, <1>6, <1>7, <1>8, NextActions

(* A worker moves no other.                                                *)
LEMMA StepsAlone ==
  ASSUME Typed, NEW w \in Workers,
         \/ Loop_append(w) \/ Loop_flush(w) \/ Timer_append(w) \/ Timer_flush(w)
         \/ Timer_lock(w) \/ Timer_find(w)
  PROVE  \A v \in Workers \ {w} : worker'[v] = worker[v]
<1>1. worker \in [Workers -> WorkerRec]
  BY DEF Typed, TypeOK, WorkerRec
<1>2. ASSUME NEW pc, Goto(w, pc)
      PROVE  \A v \in Workers \ {w} : worker'[v] = worker[v]
  BY <1>1, <1>2 DEF Goto
<1>3. ASSUME Done(w)
      PROVE  \A v \in Workers \ {w} : worker'[v] = worker[v]
  BY <1>1, <1>3 DEF Done
<1>4. ASSUME Timer_find(w)
      PROVE  \A v \in Workers \ {w} : worker'[v] = worker[v]
  BY <1>1, <1>4 DEF Timer_find
<1> QED
  BY <1>2, <1>3, <1>4 DEF Loop_append, Loop_flush, Timer_append, Timer_flush, Timer_lock,
                          Flush_append, Flush_remove

(* The steps that take something away from what wakes a connection.        *)
LEMMA FlushAppends ==
  ASSUME Typed, NEW w \in Workers, Loop_append(w) \/ Timer_append(w)
  PROVE  /\ UNCHANGED entry
         /\ P(w) \in Conns
         /\ timers \subseteq timers' /\ cbs \in Nat /\ cbs' >= cbs
         /\ \A c \in Conns \ {P(w)} : conn'[c] = conn[c]
         /\ cbs' > 0 \/ conn'[P(w)].timer_id \in timers' \/ refused'
         /\ \A v \in Workers \ {w} : worker'[v] = worker[v]
<1>1. conn \in [Conns -> ConnRec] /\ P(w) \in Conns /\ cbs \in Nat
  BY DEF Typed, TypeOK, ConnRec, Pointers, Loop_append, Timer_append, At
<1>2. UNCHANGED entry
  BY DEF Loop_append, Timer_append
<1>3. \/ /\ cbs' = cbs + 1 \/ (cbs' = cbs /\ refused')
         /\ timers' = timers
         /\ conn' = [conn EXCEPT ![P(w)] = Flushed(P(w))]
      \/ /\ cbs' = cbs /\ timers' = timers \cup {timer_no'}
         /\ conn' = [conn EXCEPT ![P(w)] = [Flushed(P(w)) EXCEPT !.timer_id = timer_no']]
  BY DEF Loop_append, Timer_append, Flush_append
<1>6. \A v \in Workers \ {w} : worker'[v] = worker[v]
  BY StepsAlone
<1>4. CASE /\ cbs' = cbs + 1 \/ (cbs' = cbs /\ refused')
           /\ timers' = timers
           /\ conn' = [conn EXCEPT ![P(w)] = Flushed(P(w))]
  BY <1>1, <1>2, <1>4, <1>6
<1>5. CASE /\ cbs' = cbs /\ timers' = timers \cup {timer_no'}
           /\ conn' = [conn EXCEPT ![P(w)] = [Flushed(P(w)) EXCEPT !.timer_id = timer_no']]
  <2>1. conn'[P(w)].timer_id = timer_no'
    BY <1>1, <1>5 DEF ConnRec, Flushed
  <2>2. \A c \in Conns \ {P(w)} : conn'[c] = conn[c]
    BY <1>1, <1>5
  <2> QED BY <1>1, <1>2, <1>5, <1>6, <2>1, <2>2
<1> QED BY <1>3, <1>4, <1>5

LEMMA FlushRemoves ==
  ASSUME Typed, NEW w \in Workers, Loop_flush(w) \/ Timer_flush(w)
  PROVE  /\ UNCHANGED <<entry, cbs>>
         /\ P(w) \in Conns
         /\ \A c \in Conns \ {P(w)} : conn'[c] = conn[c]
         /\ \/ timers' = timers /\ conn'[P(w)].closed
            \/ timers' = timers /\ conn'[P(w)].failed
            \/ timers' = timers \ {conn[P(w)].timer_id} /\ Keeper(w)' /\ P(w)' = P(w)
         /\ \A v \in Workers \ {w} : worker'[v] = worker[v]
<1>1. /\ worker \in [Workers -> WorkerRec] /\ P(w) \in Conns
      /\ conn \in [Conns -> ConnRec]
  BY DEF Typed, TypeOK, WorkerRec, ConnRec, Pointers, Loop_flush, Timer_flush, At
<1>2. UNCHANGED <<entry, cbs>>
  BY DEF Loop_flush, Timer_flush
<1>3. ASSUME UNCHANGED conn, NEW pc \in {"l_append", "t_append"},
             timers' = timers \ {conn[P(w)].timer_id}, Goto(w, pc)
      PROVE  Keeper(w)' /\ P(w)' = P(w)
  <2>1. worker'[w].pc = pc /\ worker'[w].p = worker[w].p
    BY <1>1, <1>3 DEF Goto, WorkerRec
  <2> QED BY <2>1 DEF Keeper, P
<1>4. ASSUME NEW r, r.failed, conn' = [conn EXCEPT ![P(w)] = r]
      PROVE  conn'[P(w)].failed /\ \A c \in Conns \ {P(w)} : conn'[c] = conn[c]
  BY <1>1, <1>4
<1>5. Failed(P(w)).failed /\ [Failed(P(w)) EXCEPT !.mutex = Nobody].failed
  BY <1>1 DEF Failed, ConnRec
<1>6. \/ UNCHANGED conn /\ timers' = timers /\ conn[P(w)].closed
      \/ /\ UNCHANGED conn /\ timers' = timers \ {conn[P(w)].timer_id}
         /\ \E pc \in {"l_append", "t_append"} : Goto(w, pc)
      \/ /\ timers' = timers
         /\ \/ conn' = [conn EXCEPT ![P(w)] = Failed(P(w))]
            \/ conn' = [conn EXCEPT ![P(w)] = [Failed(P(w)) EXCEPT !.mutex = Nobody]]
  BY DEF Loop_flush, Timer_flush, Flush_remove
<1> QED BY <1>1, <1>2, <1>3, <1>4, <1>5, <1>6, StepsAlone

LEMMA TimerLocks ==
  ASSUME Typed, NEW w \in Workers, Timer_lock(w)
  PROVE  /\ UNCHANGED <<entry, timers, cbs>>
         /\ P(w) \in Conns
         /\ \A c \in Conns : Excused(c) => Excused(c)'
         /\ \A c \in Conns \ {P(w)} : conn'[c] = conn[c]
         /\ \/ entry = None
            \/ conn[P(w)].is_deleting
            \/ Keeper(w)' /\ P(w)' = P(w)
         /\ \A v \in Workers \ {w} : worker'[v] = worker[v]
<1>1. /\ worker \in [Workers -> WorkerRec] /\ P(w) \in Conns
      /\ conn \in [Conns -> ConnRec]
  BY DEF Typed, TypeOK, WorkerRec, ConnRec, Pointers, Timer_lock, At
<1>2. UNCHANGED <<entry, timers, cbs>>
  BY DEF Timer_lock
<1>3. CASE entry = None \/ conn[P(w)].is_deleting
  <2>1. UNCHANGED conn
    BY <1>3 DEF Timer_lock
  <2> QED BY <1>1, <1>2, <1>3, <2>1, StepsAlone DEF Excused
<1>4. CASE ~(entry = None \/ conn[P(w)].is_deleting)
  <2>1. /\ Goto(w, "t_flush")
        /\ \E over \in BOOLEAN :
             conn' = [conn EXCEPT ![P(w)].mutex = w, ![P(w)].timer_id = None,
                                  ![P(w)].closed = @ \/ over]
    BY <1>4 DEF Timer_lock
  <2>2. worker'[w].pc = "t_flush" /\ worker'[w].p = worker[w].p
    BY <1>1, <2>1 DEF Goto, WorkerRec
  <2>3. \A c \in Conns \ {P(w)} : conn'[c] = conn[c]
    BY <1>1, <2>1
  <2>4. /\ conn'[P(w)].flushed = conn[P(w)].flushed
        /\ conn'[P(w)].is_deleting = conn[P(w)].is_deleting
        /\ conn[P(w)].closed => conn'[P(w)].closed
        /\ conn'[P(w)].failed = conn[P(w)].failed
    BY <1>1, <2>1 DEF ConnRec
  <2>5. \A c \in Conns : Excused(c) => Excused(c)'
    BY <2>3, <2>4 DEF Excused
  <2> QED BY <1>1, <1>2, <2>2, <2>3, <2>5, StepsAlone DEF Keeper, P
<1> QED BY <1>3, <1>4

LEMMA TimerFinds ==
  ASSUME Typed, NEW w \in Workers, Timer_find(w)
  PROVE  /\ UNCHANGED <<entry, timers, conn>>
         /\ \/ entry = None
            \/ conn[entry].is_deleting
            \/ Keeper(w)' /\ P(w)' = entry
         /\ \A v \in Workers \ {w} : worker'[v] = worker[v]
<1>1. worker \in [Workers -> WorkerRec]
  BY DEF Typed, TypeOK, WorkerRec
<1>2. UNCHANGED <<entry, timers, conn>>
  BY DEF Timer_find
<1>3. CASE entry # None /\ ~conn[entry].is_deleting
  <2>1. worker' = [worker EXCEPT ![w] = [pc |-> "t_lock", p |-> entry]]
    BY <1>3 DEF Timer_find
  <2>2. worker'[w].pc = "t_lock" /\ worker'[w].p = entry
    BY <1>1, <2>1
  <2> QED BY <1>2, <2>2, StepsAlone DEF Keeper, P
<1> QED BY <1>2, <1>3, StepsAlone

(* A deletion removes the timer of the connection that it marks.           *)
LEMMA Deletes ==
  ASSUME Typed, NEW c \in Conns, Delete(c)
  PROVE  \/ UNCHANGED timers
         \/ timers' = timers \ {conn[c].timer_id} /\ conn'[c].is_deleting
<1>1. conn \in [Conns -> ConnRec]
  BY DEF Typed, TypeOK, ConnRec
<1> QED BY <1>1 DEF Delete, ConnRec

(* Every other step leaves the timers and the callbacks alone.             *)
LEMMA TimersFrame ==
  ASSUME Typed, Next,
         \A w \in Workers : /\ ~Loop_append(w) /\ ~Timer_append(w) /\ ~Loop_flush(w)
                            /\ ~Timer_flush(w) /\ ~Timer_find(w) /\ ~Timer_delete(w),
         \A t \in timers : ~Timer_fires(t),
         ~Stop_delete
  PROVE  UNCHANGED <<timers, cbs>>
<1>1. ASSUME NEW w \in Workers,
             \/ Loop_find(w) \/ Loop_check(w) \/ Loop_take(w) \/ Loop_lock(w) \/ Loop_serve(w)
             \/ Loop_exit(w) \/ Timer_lock(w) \/ Timer_closed(w) \/ Timer_erase(w)
      PROVE  UNCHANGED <<timers, cbs>>
  BY <1>1 DEF Loop_find, Loop_check, Loop_take, Loop_lock, Loop_serve, Loop_exit, Timer_lock,
              Timer_closed, Timer_erase
<1>2. ASSUME \/ Packet_known \/ Packet_new \/ Packet_append
             \/ Stop_pool \/ Stop_map \/ Stop_lock \/ Stop_erase \/ Stop_unlock
      PROVE  UNCHANGED <<timers, cbs>>
  BY <1>2 DEF Packet_known, Packet_new, Packet_append, Stop_pool, Stop_map, Stop_lock, Stop_erase,
              Stop_unlock
<1> QED BY <1>1, <1>2, NextActions

(* Only the callback clears timer_id, only a flush sets it.                *)
LEMMA TimerIdStays ==
  ASSUME Typed, Next,
         \A w \in Workers : ~Loop_append(w) /\ ~Timer_append(w) /\ ~Timer_lock(w)
  PROVE  \A c \in Conns : conn'[c].timer_id = conn[c].timer_id
<1> DEFINE Goal == \A c \in Conns : conn'[c].timer_id = conn[c].timer_id
<1>0. conn \in [Conns -> ConnRec]
  BY DEF Typed, TypeOK, ConnRec
<1>1. ASSUME QuietStep
      PROVE  Goal
  BY <1>1, QuietConns DEF SameConns
<1>2. ASSUME NEW c \in Conns,
             \/ conn' = [conn EXCEPT ![c].made = TRUE, ![c].is_responsing = TRUE]
             \/ conn' = [conn EXCEPT ![c].buffers = @ + 1]
             \/ conn' = [conn EXCEPT ![c].is_responsing = FALSE]
      PROVE  Goal
  BY <1>0, <1>2 DEF ConnRec
<1> HIDE DEF Goal
<1>3. Goal
  BY <1>1, <1>2, LoudConns
<1> QED BY <1>3 DEF Goal

LEMMA StepWoken ==
  ASSUME Typed, OwnTimer, Woken, Next
  PROVE  Woken'
<1>0. /\ entry \in Conns \cup {None} /\ cbs \in Nat
      /\ None \notin timers
      /\ conn \in [Conns -> ConnRec]
  <2>1. timers \subseteq 1 .. timer_no /\ entry \in Conns \cup {None} /\ cbs \in Nat
        /\ conn \in [Conns -> ConnRec]
    BY DEF Typed, TypeOK, ConnRec
  <2> QED BY <2>1 DEF None
<1>1. ASSUME NEW c \in Conns, entry = c, NEW d \in Conns \ {c}, conn[c].timer_id \in timers
      PROVE  conn[c].timer_id \in timers \ {conn[d].timer_id}
  BY <1>0, <1>1 DEF OwnTimer
<1>2. CASE Packet_new
  <2>1. PICK c \in Conns : /\ c = entry' /\ ~conn[c].made
                           /\ conn' = [conn EXCEPT ![c].made = TRUE, ![c].is_responsing = TRUE]
    BY <1>2 DEF Packet_new, Pass
  <2>2. ~conn[c].flushed
    BY <2>1 DEF Typed, Pointers
  <2>3. ~conn'[c].flushed
    BY <1>0, <2>1, <2>2 DEF ConnRec
  <2> QED BY <2>1, <2>3 DEF Woken, Excused
<1>3. ASSUME ~Packet_new
      PROVE  entry' = entry \/ entry' = None
  <2>1. CASE Packet_known \/ Packet_append
    BY <1>0, <2>1 DEF Packet_known, Packet_append
  <2>2. CASE ~Packet_known /\ ~Packet_append
    BY <1>0, <1>3, <2>2, WorkerFrame, EraseTypes
  <2> QED BY <2>1, <2>2
<1>14. refused => refused'
  BY RefusedStays
<1>4. ASSUME NEW w \in Workers, Loop_append(w) \/ Timer_append(w)
      PROVE  Woken'
  <2>1. UNCHANGED entry /\ P(w) \in Conns
    BY <1>4, FlushAppends
  <2>2. CASE P(w) = entry
    BY <1>4, <2>1, <2>2, FlushAppends DEF Woken
  <2>3. CASE P(w) # entry /\ entry # None
    <3>1. conn'[entry] = conn[entry] /\ timers \subseteq timers' /\ (cbs > 0 => cbs' > 0)
      <4>1. entry \in Conns \ {P(w)}
        BY <1>0, <2>3
      <4>2. timers \subseteq timers' /\ cbs' >= cbs /\ cbs \in Nat
            /\ \A c \in Conns \ {P(w)} : conn'[c] = conn[c]
        BY <1>4, FlushAppends
      <4>3. (cbs > 0 => cbs' > 0)
        <5>1. cbs' = cbs \/ cbs' = cbs + 1
          BY <1>4 DEF Loop_append, Timer_append, Flush_append
        <5> QED BY <1>0, <5>1
      <4> QED BY <4>1, <4>2, <4>3
    <3>2. \A v \in Workers : Keeper(v) /\ P(v) = entry => Keeper(v)' /\ P(v)' = entry
      BY <1>4, <2>3, FlushAppends DEF Keeper, P
    <3> QED BY <2>1, <2>3, <3>1, <3>2, <1>14 DEF Woken, Excused
  <2> QED BY <2>1, <2>2, <2>3 DEF Woken
<1>5. ASSUME NEW w \in Workers, Loop_flush(w) \/ Timer_flush(w)
      PROVE  Woken'
  <2>1. UNCHANGED <<entry, cbs>> /\ P(w) \in Conns
    BY <1>5, FlushRemoves
  <2>2. CASE P(w) = entry
    <3>1. CASE conn'[P(w)].closed \/ conn'[P(w)].failed
      BY <2>1, <2>2, <3>1 DEF Woken, Excused
    <3>2. CASE Keeper(w)' /\ P(w)' = P(w)
      BY <2>1, <2>2, <3>2 DEF Woken
    <3> QED BY <1>5, <3>1, <3>2, FlushRemoves
  <2>3. CASE P(w) # entry /\ entry # None
    <3>3. conn'[entry] = conn[entry]
      BY <1>0, <1>5, <2>1, <2>3, FlushRemoves
    <3>1. conn[entry].timer_id \in timers => conn'[entry].timer_id \in timers'
      BY <1>0, <1>1, <1>5, <2>1, <2>3, <3>3, FlushRemoves
    <3>2. \A v \in Workers : Keeper(v) /\ P(v) = entry => Keeper(v)' /\ P(v)' = entry
      BY <1>5, <2>3, FlushRemoves DEF Keeper, P
    <3> QED BY <2>1, <2>3, <3>1, <3>2, <3>3, <1>14 DEF Woken, Excused
  <2> QED BY <2>1, <2>2, <2>3 DEF Woken
<1>6. ASSUME NEW w \in Workers, Timer_lock(w)
      PROVE  Woken'
  <2>1. UNCHANGED <<entry, timers, cbs>> /\ P(w) \in Conns
    BY <1>6, TimerLocks
  <2>2. CASE P(w) = entry
    <3>1. Excused(entry)' \/ (Keeper(w)' /\ P(w)' = entry) \/ entry = None
      BY <1>6, <2>1, <2>2, TimerLocks DEF Excused
    <3> QED BY <2>1, <3>1, <1>14 DEF Woken, Excused
  <2>3. CASE P(w) # entry /\ entry # None
    <3>1. conn'[entry] = conn[entry]
      BY <1>0, <1>6, <2>1, <2>3, TimerLocks
    <3>2. \A v \in Workers : Keeper(v) /\ P(v) = entry => Keeper(v)' /\ P(v)' = entry
      BY <1>6, <2>3, TimerLocks DEF Keeper, P
    <3> QED BY <2>1, <2>3, <3>1, <3>2, <1>14 DEF Woken, Excused
  <2> QED BY <2>1, <2>2, <2>3 DEF Woken
<1>7. ASSUME NEW w \in Workers, Timer_find(w)
      PROVE  Woken'
  <2>1. UNCHANGED <<entry, timers, conn>>
    BY <1>7, TimerFinds
  <2>2. \A v \in Workers : Keeper(v) /\ P(v) = entry => Keeper(v)' /\ P(v)' = entry
    <3>1. ~Keeper(w)
      BY <1>7 DEF Timer_find, Keeper, At
    <3> QED BY <1>7, <3>1, TimerFinds DEF Keeper, P
  <2> QED BY <1>7, <1>14, <2>1, <2>2, TimerFinds DEF Woken, Excused
<1>8. ASSUME NEW c \in Conns, Delete(c), UNCHANGED <<entry, cbs>>,
             \A v \in Workers : Keeper(v) => Keeper(v)' /\ P(v)' = P(v),
             SameConns
      PROVE  Woken'
  <2>1. \A d \in Conns : (Excused(d) => Excused(d)') /\ conn'[d].timer_id = conn[d].timer_id
    BY <1>8 DEF SameConns, Excused
  <2>2. CASE entry = c
    BY <1>8, <1>14, <2>1, <2>2, Deletes DEF Woken, Excused
  <2>3. CASE entry # c /\ entry # None
    <3>1. conn[entry].timer_id \in timers => conn[entry].timer_id \in timers'
      BY <1>0, <1>1, <1>8, <2>3, Deletes
    <3> QED BY <1>0, <1>8, <1>14, <2>1, <2>3, <3>1 DEF Woken, Excused
  <2> QED BY <1>8, <2>2, <2>3 DEF Woken
<1>9. ASSUME NEW w \in Workers, Timer_delete(w)
      PROVE  Woken'
  <2>1. Delete(P(w)) /\ P(w) \in Conns /\ UNCHANGED <<entry, cbs>>
    BY <1>9 DEF Timer_delete, Typed, Pointers, At
  <2>2. \A v \in Workers : Keeper(v) => Keeper(v)' /\ P(v)' = P(v)
    <3>1. worker[w].pc = "t_delete" /\ worker' = [worker EXCEPT ![w].pc = "t_erase"]
      BY <1>9 DEF Timer_delete, At, Goto
    <3>2. \A v \in Workers \ {w} : worker'[v] = worker[v]
      BY <3>1 DEF Typed, TypeOK
    <3> QED BY <3>1, <3>2 DEF Keeper, P
  <2>3. SameConns
    BY <1>9, QuietConns DEF QuietStep
  <2> QED BY <1>8, <2>1, <2>2, <2>3
<1>10. CASE Stop_delete
  <2>1. Delete(entry) /\ entry \in Conns /\ UNCHANGED <<entry, cbs, worker>>
    BY <1>0, <1>10 DEF Stop_delete, Typed, Pointers
  <2>2. SameConns
    BY <1>10, QuietConns DEF QuietStep
  <2>3. \A v \in Workers : Keeper(v) => Keeper(v)' /\ P(v)' = P(v)
    BY <2>1 DEF Keeper, P
  <2> QED BY <1>8, <2>1, <2>2, <2>3
<1>11. ASSUME NEW t \in timers, Timer_fires(t)
       PROVE  Woken'
  <2>1. cbs' > 0 \/ refused'
    <3>1. Open => cbs' > 0
      BY <1>0, <1>11 DEF Timer_fires
    <3>2. ~Open => refused'
      BY <1>11, Zenon DEF Timer_fires
    <3> QED BY <3>1, <3>2
  <2> QED BY <2>1 DEF Woken
<1>12. CASE /\ ~Packet_new /\ ~Stop_delete
            /\ \A w \in Workers : /\ ~Loop_append(w) /\ ~Timer_append(w) /\ ~Loop_flush(w)
                                  /\ ~Timer_flush(w) /\ ~Timer_find(w) /\ ~Timer_delete(w)
                                  /\ ~Timer_lock(w)
            /\ \A t \in timers : ~Timer_fires(t)
  <2>1. UNCHANGED <<timers, cbs>>
    BY <1>12, TimersFrame
  <2>2. \A c \in Conns : (Excused(c) => Excused(c)') /\ conn'[c].timer_id = conn[c].timer_id
    BY <1>12, ExcusedStays, TimerIdStays
  <2>3. \A v \in Workers : Keeper(v) => Keeper(v)' /\ P(v)' = P(v)
    BY <1>12, KeepersStay
  <2>4. CASE entry' = entry /\ entry # None
    BY <1>0, <1>14, <2>1, <2>2, <2>3, <2>4 DEF Woken, Excused
  <2> QED BY <1>3, <1>12, <2>4 DEF Woken
<1> QED BY <1>2, <1>4, <1>5, <1>6, <1>7, <1>9, <1>10, <1>11, <1>12

-----------------------------------------------------------------------------
LEMMA Invariance ==
  Spec => []IInv
<1>1. Init => IInv
  BY InitTyped, InitGate, InitKept DEF IInv
<1>2. IInv /\ [Next]_vars => IInv'
  <2> SUFFICES ASSUME IInv, [Next]_vars
               PROVE  IInv'
    OBVIOUS
  <2>1. CASE Next
    <3>1. Typed /\ GateOpens /\ Single /\ OwnTimer /\ Woken
      BY DEF IInv, Gate, Kept
    <3>2. Typed' /\ GateOpens' /\ Single' /\ OwnTimer' /\ Woken'
      BY <2>1, <3>1, StepTyped, StepGateOpens, StepSingle, StepOwnTimer, StepWoken
    <3> QED BY <3>2 DEF IInv, Gate, Kept
  <2>2. CASE UNCHANGED vars
    BY <2>2 DEF vars, IInv, Typed, TypeOK, Pointers, Counts, Gate, GateOpens, Single, LoopKeepsConn,
                Looping, AnyLoop, Kept, OwnTimer, Woken, Excused, Keeper, At, P
  <2> QED BY <2>1, <2>2
<1> QED BY <1>1, <1>2, PTL DEF Spec

(* Every variable keeps its type; no step needs the contents of a          *)
(* connection that was never created.                                      *)
THEOREM TypeCorrect ==
  Spec => []TypeOK
<1>1. IInv => TypeOK
  BY DEF IInv, Typed
<1> QED BY <1>1, Invariance, PTL

(* A shut gate has somebody behind it who will open it: a task of          *)
(* udp_loop_event, a running loop, or the reader about to append one,      *)
(* until the closed task pool has refused a task.                          *)
THEOREM ShutGateIsManned ==
  Spec => []GateOpens
<1>1. IInv => GateOpens
  BY DEF IInv, Gate
<1> QED BY <1>1, Invariance, PTL

(* As long as no connection was erased under a loop, a loop and the reader *)
(* that is to start one use the connection that the map holds.             *)
THEOREM LoopsUseTheEntry ==
  Spec => []LoopKeepsConn
<1>1. IInv => LoopKeepsConn
  BY DEF IInv, Gate, Single, LoopKeepsConn
<1> QED BY <1>1, Invariance, PTL

(* As long as no connection was erased under a loop, is_responsing admits  *)
(* one loop at a time, due, running or about to be appended.               *)
THEOREM OneLoopAtATime ==
  Spec => []OneLoop
<1>1. IInv => OneLoop
  <2> SUFFICES ASSUME IInv, in_use = {}
               PROVE  loops + Cardinality({w \in Workers : worker[w].pc \in LoopPCs})
                        + (IF reader.first THEN 1 ELSE 0) <= 1
    BY DEF OneLoop
  <2> DEFINE L == {w \in Workers : worker[w].pc \in LoopPCs}
  <2>1. /\ loops \in Nat /\ loops <= 1
        /\ loops > 0 => ~reader.first /\ L = {}
        /\ reader.first => L = {}
        /\ \A v, w \in L : v = w
    BY ConnAssumption DEF IInv, Gate, Single, Typed, TypeOK, AnyLoop
  <2>2. Cardinality({}) = 0
    BY FS_EmptySet
  <2>3. CASE L = {}
    BY <2>1, <2>2, <2>3
  <2>4. CASE L # {}
    <3>1. PICK w : L = {w}
      BY <2>1, <2>4
    <3>2. Cardinality(L) = 1
      BY <3>1, FS_Singleton
    <3>3. loops = 0 /\ ~reader.first
      BY <2>1, <2>4
    <3> QED BY <3>2, <3>3
  <2> QED BY <2>3, <2>4
<1> QED BY <1>1, Invariance, PTL

(* A connection that was flushed and is neither closed nor being deleted   *)
(* will be woken: it has a timer, a callback or somebody about to flush.   *)
(* Excepted are one whose last flush failed, which arms nothing, and any   *)
(* after the closed task pool has refused a task.                          *)
THEOREM FlushedIsWoken ==
  Spec => []TimerKept
<1>1. IInv => TimerKept
  BY DEF IInv, Kept, Woken, Excused, Keeper, TimerKept, TimerPCs
<1> QED BY <1>1, Invariance, PTL
=============================================================================
