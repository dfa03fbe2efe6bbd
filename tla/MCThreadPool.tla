---------------------------- MODULE MCThreadPool ----------------------------
(* Small instances of ThreadPool for TLC. *)
EXTENDS ThreadPool, TLC

CONSTANTS w1, w2, c1, c2, s1, t1, t2, t3

(* Levels used by the server: 0 for timers and asynchronous calls, 1 for   *)
(* TCP connections, 2 for QUIC ones.  QueuedLevels keeps all in a queue    *)
(* when QueuesCount is 2, DetachedLevels sends t3 past the last queue.     *)
QueuedLevels   == (t1 :> 0) @@ (t2 :> 0) @@ (t3 :> 1)
TwoTasks       == (t1 :> 0) @@ (t2 :> 1)
DetachedLevels == (t1 :> 0) @@ (t2 :> 1) @@ (t3 :> 2)

WorkerSymmetry == Permutations({w1, w2}) \cup Permutations({c1, c2})
=============================================================================
