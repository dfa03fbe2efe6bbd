------------------------------ MODULE TaskPool ------------------------------
(***************************************************************************)
(* What a task pool promises the server: a submitted task is executed at   *)
(* most once per submission, by at most Width workers at a time; only a    *)
(* closed pool refuses; and once the pool is joined nothing of it runs.    *)
(* It does not promise that a submitted task is executed: see ThreadPool.  *)
(***************************************************************************)
EXTENDS Naturals, FiniteSets

CONSTANTS Tasks, Width

VARIABLES closed, joined, state

tpvars == <<closed, joined, state>>

States == {"fresh", "pending", "running", "done", "refused"}

Running == {t \in Tasks : state[t] = "running"}

Init ==
  /\ closed = FALSE
  /\ joined = FALSE
  /\ state = [t \in Tasks |-> "fresh"]

(* Hand in a new task, or one that asks to run again. *)
Submit(t) ==
  /\ state[t] \in {"fresh", "running"}
  /\ state' = [state EXCEPT ![t] = IF closed THEN "refused" ELSE "pending"]
  /\ UNCHANGED <<closed, joined>>

Begin(t) ==
  /\ ~joined
  /\ state[t] = "pending"
  /\ Cardinality(Running) < Width
  /\ state' = [state EXCEPT ![t] = "running"]
  /\ UNCHANGED <<closed, joined>>

End(t) ==
  /\ state[t] = "running"
  /\ state' = [state EXCEPT ![t] = "done"]
  /\ UNCHANGED <<closed, joined>>

Close ==
  /\ closed' = TRUE
  /\ UNCHANGED <<joined, state>>

Join ==
  /\ closed
  /\ Running = {}
  /\ joined' = TRUE
  /\ UNCHANGED <<closed, state>>

Next ==
  \/ \E t \in Tasks : Submit(t) \/ Begin(t) \/ End(t)
  \/ Close
  \/ Join

Spec == Init /\ [][Next]_tpvars
=============================================================================
