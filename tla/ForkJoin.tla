------------------------------ MODULE ForkJoin ------------------------------
(***************************************************************************)
(* What util::WorkerThreadPool promises to the algorithms that use it: the *)
(* owner submits one functor at a time, every thread of the pool runs it   *)
(* exactly once, and the owner goes on only when all of them have, with an *)
(* exception exactly if one of the runs threw.                             *)
(***************************************************************************)
EXTENDS Naturals, FiniteSets

CONSTANT Threads   \* the owner and the threads it created

VARIABLES
  state,    \* "idle", "running" a job, or "closed"
  job,      \* the number of the current or last job
  done,     \* the threads that have run it
  threwIn,  \* those of them whose run threw
  result    \* what the owner was told: "none", "ok" or "error"

Init ==
  /\ state = "idle" /\ job = 0 /\ done = {} /\ threwIn = {} /\ result = "none"

Begin ==
  /\ state = "idle"
  /\ state' = "running" /\ job' = job + 1 /\ done' = {} /\ threwIn' = {}
  /\ UNCHANGED result

Execute(t) ==
  /\ state = "running" /\ t \notin done
  /\ done' = done \cup {t}
  /\ threwIn' \in {threwIn, threwIn \cup {t}}
  /\ UNCHANGED <<state, job, result>>

End ==
  /\ state = "running" /\ done = Threads
  /\ state' = "idle"
  /\ result' = IF threwIn = {} THEN "ok" ELSE "error"
  /\ UNCHANGED <<job, done, threwIn>>

Close ==
  /\ state = "idle"
  /\ state' = "closed"
  /\ UNCHANGED <<job, done, threwIn, result>>

Next == Begin \/ (\E t \in Threads : Execute(t)) \/ End \/ Close

Spec == Init /\ [][Next]_<<state, job, done, threwIn, result>>
=============================================================================
