-------------------------- MODULE WorkerThreadPool --------------------------
(***************************************************************************)
(* util::WorkerThreadPool and the util::Barrier it is built on             *)
(* (src/src/core/util/worker_thread_pool.{h,cpp}, barrier.h).              *)
(*                                                                         *)
(* The thread that owns the pool (Main) hands one functor at a time to all *)
(* threads of the pool, takes part in running it, and then collects one    *)
(* future per thread.  A critical section is one step, except the one of   *)
(* Barrier::Arrive: it runs the completion callback, so it is split to let *)
(* the other threads be seen between its effects.  What the functor does   *)
(* is left open here: it returns or it throws.                             *)
(***************************************************************************)
EXTENDS Integers, FiniteSets

CONSTANTS
  Workers,        \* the threads the constructor creates
  Main,           \* the thread that owns the pool
  MaxJobs,        \* bound: how many functors the client submits
  SpawnMayFail    \* whether creating a thread may throw std::system_error

ASSUME PoolAssumption ==
  /\ IsFiniteSet(Workers)
  /\ Workers # {}                \* assert(thread_num > 1)
  /\ Main \notin Workers
  /\ "free" \notin Workers \cup {Main}
  /\ MaxJobs \in Nat
  /\ SpawnMayFail \in BOOLEAN

Threads   == Workers \cup {Main}
ThreadNum == Cardinality(Threads)

Free == "free"   \* an unlocked mutex
Null == 0        \* an empty std::function; the jobs are numbered from 1

VARIABLES
  pc,         \* where each thread is
  isWorking,  \* is_working_, guarded by working_mutex_
  work,       \* work_: Null or the number of the submitted job
  jobs,       \* how many jobs were submitted
  closing,    \* why work_ is reset: "no", by the "dtor", by the failed "ctor"
  count,      \* Barrier::count_
  phase,      \* Barrier::phase_
  mt,         \* the holder of Barrier::mt_, or Free
  arrivedAt,  \* per thread, the phase its last Arrive returned
  task,       \* per thread, the shared state of its packaged_task
  threw,      \* per thread, whether its last run of the functor threw
  collected,  \* the threads whose future main has waited for
  outcome     \* how the last Wait ended

clientVars  == <<work, jobs, closing>>
barrierVars == <<count, phase, mt, arrivedAt>>
futureVars  == <<task, threw, collected, outcome>>
poolVars    == <<pc, isWorking, clientVars, barrierVars, futureVars>>

(* resets: how often the task was reset, which identifies its shared state *)
TaskState == [resets : Nat, st : {"pending", "value", "error"},
              retrieved : BOOLEAN]

At(t, l)   == pc[t] = l
Goto(t, l) == pc' = [pc EXCEPT ![t] = l]
-----------------------------------------------------------------------------
(* The constructor creates one thread after the other.                     *)

PoolInit ==
  /\ pc = [t \in Threads |-> IF t = Main THEN "ctor" ELSE "uncreated"]
  /\ isWorking = FALSE
  /\ work = Null /\ jobs = 0 /\ closing = "no"
  /\ count = ThreadNum /\ phase = 0 /\ mt = Free
  /\ arrivedAt = [t \in Threads |-> 0]
  /\ task = [t \in Threads |-> [resets |-> 0, st |-> "pending",
                                retrieved |-> FALSE]]
  /\ threw = [t \in Threads |-> FALSE]
  /\ collected = {} /\ outcome = "none"

Uncreated == {w \in Workers : At(w, "uncreated")}

CreateThread(w) ==
  /\ At(Main, "ctor") /\ At(w, "uncreated")
  /\ Goto(w, "wwait")
  /\ UNCHANGED <<isWorking, clientVars, barrierVars, futureVars>>

ConstructorDone ==
  /\ At(Main, "ctor") /\ Uncreated = {}
  /\ Goto(Main, "ready")
  /\ UNCHANGED <<isWorking, clientVars, barrierVars, futureVars>>

(* catch (std::system_error&): Terminate() submits the empty functor.      *)
CreateThreadFails ==
  /\ SpawnMayFail
  /\ At(Main, "ctor") /\ Uncreated # {}
  /\ work' = Null /\ closing' = "ctor"
  /\ Goto(Main, "set")
  /\ UNCHANGED <<isWorking, jobs, barrierVars, futureVars>>
-----------------------------------------------------------------------------
(* SetWork: write work_ without a lock, raise is_working_ under            *)
(* working_mutex_, notify every sleeping worker.                           *)

Submit ==
  /\ At(Main, "ready") /\ jobs < MaxJobs
  /\ jobs' = jobs + 1 /\ work' = jobs + 1
  /\ Goto(Main, "set")
  /\ UNCHANGED <<isWorking, closing, barrierVars, futureVars>>

Destroy ==
  /\ At(Main, "ready")
  /\ work' = Null /\ closing' = "dtor"
  /\ Goto(Main, "set")
  /\ UNCHANGED <<isWorking, jobs, barrierVars, futureVars>>

RaiseWorking ==
  /\ At(Main, "set")
  /\ isWorking' = TRUE
  /\ Goto(Main, "notify")
  /\ UNCHANGED <<clientVars, barrierVars, futureVars>>

(* Wait() for a job, worker_threads_.clear() in the destructor, the rest   *)
(* of the catch block in the constructor.                                  *)
AfterSetWork ==
  CASE closing = "no"   -> "reset"
    [] closing = "dtor" -> "join"
    [] closing = "ctor" -> "abandon"

NotifyWorkers ==
  /\ At(Main, "notify")
  /\ pc' = [t \in Threads |-> IF t = Main THEN AfterSetWork
                              ELSE IF At(t, "wsleep") THEN "wwait"
                              ELSE pc[t]]
  /\ UNCHANGED <<isWorking, clientVars, barrierVars, futureVars>>

JoinWorkers ==
  /\ At(Main, "join")
  /\ \A w \in Workers : At(w, "exited")
  /\ Goto(Main, "gone")
  /\ UNCHANGED <<isWorking, clientVars, barrierVars, futureVars>>
-----------------------------------------------------------------------------
(* Work: a worker waits for is_working_ and leaves if work_ is empty.      *)

AwaitWork(w) ==
  /\ At(w, "wwait")
  /\ Goto(w, IF isWorking THEN "check" ELSE "wsleep")
  /\ UNCHANGED <<isWorking, clientVars, barrierVars, futureVars>>

(* Mutant: the empty functor is not recognised *)
BugCheckWork(w) ==
  /\ At(w, "check")
  /\ Goto(w, "reset")
  /\ UNCHANGED <<isWorking, clientVars, barrierVars, futureVars>>

CheckWork(w) ==
  /\ At(w, "check")
  /\ Goto(w, IF work = Null THEN "exited" ELSE "reset")
  /\ UNCHANGED <<isWorking, clientVars, barrierVars, futureVars>>

(* Mutant: no thread_task.reset() *)
BugResetTask(t) ==
  /\ At(t, "reset")
  /\ task' = [task EXCEPT ![t].resets = @ + 1]
  /\ Goto(t, "run")
  /\ UNCHANGED <<isWorking, clientVars, barrierVars, threw, collected, outcome>>

(* ResetAndWork: a fresh shared state, then DoWork runs the functor; both  *)
(* its ways out lead to ArriveAndWait.                                     *)
ResetTask(t) ==
  /\ At(t, "reset")
  /\ task' = [task EXCEPT ![t] = [resets |-> @.resets + 1, st |-> "pending",
                                  retrieved |-> FALSE]]
  /\ Goto(t, "run")
  /\ UNCHANGED <<isWorking, clientVars, barrierVars, threw, collected, outcome>>

RunWork(t, throws) ==
  /\ At(t, "run")
  /\ threw' = [threw EXCEPT ![t] = throws]
  /\ Goto(t, "arrive")
  /\ UNCHANGED <<isWorking, clientVars, barrierVars, task, collected, outcome>>
-----------------------------------------------------------------------------
(* Barrier::Arrive(n).  The last to arrive keeps mt_ while it runs the     *)
(* completion and opens the next phase.                                    *)

ArriveBy(t, n) ==
  /\ mt = Free
  /\ count' = count - n
  /\ IF count' = 0
     THEN mt' = t /\ Goto(t, "complete") /\ UNCHANGED arrivedAt
     ELSE /\ arrivedAt' = [arrivedAt EXCEPT ![t] = phase]
          /\ Goto(t, "bwait") /\ UNCHANGED mt
  /\ UNCHANGED <<isWorking, clientVars, phase, futureVars>>

Arrive(t) == At(t, "arrive") /\ ArriveBy(t, 1)

(* barrier_.Arrive(++thread_num) in the constructor's catch block          *)
Abandon == At(Main, "abandon") /\ ArriveBy(Main, Cardinality(Uncreated))

(* Mutant: the completion does not lower is_working_ *)
BugComplete(t) ==
  /\ At(t, "complete")
  /\ Goto(t, "release")
  /\ UNCHANGED <<isWorking, clientVars, barrierVars, futureVars>>

Complete(t) ==
  /\ At(t, "complete")
  /\ isWorking' = FALSE
  /\ Goto(t, "release")
  /\ UNCHANGED <<clientVars, barrierVars, futureVars>>

(* Mutant: the next phase starts with the old count_ *)
BugOpenPhase(t) ==
  /\ At(t, "release")
  /\ phase' = phase + 1
  /\ arrivedAt' = [arrivedAt EXCEPT ![t] = phase]
  /\ mt' = Free
  /\ Goto(t, "bnotify")
  /\ UNCHANGED <<isWorking, count, clientVars, futureVars>>

OpenPhase(t) ==
  /\ At(t, "release")
  /\ count' = ThreadNum
  /\ phase' = phase + 1
  /\ arrivedAt' = [arrivedAt EXCEPT ![t] = phase]
  /\ mt' = Free
  /\ Goto(t, "bnotify")
  /\ UNCHANGED <<isWorking, clientVars, futureVars>>

NotifyPhase(t) ==
  /\ At(t, "bnotify")
  /\ pc' = [u \in Threads |-> IF u = t \/ At(u, "bsleep") THEN "bwait"
                              ELSE pc[u]]
  /\ UNCHANGED <<isWorking, clientVars, barrierVars, futureVars>>

(* Mutant: Wait does not wait *)
BugAwaitPhase(t) ==
  /\ At(t, "bwait") /\ mt = Free
  /\ Goto(t, "finish")
  /\ UNCHANGED <<isWorking, clientVars, barrierVars, futureVars>>

(* Barrier::Wait(phase)                                                    *)
AwaitPhase(t) ==
  /\ At(t, "bwait") /\ mt = Free
  /\ Goto(t, IF phase = arrivedAt[t] THEN "bsleep"
             ELSE IF t = Main /\ closing = "ctor" THEN "failed"
             ELSE "finish")
  /\ UNCHANGED <<isWorking, clientVars, barrierVars, futureVars>>

(* Both condition variables may wake a waiter for no reason.               *)
SpuriousWakeup(t) ==
  /\ pc[t] \in {"wsleep", "bsleep"}
  /\ Goto(t, IF At(t, "wsleep") THEN "wwait" ELSE "bwait")
  /\ UNCHANGED <<isWorking, clientVars, barrierVars, futureVars>>

-----------------------------------------------------------------------------
(* DoWork ends and its packaged_task becomes ready; a worker goes back to  *)
(* waiting, Main collects the futures.                                     *)
FinishTask(t) ==
  /\ At(t, "finish")
  /\ task' = [task EXCEPT ![t].st = IF threw[t] THEN "error" ELSE "value"]
  /\ collected' = IF t = Main THEN {} ELSE collected
  /\ Goto(t, IF t = Main THEN "collect" ELSE "wwait")
  /\ UNCHANGED <<isWorking, clientVars, barrierVars, threw, outcome>>

(* task.get_future().get() for the next task of tasks_: main's own first,  *)
(* then the workers' in the order of their creation, which is arbitrary.   *)
(* get() rethrows an error, and get_future() throws if it was called on    *)
(* this shared state before.                                               *)
Collect(t) ==
  /\ At(Main, "collect") /\ t \notin collected
  /\ t = Main \/ Main \in collected
  /\ task[t].retrieved \/ task[t].st # "pending"
  /\ task' = [task EXCEPT ![t].retrieved = TRUE]
  /\ collected' = collected \cup {t}
  /\ outcome' = IF task[t].retrieved THEN "future_error"
                ELSE IF task[t].st = "error" THEN "error"
                ELSE IF collected' = Threads THEN "ok" ELSE outcome
  /\ Goto(Main, IF task[t].retrieved \/ task[t].st = "error"
                    \/ collected' = Threads
                THEN "ready" ELSE "collect")
  /\ UNCHANGED <<isWorking, clientVars, barrierVars, threw>>

PoolEnded ==
  /\ pc[Main] \in {"gone", "failed"}
  /\ UNCHANGED poolVars
-----------------------------------------------------------------------------
(* What each thread does by itself, the functor apart.                     *)

Construct == (\E w \in Workers : CreateThread(w)) \/ ConstructorDone

OwnerStep ==
  \/ Construct \/ CreateThreadFails
  \/ RaiseWorking \/ NotifyWorkers \/ JoinWorkers \/ Abandon
  \/ \E t \in Threads : Collect(t)

WorkerStep(w) == AwaitWork(w) \/ CheckWork(w)

SharedStep(t) ==
  \/ ResetTask(t) \/ Arrive(t) \/ Complete(t) \/ OpenPhase(t)
  \/ NotifyPhase(t) \/ AwaitPhase(t) \/ FinishTask(t)

PoolStep ==
  \/ OwnerStep \/ PoolEnded
  \/ \E w \in Workers : WorkerStep(w)
  \/ \E t \in Threads : SharedStep(t) \/ SpuriousWakeup(t)

Run(t) == \E throws \in BOOLEAN : RunWork(t, throws)

Next == Submit \/ Destroy \/ PoolStep \/ \E t \in Threads : Run(t)

(* A thread that can take a step takes it sooner or later, and the functor *)
(* terminates.  Nothing is assumed of the client, of spurious wakeups and  *)
(* of thread creation failing.  Weak fairness is enough even for taking    *)
(* mt_: only the last to arrive holds it over several steps, and it does   *)
(* so once per phase.                                                      *)
OwnerProgress ==
  \/ Construct \/ RaiseWorking \/ NotifyWorkers \/ JoinWorkers \/ Abandon
  \/ \E t \in Threads : Collect(t)

PoolFairness ==
  /\ WF_poolVars(OwnerProgress)
  /\ \A w \in Workers : WF_poolVars(WorkerStep(w))
  /\ \A t \in Threads : WF_poolVars(SharedStep(t))

Fairness == PoolFairness /\ \A t \in Threads : WF_poolVars(Run(t))

Spec     == PoolInit /\ [][Next]_poolVars
FairSpec == Spec /\ Fairness
-----------------------------------------------------------------------------
(* Properties.                                                             *)

Points == {"ctor", "ready", "set", "notify", "join", "gone", "abandon",
           "failed", "collect", "uncreated", "wwait", "wsleep", "check",
           "exited", "reset", "run", "arrive", "complete", "release",
           "bnotify", "bwait", "bsleep", "finish"}

(* Every variable of the pool has its type.                                *)
TypeOK ==
  /\ pc \in [Threads -> Points]
  /\ isWorking \in BOOLEAN
  /\ work \in Nat /\ jobs \in Nat /\ closing \in {"no", "dtor", "ctor"}
  /\ count \in Nat /\ phase \in Nat /\ mt \in Threads \cup {Free}
  /\ arrivedAt \in [Threads -> Nat]
  /\ task \in [Threads -> TaskState]
  /\ threw \in [Threads -> BOOLEAN]
  /\ collected \subseteq Threads
  /\ outcome \in {"none", "ok", "error", "future_error"}

(* The points where a worker uses work_, or its task's shared state, with  *)
(* no lock held.                                                           *)
Engaged(t) == pc[t] \in {"check", "reset", "run", "arrive"}

(* "Previous tasks must be finished before calling this": while the owner  *)
(* is outside Wait, or collects, no worker is between seeing is_working_   *)
(* and arriving at the barrier.  Main may then write work_ unlocked, the   *)
(* references the functor captured may go out of scope, and get_future     *)
(* does not race with a reset of the same task.                            *)
NoStrayWork ==
  pc[Main] \in {"ctor", "ready", "set", "finish", "collect"}
    => /\ ~isWorking
       /\ \A w \in Workers : ~Engaged(w)

(* DESBORDANTE_ASSUME(pool.work_): whoever runs the functor has one, and   *)
(* it is the job submitted last.                                           *)
RunsCurrentJob ==
  \A t \in Threads : pc[t] \in {"reset", "run"} => work = jobs /\ work # Null

(* Between two jobs every thread has run each of the submitted jobs once:  *)
(* none was skipped by a thread that slept through it, none was run twice  *)
(* by a worker that came round before is_working_ was lowered.             *)
EachThreadRanEachJob ==
  At(Main, "ready") => \A t \in Threads : task[t].resets = jobs

(* Wait returns normally exactly if no thread's functor threw, and never   *)
(* with a std::future_error, although an error makes it leave the futures  *)
(* of the remaining tasks unretrieved.                                     *)
ErrorsAreReported ==
  At(Main, "ready") /\ jobs > 0
    => outcome = IF \E t \in Threads : threw[t] THEN "error" ELSE "ok"

(* Who has arrived in the current phase; a failed constructor arrives on   *)
(* behalf of the threads it could not create.                              *)
HasArrived(t) ==
  IF closing = "ctor"
  THEN At(t, "uncreated") /\ pc[Main] \notin {"set", "notify", "abandon"}
  ELSE \/ pc[t] \in {"complete", "release"}
       \/ pc[t] \in {"bwait", "bsleep"} /\ arrivedAt[t] = phase

Arrived == {t \in Threads : HasArrived(t)}

(* A thread that waits at the barrier is at most one phase behind, so      *)
(* phase_ != phase cannot mistake a later phase for its own; and count_ is *)
(* what the threads that have not arrived will subtract.                   *)
BarrierIsConsistent ==
  /\ \A t \in Threads : pc[t] \in {"bwait", "bsleep"}
       => phase - arrivedAt[t] \in {0, 1}
  /\ count = ThreadNum - Cardinality(Arrived)

(* Why the others hold: what is inductive.                                 *)
JobOpen == isWorking \/ At(Main, "set")

HasReset(t) == pc[t] \in {"run", "arrive"} \/ HasArrived(t)

MutexInv ==
  /\ \A t \in Threads : mt = t <=> pc[t] \in {"complete", "release"}
  /\ mt # Free <=> count = 0
  /\ \A t \in Threads : At(t, "bnotify") => phase - arrivedAt[t] = 1

WorkInv ==
  closing = "no" =>
    /\ work = jobs
    /\ JobOpen => jobs > 0
    /\ IF At(Main, "ctor")
       THEN /\ jobs = 0 /\ phase = 0
            /\ \A w \in Workers : pc[w] \in {"uncreated", "wwait", "wsleep"}
       ELSE Uncreated = {}
    /\ pc[Main] \notin {"join", "gone", "abandon", "failed"}
    /\ \A w \in Workers : ~At(w, "exited")
    /\ isWorking =>
         /\ \/ pc[Main] \in {"notify", "reset", "run", "arrive", "complete"}
            \/ pc[Main] \in {"bwait", "bsleep"} /\ arrivedAt[Main] = phase
         /\ \A t \in Threads : ~At(t, "release")
    /\ ~isWorking =>
         /\ pc[Main] # "notify"
         /\ \A t \in Threads :
              ~Engaged(t) /\ pc[t] # "complete" /\ (HasArrived(t) => mt # Free)

RanInv ==
  closing = "no" =>
    \A t \in Threads :
      task[t].resets = IF JobOpen /\ ~HasReset(t) THEN jobs - 1 ELSE jobs

ClosingInv ==
  closing # "no" =>
    /\ work = Null
    /\ \A t \in Threads :
         pc[t] \notin {"reset", "run", "arrive", "complete", "release"}
    /\ closing = "dtor" => pc[Main] \in {"set", "notify", "join", "gone"}
    /\ closing = "ctor" =>
         /\ Uncreated # {} /\ phase = 0 /\ jobs = 0
         /\ pc[Main] \in {"set", "notify", "abandon", "bwait", "bsleep"}
         /\ pc[Main] \in {"bwait", "bsleep"} => arrivedAt[Main] = 0
         /\ \A w \in Workers :
              pc[w] \in {"uncreated", "wwait", "wsleep", "check", "exited"}
    /\ At(Main, "set") =>
         /\ ~isWorking
         /\ \A w \in Workers : pc[w] \notin {"check", "exited"}

PoolInv == BarrierIsConsistent /\ MutexInv /\ WorkInv /\ RanInv /\ ClosingInv

(* Why ErrorsAreReported holds: a shared state is pending and unretrieved  *)
(* until its thread has left the barrier, although the owner may be a job  *)
(* ahead by then; and while the owner waits and collects, none is          *)
(* retrieved that it has not collected, and all it has collected are       *)
(* values.                                                                 *)
InJob(t) ==
  pc[t] \in {"run", "arrive", "complete", "release", "bnotify", "bwait", "bsleep",
            "finish"}

Verdict(t) == IF threw[t] THEN "error" ELSE "value"

TaskInv ==
  closing = "no" =>
    /\ pc[Main] \notin {"ctor", "ready"} => jobs > 0
    /\ \A t \in Threads :
         /\ InJob(t) => task[t].st = "pending" /\ ~task[t].retrieved
         /\ ~InJob(t) /\ ~JobOpen /\ jobs > 0 => task[t].st = Verdict(t)
         /\ ~JobOpen /\ pc[Main] \notin {"ctor", "ready"} /\ task[t].retrieved
              => At(Main, "collect") /\ t \in collected
         /\ At(Main, "collect") /\ t \in collected => task[t].st = "value"
    /\ ErrorsAreReported

(* The pool implements ForkJoin.                                           *)
Executed(t) ==
  jobs > 0 /\ task[t].resets = jobs /\ pc[t] \notin {"reset", "run"}

OwnerState ==
  IF closing # "no" THEN "closed"
  ELSE IF pc[Main] \in {"ctor", "ready"} THEN "idle" ELSE "running"

DoneBy  == {t \in Threads : Executed(t)}
ThrewIn == {t \in Threads : Executed(t) /\ threw[t]}

Pool == INSTANCE ForkJoin WITH
  state <- OwnerState, job <- jobs, done <- DoneBy, threwIn <- ThrewIn, result <- outcome

ImplementsForkJoin == Pool!Spec

(* Every submitted job ends: no thread misses the notification of the job  *)
(* or of the next barrier phase.                                           *)
EveryJobEnds == At(Main, "set") /\ closing = "no" ~> At(Main, "ready")

(* The destructor returns.                                                 *)
DestructorEnds == At(Main, "set") /\ closing = "dtor" ~> At(Main, "gone")

(* When the constructor fails the threads it created all leave Work.       *)
CreatedWorkersLeave ==
  closing = "ctor"
    ~> \A w \in Workers : pc[w] \in {"exited", "uncreated"}

(* catch (std::system_error&) { ...; throw; }: if a thread cannot be       *)
(* created the constructor ends by rethrowing.                             *)
ConstructorRethrows == closing = "ctor" ~> At(Main, "failed")
=============================================================================
