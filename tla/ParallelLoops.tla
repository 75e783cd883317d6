---------------------------- MODULE ParallelLoops ---------------------------
(***************************************************************************)
(* The loops whose rounds are shared out to threads.                       *)
(*                                                                         *)
(* The jobs of util::WorkerThreadPool (src/src/core/util/                  *)
(* worker_thread_pool.h): ExecIndexWithResource, in which the threads draw *)
(* indices from one counter until there are none left and hand in what     *)
(* they have gathered, and SubmitSingleTask, in which one of them runs the *)
(* task.  The pool itself is what ForkJoin promises: every thread executes *)
(* the job's functor once, and the job ends when all have.                 *)
(*                                                                         *)
(* util::ParallelForeach (src/src/core/util/parallel_for.h): the range is  *)
(* cut into as many parts as there are threads, each thread but the caller *)
(* takes one, the caller takes what is left, which is everything that is   *)
(* not yet given away when a thread cannot be created.  An exception of f  *)
(* ends the process and is not modelled.                                   *)
(***************************************************************************)
EXTENDS ForkJoin, Integers, Sequences, FiniteSetTheorems, SequenceTheorems, TLAPS

CONSTANTS
  MaxSize,     \* bound: size, of an index job
  MaxJobs,     \* bound: jobs
  IndexLimit   \* the values of model::Index are 0 .. IndexLimit - 1

VARIABLES
  single,      \* whether the job is a single task, of size 1
  size,        \* of the job
  index,       \* the shared counter
  at,          \* where each thread is in the functor
  drawn,       \* i, the index each thread has drawn
  resource,    \* what each thread has gathered: the indices it worked on
  handed_in,   \* the resources that finish was called with
  once         \* call_once: "unset", the thread that is in it, or "done"
jobVars == <<single, size, index, at, drawn, resource, handed_in, once>>
poolJobsVars == <<state, job, done, threwIn, result, jobVars>>

(* DESBORDANTE_ASSUME(size + ThreadNum() <= max): the threads draw once    *)
(* more each than there are indices.                                       *)
Sizes == {s \in 0 .. MaxSize : s + Cardinality(Threads) <= IndexLimit - 1}

JobsInit ==
  /\ Init
  /\ single = FALSE /\ size = 0 /\ index = 0 /\ at = [t \in Threads |-> "out"]
  /\ drawn = [t \in Threads |-> 0] /\ resource = [t \in Threads |-> {}]
  /\ handed_in = {} /\ once = "unset"

SetWorkOf(is_single, s) ==
  /\ Begin /\ job < MaxJobs
  /\ single' = is_single /\ size' = s /\ index' = 0 /\ at' = [t \in Threads |-> "start"]
  /\ handed_in' = {} /\ once' = "unset"
  /\ UNCHANGED <<drawn, resource>>

(* The functor of t ends, by returning or by throwing.                     *)
Leave(t, throws) ==
  /\ Execute(t)
  /\ threwIn' = IF throws THEN threwIn \cup {t} ELSE threwIn
  /\ at' = [at EXCEPT ![t] = "out"]

(* auto resource = acquire_resource()                                      *)
AcquireResource(t) ==
  /\ state = "running" /\ ~single /\ at[t] = "start"
  /\ resource' = [resource EXCEPT ![t] = {}]
  /\ at' = [at EXCEPT ![t] = "draw"]
  /\ UNCHANGED <<state, job, done, threwIn, result, single, size, index, drawn, handed_in, once>>

(* A fault: the counter is read and then written.                          *)
BugDrawIndex(t) ==
  /\ at[t] = "draw"
  /\ drawn' = [drawn EXCEPT ![t] = index] /\ index' \in {index, (index + 1) % IndexLimit}
  /\ at' = [at EXCEPT ![t] = IF index < size THEN "work" ELSE "finish"]
  /\ UNCHANGED <<state, job, done, threwIn, result, single, size, resource, handed_in, once>>

(* (i = index.fetch_add(1)) < size                                         *)
DrawIndex(t) ==
  /\ at[t] = "draw"
  /\ drawn' = [drawn EXCEPT ![t] = index] /\ index' = (index + 1) % IndexLimit
  /\ at' = [at EXCEPT ![t] = IF index < size THEN "work" ELSE "finish"]
  /\ UNCHANGED <<state, job, done, threwIn, result, single, size, resource, handed_in, once>>

(* do_work(i, resource).  If it throws, the thread's resource is lost.     *)
DoWork(t) ==
  /\ at[t] = "work"
  /\ resource' = [resource EXCEPT ![t] = @ \cup {drawn[t]}]
  /\ at' = [at EXCEPT ![t] = "draw"]
  /\ UNCHANGED <<state, job, done, threwIn, result, single, size, index, drawn, handed_in, once>>
DoWorkThrows(t) ==
  /\ at[t] = "work" /\ Leave(t, TRUE)
  /\ UNCHANGED <<single, size, index, drawn, resource, handed_in, once>>

(* finish(std::move(resource))                                             *)
HandIn(t) ==
  /\ at[t] = "finish" /\ Leave(t, FALSE)
  /\ handed_in' = handed_in \cup {<<t, resource[t]>>}
  /\ UNCHANGED <<single, size, index, drawn, resource, once>>

(* std::call_once: one thread runs the task, the others wait for it; if it *)
(* throws, the flag stays unset and the next one runs it again.            *)
EnterOnce(t) ==
  /\ state = "running" /\ single /\ at[t] = "start" /\ once = "unset"
  /\ once' = t /\ at' = [at EXCEPT ![t] = "task"]
  /\ UNCHANGED <<state, job, done, threwIn, result, single, size, index, drawn, resource, handed_in>>
TaskReturns(t) ==
  /\ at[t] = "task" /\ Leave(t, FALSE)
  /\ once' = "done" /\ handed_in' = handed_in \cup {<<t, {0}>>}
  /\ UNCHANGED <<single, size, index, drawn, resource>>
TaskThrows(t) ==
  /\ at[t] = "task" /\ Leave(t, TRUE)
  /\ once' = "unset"
  /\ UNCHANGED <<single, size, index, drawn, resource, handed_in>>
PassOnce(t) ==
  /\ single /\ at[t] = "start" /\ once = "done"
  /\ Leave(t, FALSE)
  /\ UNCHANGED <<single, size, index, drawn, resource, handed_in, once>>

(* pool_.Wait(): handed on to the owner, or swallowed by ~Waiter.          *)
WaitForJob == End /\ UNCHANGED jobVars
CloseJobs == Close /\ UNCHANGED jobVars
JobsEnded == state = "closed" /\ UNCHANGED poolJobsVars

ThreadStep(t) ==
  \/ AcquireResource(t) \/ DrawIndex(t) \/ DoWork(t) \/ DoWorkThrows(t) \/ HandIn(t)
  \/ EnterOnce(t) \/ TaskReturns(t) \/ TaskThrows(t) \/ PassOnce(t)
JobsNext ==
  \/ SetWorkOf(TRUE, 1) \/ (\E s \in Sizes : SetWorkOf(FALSE, s)) \/ WaitForJob \/ CloseJobs \/ JobsEnded
  \/ \E t \in Threads : ThreadStep(t)

JobsFairness ==
  /\ WF_poolJobsVars(WaitForJob)
  /\ \A t \in Threads : WF_poolJobsVars(ThreadStep(t))
-----------------------------------------------------------------------------
(* No index is worked on by two threads, and a job that ends without an    *)
(* error has handed in the work of every index, or has run its task: while *)
(* it runs, what one thread lost is not reported as done by the others.    *)
JobIsWhole ==
  /\ \A x, y \in handed_in : x # y => x[2] \cap y[2] = {}
  /\ state = "idle" /\ result = "ok" => UNION {x[2] : x \in handed_in} = 0 .. size - 1
-----------------------------------------------------------------------------
(* Why it holds, for any pool.  The flag of call_once is not a thread, and *)
(* the bounds are numbers.                                                 *)
JobsAssumption ==
  /\ IsFiniteSet(Threads) /\ Threads # {} /\ "unset" \notin Threads /\ "done" \notin Threads
  /\ IndexLimit \in Nat \ {0} /\ MaxSize \in Nat

JobsSpec == JobsInit /\ [][JobsNext]_poolJobsVars

Places == {"out", "start", "draw", "work", "finish", "task"}
JobsTypeOK ==
  /\ state \in {"idle", "running", "closed"} /\ single \in BOOLEAN /\ job \in Nat
  /\ done \in SUBSET Threads /\ threwIn \in SUBSET done
  /\ size \in Nat /\ index \in Nat
  /\ at \in [Threads -> Places] /\ drawn \in [Threads -> Nat] /\ resource \in [Threads -> SUBSET Nat]
  /\ once \in Threads \cup {"unset", "done"}

(* A thread is in the functor of the job that runs until it has executed   *)
(* it, and the owner is told what became of all of them.                   *)
InFunctor ==
  /\ state = "running" => \A t \in Threads : at[t] = "out" <=> t \in done
  /\ state # "running" => at = [t \in Threads |-> "out"]
  /\ state = "idle" /\ result = "ok" => done = Threads /\ threwIn = {}

(* The indices that t has drawn in this job and not lost.                  *)
Has(t) ==
  (IF at[t] = "start" THEN {} ELSE resource[t]) \cup (IF at[t] = "work" THEN {drawn[t]} ELSE {})
(* The threads that will not draw again: each went past size once.         *)
Past == {t \in Threads : at[t] \in {"out", "finish"}}

IndexJob ==
  /\ \A t \in Threads : at[t] # "task" /\ Has(t) \subseteq 0 .. size - 1 /\ \A i \in Has(t) : i < index
  /\ \A t, u \in Threads : t # u => Has(t) \cap Has(u) = {}
  /\ threwIn = {} => \A i \in 0 .. size - 1 : i < index => \E t \in Threads : i \in Has(t)
  /\ state = "running" =>
       /\ size + Cardinality(Threads) < IndexLimit
       /\ index <= size + Cardinality(Past)
  /\ \A t \in Threads : at[t] = "finish" \/ t \in done \ threwIn => size <= index
  /\ handed_in = {<<t, resource[t]>> : t \in done \ threwIn}

SingleTask ==
  /\ size = 1
  /\ \A t \in Threads : at[t] \in {"start", "task", "out"} /\ (at[t] = "task" => once = t)
  /\ once # "done" => handed_in = {} /\ done \subseteq threwIn
  /\ once = "done" => \E t \in Threads : handed_in = {<<t, {0}>>}

JobsInv == JobsTypeOK /\ InFunctor /\ IF single THEN SingleTask ELSE IndexJob

(* The types: each thread is somewhere in the functor.                     *)
LEMMA JobsTypeKept == JobsAssumption /\ JobsTypeOK /\ [JobsNext]_poolJobsVars => JobsTypeOK'
<1> SUFFICES ASSUME JobsAssumption, JobsTypeOK, [JobsNext]_poolJobsVars PROVE JobsTypeOK'
  OBVIOUS
<1> USE DEF JobsTypeOK, Places
<1>1. ASSUME NEW t \in Threads, Leave(t, TRUE) \/ Leave(t, FALSE)
      PROVE  /\ state' = state /\ job' = job /\ done' \in SUBSET Threads /\ threwIn' \in SUBSET done'
             /\ at' \in [Threads -> Places]
  BY <1>1 DEF Leave, Execute
<1>2. ASSUME NEW is_single \in BOOLEAN, NEW s \in Nat, SetWorkOf(is_single, s) PROVE JobsTypeOK'
  BY <1>2 DEF SetWorkOf, Begin
<1>3. SetWorkOf(TRUE, 1) => JobsTypeOK'
  BY <1>2
<1>4. ASSUME NEW s \in Sizes, SetWorkOf(FALSE, s) PROVE JobsTypeOK'
  <2>1. s \in Nat
    BY DEF Sizes, JobsAssumption
  <2> QED BY <1>2, <1>4, <2>1
<1>5. CASE WaitForJob \/ CloseJobs \/ JobsEnded \/ UNCHANGED poolJobsVars
  BY <1>5 DEF WaitForJob, CloseJobs, JobsEnded, End, Close, jobVars, poolJobsVars
<1>6. ASSUME NEW t \in Threads, ThreadStep(t) PROVE JobsTypeOK'
  <2>1. CASE AcquireResource(t)
    BY <2>1 DEF AcquireResource
  <2>2. CASE DrawIndex(t)
    <3>1. (index + 1) % IndexLimit \in Nat
      BY DEF JobsAssumption
    <3> QED BY <2>2, <3>1 DEF DrawIndex
  <2>3. CASE DoWork(t)
    BY <2>3 DEF DoWork
  <2>4. CASE DoWorkThrows(t)
    BY <1>1, <2>4 DEF DoWorkThrows
  <2>5. CASE HandIn(t)
    BY <1>1, <2>5 DEF HandIn
  <2>6. CASE EnterOnce(t)
    BY <2>6 DEF EnterOnce
  <2>7. CASE TaskReturns(t)
    BY <1>1, <2>7 DEF TaskReturns
  <2>8. CASE TaskThrows(t)
    BY <1>1, <2>8 DEF TaskThrows
  <2>9. CASE PassOnce(t)
    BY <1>1, <2>9 DEF PassOnce
  <2> QED BY <1>6, <2>1, <2>2, <2>3, <2>4, <2>5, <2>6, <2>7, <2>8, <2>9 DEF ThreadStep
<1> QED BY <1>3, <1>4, <1>5, <1>6 DEF JobsNext

(* A thread leaves the functor when it has executed it, not before.        *)
LEMMA InFunctorKept ==
  JobsAssumption /\ JobsTypeOK /\ InFunctor /\ [JobsNext]_poolJobsVars => InFunctor'
<1> SUFFICES ASSUME JobsTypeOK, InFunctor, [JobsNext]_poolJobsVars PROVE InFunctor'
  OBVIOUS
<1> USE DEF JobsTypeOK, Places, InFunctor
<1>1. ASSUME NEW t \in Threads, Leave(t, TRUE) \/ Leave(t, FALSE)
      PROVE  InFunctor'
  BY <1>1 DEF Leave, Execute
<1>2. ASSUME NEW is_single, NEW s, SetWorkOf(is_single, s) PROVE InFunctor'
  BY <1>2 DEF SetWorkOf, Begin
<1>5. CASE WaitForJob \/ CloseJobs \/ JobsEnded \/ UNCHANGED poolJobsVars
  <2>1. CASE WaitForJob
    <3>1. /\ state = "running" /\ done = Threads /\ state' = "idle" /\ UNCHANGED <<at, done, threwIn>>
          /\ result' = IF threwIn = {} THEN "ok" ELSE "error"
      BY <2>1 DEF WaitForJob, End, jobVars
    <3>2. at = [t \in Threads |-> "out"]
      BY <3>1
    <3> QED BY <3>1, <3>2
  <2>2. CASE CloseJobs
    BY <2>2 DEF CloseJobs, Close, jobVars
  <2>3. CASE JobsEnded \/ UNCHANGED poolJobsVars
    BY <2>3 DEF JobsEnded, poolJobsVars, jobVars
  <2> QED BY <1>5, <2>1, <2>2, <2>3
<1>6. ASSUME NEW t \in Threads, ThreadStep(t) PROVE InFunctor'
  <2>1. CASE \/ AcquireResource(t) \/ DrawIndex(t) \/ DoWork(t) \/ EnterOnce(t)
    <3>1. /\ at[t] # "out" /\ UNCHANGED <<state, done, threwIn, result>>
          /\ \E x \in Places \ {"out"} : at' = [at EXCEPT ![t] = x]
      BY <2>1 DEF AcquireResource, DrawIndex, DoWork, EnterOnce
    <3>2. state = "running" /\ t \notin done
      BY <3>1
    <3> QED BY <3>1, <3>2
  <2>2. CASE DoWorkThrows(t) \/ HandIn(t) \/ TaskReturns(t) \/ TaskThrows(t) \/ PassOnce(t)
    BY <1>1, <2>2 DEF DoWorkThrows, HandIn, TaskReturns, TaskThrows, PassOnce
  <2> QED BY <1>6, <2>1, <2>2 DEF ThreadStep
<1> QED BY <1>2, <1>5, <1>6 DEF JobsNext

(* A task that returns is run by one thread, and the others pass by.       *)
LEMMA SingleTaskKept ==
  JobsAssumption /\ JobsInv /\ single' /\ [JobsNext]_poolJobsVars => SingleTask'
<1> SUFFICES ASSUME JobsAssumption, JobsInv, single', [JobsNext]_poolJobsVars PROVE SingleTask'
  OBVIOUS
<1>0. JobsTypeOK /\ InFunctor /\ (single' = single => SingleTask)
  BY DEF JobsInv
<1>4. ASSUME NEW t \in Threads, ThreadStep(t) PROVE single' = single
  BY <1>4 DEF ThreadStep, AcquireResource, DrawIndex, DoWork, DoWorkThrows, HandIn, EnterOnce, TaskReturns,
              TaskThrows, PassOnce
<1>2. ASSUME NEW s, SetWorkOf(TRUE, s), s = 1 PROVE SingleTask'
  BY <1>2 DEF SetWorkOf, Begin, SingleTask
<1>3. ASSUME NEW s, SetWorkOf(FALSE, s) PROVE FALSE
  BY <1>3 DEF SetWorkOf
<1>5. CASE WaitForJob \/ CloseJobs \/ JobsEnded \/ UNCHANGED poolJobsVars
  BY <1>0, <1>5 DEF WaitForJob, CloseJobs, JobsEnded, End, Close, jobVars, poolJobsVars, SingleTask
<1>6. ASSUME NEW t \in Threads, ThreadStep(t) PROVE SingleTask'
  <2>0. SingleTask
    BY <1>0, <1>4, <1>6
  <2> USE <1>0, <2>0 DEF JobsTypeOK
  <2>1. CASE AcquireResource(t) \/ DrawIndex(t) \/ DoWork(t) \/ DoWorkThrows(t) \/ HandIn(t)
    BY <2>1 DEF AcquireResource, DrawIndex, DoWork, DoWorkThrows, HandIn, SingleTask
  <2>6. CASE EnterOnce(t)
    BY <2>6 DEF EnterOnce, SingleTask, JobsAssumption
  <2>7. CASE TaskReturns(t)
    BY <2>7 DEF TaskReturns, SingleTask, Leave, Execute, JobsAssumption
  <2>8. CASE TaskThrows(t)
    BY <2>8 DEF TaskThrows, SingleTask, Leave, Execute, JobsAssumption
  <2>9. CASE PassOnce(t)
    BY <2>9 DEF PassOnce, SingleTask, Leave, Execute
  <2> QED BY <1>6, <2>1, <2>6, <2>7, <2>8, <2>9 DEF ThreadStep
<1> QED BY <1>2, <1>3, <1>5, <1>6 DEF JobsNext

(* A thread that draws takes what nobody has, and goes past size once.     *)
LEMMA IndexJobKept ==
  JobsAssumption /\ JobsInv /\ ~single' /\ [JobsNext]_poolJobsVars => IndexJob'
<1> SUFFICES ASSUME JobsAssumption, JobsInv, ~single', [JobsNext]_poolJobsVars PROVE IndexJob'
  OBVIOUS
<1>0. JobsTypeOK /\ InFunctor /\ (single' = single => IndexJob)
  BY DEF JobsInv
<1>1. ASSUME NEW s \in Sizes, SetWorkOf(FALSE, s) PROVE IndexJob'
  <2>1. /\ state' = "running" /\ size' = s /\ index' = 0 /\ at' = [t \in Threads |-> "start"]
        /\ handed_in' = {} /\ done' = {} /\ threwIn' = {}
    BY <1>1 DEF SetWorkOf, Begin
  <2>2. \A t \in Threads : Has(t)' = {}
    BY <2>1 DEF Has
  <2>3. Past' = {} /\ Cardinality(Past') = 0
    <3>1. Past' = {}
      BY <2>1 DEF Past
    <3> QED BY <3>1, FS_EmptySet
  <2>4. s \in Nat /\ s + Cardinality(Threads) < IndexLimit
    <3>1. Cardinality(Threads) \in Nat /\ s \in Nat /\ s + Cardinality(Threads) <= IndexLimit - 1
      BY FS_CardinalityType DEF JobsAssumption, Sizes
    <3> QED BY <3>1 DEF JobsAssumption
  <2> QED BY <2>1, <2>2, <2>3, <2>4 DEF IndexJob
<1>2. ASSUME NEW s, SetWorkOf(TRUE, s) PROVE FALSE
  BY <1>2 DEF SetWorkOf
<1>3. CASE WaitForJob \/ CloseJobs \/ JobsEnded \/ UNCHANGED poolJobsVars
  <2>0. IndexJob
    BY <1>0, <1>3 DEF WaitForJob, CloseJobs, JobsEnded, jobVars, poolJobsVars
  <2>1. /\ UNCHANGED <<single, size, index, at, drawn, resource, handed_in, done, threwIn>>
        /\ state' = "running" => state = "running"
    BY <1>3 DEF WaitForJob, CloseJobs, JobsEnded, End, Close, jobVars, poolJobsVars
  <2>2. Past' = Past /\ \A t \in Threads : Has(t)' = Has(t)
    BY <2>1 DEF Past, Has
  <2> QED BY <2>0, <2>1, <2>2 DEF IndexJob
<1>4. ASSUME NEW t \in Threads, ThreadStep(t) PROVE IndexJob'
  <2>0. JobsTypeOK /\ InFunctor /\ IndexJob /\ ~single
    <3>1. single' = single
      BY <1>4 DEF ThreadStep, AcquireResource, DrawIndex, DoWork, DoWorkThrows, HandIn, EnterOnce,
                  TaskReturns, TaskThrows, PassOnce
    <3>2. ~single
      BY <3>1
    <3> QED BY <1>0, <3>1, <3>2
  <2>1. CASE AcquireResource(t)
    <3>1. /\ at[t] = "start" /\ at' = [at EXCEPT ![t] = "draw"] /\ resource' = [resource EXCEPT ![t] = {}]
          /\ UNCHANGED <<state, done, threwIn, single, size, index, drawn, handed_in>>
      BY <2>1 DEF AcquireResource
    <3>2. Past' = Past /\ \A u \in Threads : Has(u)' = Has(u)
      BY <2>0, <3>1 DEF Past, Has, JobsTypeOK
    <3>3. t \notin done
      BY <2>0, <2>1 DEF InFunctor, AcquireResource
    <3> QED BY <2>0, <3>1, <3>2, <3>3 DEF IndexJob, JobsTypeOK
  <2>2. CASE DrawIndex(t)
    <3>1. /\ at[t] = "draw" /\ drawn' = [drawn EXCEPT ![t] = index] /\ index' = (index + 1) % IndexLimit
          /\ at' = [at EXCEPT ![t] = IF index < size THEN "work" ELSE "finish"]
          /\ UNCHANGED <<state, done, threwIn, single, size, resource, handed_in>>
      BY <2>2 DEF DrawIndex
    <3>2. state = "running" /\ t \notin done /\ t \notin Past
      BY <2>0, <3>1 DEF InFunctor, Past
    <3>3. CASE index < size
      <4>1. PICK n \in Nat : n = index
        BY <2>0 DEF JobsTypeOK
      <4>2. index' = n + 1 /\ n + 1 <= size + Cardinality(Past)
        <5>1. size \in Nat /\ n < size /\ IndexLimit \in Nat \ {0} /\ IsFiniteSet(Threads) /\ Past \subseteq Threads
          BY <2>0, <3>3, <4>1 DEF JobsTypeOK, JobsAssumption, Past
        <5>2. Cardinality(Threads) \in Nat /\ Cardinality(Past) \in Nat
          BY <5>1, FS_Subset, FS_CardinalityType
        <5>3. size + Cardinality(Threads) < IndexLimit
          BY <2>0, <3>2 DEF IndexJob
        <5>4. (n + 1) % IndexLimit = n + 1
          BY <5>1, <5>2, <5>3
        <5> QED BY <3>1, <4>1, <5>1, <5>2, <5>4
      <4>3. /\ at' = [at EXCEPT ![t] = "work"] /\ drawn' = [drawn EXCEPT ![t] = n]
            /\ n \in 0 .. size - 1
        BY <2>0, <3>1, <3>3, <4>1 DEF JobsTypeOK
      <4>4. Has(t)' = Has(t) \cup {n} /\ \A u \in Threads \ {t} : Has(u)' = Has(u)
        BY <2>0, <3>1, <4>3 DEF Has, JobsTypeOK
      <4>5. Past' = Past
        BY <2>0, <3>2, <4>3 DEF Past, JobsTypeOK
      <4>6. \A u \in Threads : n \notin Has(u) /\ \A i \in Has(u) : i \in Nat /\ i < n
        BY <2>0, <4>1 DEF IndexJob
      <4>7. \A u \in Threads : at'[u] # "task" /\ Has(u)' \subseteq 0 .. size - 1 /\ \A i \in Has(u)' : i < n + 1
        <5> SUFFICES ASSUME NEW u \in Threads
                     PROVE  at'[u] # "task" /\ Has(u)' \subseteq 0 .. size - 1 /\ \A i \in Has(u)' : i < n + 1
          OBVIOUS
        <5>1. at'[u] # "task"
          BY <2>0, <4>3 DEF JobsTypeOK, IndexJob
        <5>2. Has(u) \subseteq 0 .. size - 1
          BY <2>0 DEF IndexJob
        <5>3. Has(u)' \subseteq Has(u) \cup {n}
          BY <4>4
        <5> QED BY <4>3, <4>6, <5>1, <5>2, <5>3
      <4>8. \A u, v \in Threads : u # v => Has(u)' \cap Has(v)' = {}
        BY <2>0, <4>4, <4>6 DEF IndexJob
      <4>9. threwIn = {} => \A i \in 0 .. size - 1 : i < n + 1 => \E u \in Threads : i \in Has(u)'
        <5> SUFFICES ASSUME threwIn = {}, NEW i \in 0 .. size - 1, i < n + 1
                     PROVE  \E u \in Threads : i \in Has(u)'
          OBVIOUS
        <5>1. CASE i = n
          BY <4>4, <5>1
        <5>2. CASE i < n
          BY <2>0, <4>1, <4>4, <5>2 DEF IndexJob
        <5>3. size \in Nat
          BY <2>0 DEF JobsTypeOK
        <5> QED BY <5>1, <5>2, <5>3
      <4>10. \A u \in Threads : at'[u] = "finish" \/ u \in done \ threwIn => size <= n + 1
        BY <2>0, <4>1, <4>3 DEF IndexJob, JobsTypeOK
      <4> QED BY <2>0, <3>1, <4>2, <4>5, <4>7, <4>8, <4>9, <4>10 DEF IndexJob
    <3>4. CASE ~(index < size)
      <4>1. PICK n \in Nat : n = index
        BY <2>0 DEF JobsTypeOK
      <4>2. at' = [at EXCEPT ![t] = "finish"] /\ size \in Nat /\ size <= n
        BY <2>0, <3>1, <3>4, <4>1 DEF JobsTypeOK
      <4>3. Past' = Past \cup {t} /\ Past' \subseteq Threads
        BY <2>0, <4>2 DEF Past, JobsTypeOK
      <4>4. /\ Cardinality(Past') = Cardinality(Past) + 1 /\ Cardinality(Past') <= Cardinality(Threads)
            /\ Cardinality(Past) \in Nat /\ Cardinality(Threads) \in Nat
        <5>1. IsFiniteSet(Threads) /\ Past \subseteq Threads
          BY DEF JobsAssumption, Past
        <5>2. IsFiniteSet(Past)
          BY <5>1, FS_Subset
        <5> QED BY <3>2, <4>3, <5>1, <5>2, FS_Subset, FS_AddElement, FS_CardinalityType
      <4>5. index' = n + 1 /\ n + 1 <= size + Cardinality(Past')
        <5>1. n <= size + Cardinality(Past) /\ size + Cardinality(Threads) < IndexLimit
          BY <2>0, <3>2, <4>1 DEF IndexJob
        <5>2. IndexLimit \in Nat \ {0}
          BY DEF JobsAssumption
        <5> QED BY <3>1, <4>1, <4>2, <4>4, <5>1, <5>2
      <4>6. \A u \in Threads : Has(u)' = Has(u)
        BY <2>0, <3>1, <4>2 DEF Has, JobsTypeOK
      <4>7. \A u \in Threads : at'[u] # "task" /\ \A i \in Has(u) : i < n + 1
        <5>1. \A u \in Threads : Has(u) \subseteq 0 .. size - 1
          BY <2>0 DEF IndexJob
        <5> QED BY <2>0, <4>1, <4>2, <5>1 DEF IndexJob, JobsTypeOK
      <4>8. threwIn = {} => \A i \in 0 .. size - 1 : i < n + 1 => \E u \in Threads : i \in Has(u)
        <5>1. \A i \in 0 .. size - 1 : i < index
          BY <4>1, <4>2
        <5> QED BY <2>0, <5>1 DEF IndexJob
      <4>9. size <= n + 1
        BY <4>2
      <4> QED BY <2>0, <3>1, <4>5, <4>6, <4>7, <4>8, <4>9 DEF IndexJob
    <3> QED BY <3>3, <3>4
  <2>3. CASE DoWork(t)
    <3>1. /\ at[t] = "work" /\ at' = [at EXCEPT ![t] = "draw"]
          /\ resource' = [resource EXCEPT ![t] = @ \cup {drawn[t]}]
          /\ UNCHANGED <<state, done, threwIn, single, size, index, drawn, handed_in>>
      BY <2>3 DEF DoWork
    <3>2. Past' = Past /\ \A u \in Threads : Has(u)' = Has(u)
      BY <2>0, <3>1 DEF Past, Has, JobsTypeOK
    <3>3. t \notin done
      BY <2>0, <3>1 DEF InFunctor, JobsTypeOK
    <3> QED BY <2>0, <3>1, <3>2, <3>3 DEF IndexJob, JobsTypeOK
  <2>4. CASE DoWorkThrows(t)
    <3>1. /\ at[t] = "work" /\ at' = [at EXCEPT ![t] = "out"]
          /\ t \notin done /\ done' = done \cup {t} /\ threwIn' = threwIn \cup {t}
          /\ UNCHANGED <<state, single, size, index, drawn, resource, handed_in>>
      BY <2>4 DEF DoWorkThrows, Leave, Execute
    <3>2. done' \ threwIn' = done \ threwIn /\ threwIn' # {}
      BY <2>0, <3>1 DEF JobsTypeOK
    <3>3. \A u \in Threads : Has(u)' \subseteq Has(u)
      BY <2>0, <3>1 DEF Has, JobsTypeOK
    <3>4. IsFiniteSet(Past') /\ Past \subseteq Past'
      <4>1. Past' \subseteq Threads /\ Past \subseteq Past'
        BY <2>0, <3>1 DEF Past, JobsTypeOK
      <4> QED BY <4>1, FS_Subset DEF JobsAssumption
    <3>5. Cardinality(Past) <= Cardinality(Past') /\ Cardinality(Past) \in Nat /\ Cardinality(Past') \in Nat
      BY <3>4, FS_Subset, FS_CardinalityType
    <3>6. state' = "running" => index <= size + Cardinality(Past')
      BY <2>0, <3>1, <3>5 DEF IndexJob, JobsTypeOK
    <3>7. \A u \in Threads : at'[u] # "task" /\ Has(u)' \subseteq 0 .. size - 1 /\ \A i \in Has(u)' : i < index
      BY <2>0, <3>1, <3>3 DEF IndexJob, JobsTypeOK
    <3>8. \A u, v \in Threads : u # v => Has(u)' \cap Has(v)' = {}
      BY <2>0, <3>3 DEF IndexJob
    <3>9. \A u \in Threads : at'[u] = "finish" \/ u \in done \ threwIn => size <= index
      BY <2>0, <3>1 DEF IndexJob, JobsTypeOK
    <3> QED BY <2>0, <3>1, <3>2, <3>6, <3>7, <3>8, <3>9 DEF IndexJob
  <2>5. CASE HandIn(t)
    <3>1. /\ at[t] = "finish" /\ at' = [at EXCEPT ![t] = "out"]
          /\ t \notin done /\ done' = done \cup {t} /\ threwIn' = threwIn
          /\ handed_in' = handed_in \cup {<<t, resource[t]>>}
          /\ UNCHANGED <<state, single, size, index, drawn, resource>>
      BY <2>5 DEF HandIn, Leave, Execute
    <3>2. Past' = Past /\ \A u \in Threads : Has(u)' = Has(u)
      BY <2>0, <3>1 DEF Past, Has, JobsTypeOK
    <3>3. done' \ threwIn' = (done \ threwIn) \cup {t} /\ size <= index
      BY <2>0, <3>1 DEF JobsTypeOK, IndexJob
    <3>4. handed_in' = {<<u, resource[u]>> : u \in done' \ threwIn'}
      BY <2>0, <3>1, <3>3 DEF IndexJob
    <3>5. \A u \in Threads : at'[u] # "task"
      BY <2>0, <3>1 DEF IndexJob, JobsTypeOK
    <3> QED BY <2>0, <3>1, <3>2, <3>3, <3>4, <3>5 DEF IndexJob
  <2>6. CASE EnterOnce(t) \/ TaskReturns(t) \/ TaskThrows(t) \/ PassOnce(t)
    BY <2>0, <2>6 DEF EnterOnce, TaskReturns, TaskThrows, PassOnce, IndexJob
  <2> QED BY <1>4, <2>1, <2>2, <2>3, <2>4, <2>5, <2>6 DEF ThreadStep
<1> QED BY <1>1, <1>2, <1>3, <1>4 DEF JobsNext

(* No job yet, and every thread outside.                                  *)
LEMMA JobsStart == JobsAssumption /\ JobsInit => JobsInv
<1> SUFFICES ASSUME JobsAssumption, JobsInit PROVE JobsInv
  OBVIOUS
<1>1. JobsTypeOK /\ InFunctor /\ ~single
  BY DEF JobsAssumption, JobsInit, Init, JobsTypeOK, Places, InFunctor
<1>2. done = {} /\ handed_in = {} /\ size = 0 /\ state # "running" /\ \A t \in Threads : at[t] = "out" /\ resource[t] = {}
  BY DEF JobsInit, Init
<1>3. \A t \in Threads : Has(t) = {}
  BY <1>2 DEF Has
<1> QED BY <1>1, <1>2, <1>3 DEF JobsInv, IndexJob

(* Every step keeps all of it, whatever the job.                          *)
LEMMA JobsKeep == JobsAssumption /\ JobsInv /\ [JobsNext]_poolJobsVars => JobsInv'
<1> SUFFICES ASSUME JobsAssumption, JobsInv, [JobsNext]_poolJobsVars PROVE JobsInv'
  OBVIOUS
<1>1. JobsTypeOK' /\ InFunctor'
  BY JobsTypeKept, InFunctorKept DEF JobsInv
<1>2. CASE single'
  BY <1>1, <1>2, SingleTaskKept DEF JobsInv
<1>3. CASE ~single'
  BY <1>1, <1>3, IndexJobKept DEF JobsInv
<1> QED BY <1>2, <1>3

(* When the owner is told that all went well, nobody holds an index that   *)
(* was not handed in.                                                      *)
LEMMA JobsAreWhole == JobsAssumption /\ JobsInv => JobIsWhole
<1> SUFFICES ASSUME JobsAssumption, JobsInv PROVE JobIsWhole
  OBVIOUS
<1>1. CASE single
  <2>1. SingleTask /\ JobsTypeOK /\ InFunctor
    BY <1>1 DEF JobsInv
  <2>2. \A x, y \in handed_in : x # y => x[2] \cap y[2] = {}
    BY <2>1 DEF SingleTask
  <2>3. ASSUME state = "idle", result = "ok" PROVE UNION {x[2] : x \in handed_in} = 0 .. size - 1
    <3>1. once = "done"
      BY <2>1, <2>3 DEF SingleTask, InFunctor, JobsAssumption
    <3>2. PICK t \in Threads : handed_in = {<<t, {0}>>}
      BY <2>1, <3>1 DEF SingleTask
    <3>3. size - 1 = 0
      BY <2>1 DEF SingleTask
    <3> QED BY <3>2, <3>3
  <2> QED BY <2>2, <2>3 DEF JobIsWhole
<1>2. CASE ~single
  <2>1. IndexJob /\ JobsTypeOK /\ InFunctor
    BY <1>2 DEF JobsInv
  <2>2. \A x \in handed_in : \E t \in done \ threwIn : x = <<t, resource[t]>>
    BY <2>1 DEF IndexJob
  <2>3. \A t, u \in done \ threwIn : t # u => resource[t] \cap resource[u] = {}
    <3> SUFFICES ASSUME NEW t \in done \ threwIn, NEW u \in done \ threwIn, t # u
                 PROVE  resource[t] \cap resource[u] = {}
      OBVIOUS
    <3>1. t \in Threads /\ u \in Threads /\ at[t] = "out" /\ at[u] = "out"
      BY <2>1 DEF JobsTypeOK, InFunctor
    <3>2. Has(t) = resource[t] /\ Has(u) = resource[u]
      BY <3>1 DEF Has
    <3> QED BY <2>1, <3>1, <3>2 DEF IndexJob
  <2>4. \A x, y \in handed_in : x # y => x[2] \cap y[2] = {}
    BY <2>2, <2>3
  <2>5. ASSUME state = "idle", result = "ok" PROVE UNION {x[2] : x \in handed_in} = 0 .. size - 1
    <3>1. done = Threads /\ threwIn = {} /\ \A t \in Threads : at[t] = "out"
      BY <2>1, <2>5 DEF InFunctor
    <3>2. \A t \in Threads : Has(t) = resource[t]
      BY <3>1 DEF Has
    <3>3. handed_in = {<<t, resource[t]>> : t \in Threads}
      BY <2>1, <3>1 DEF IndexJob
    <3>4. \A i \in 0 .. size - 1 : i < index
      BY <2>1, <3>1 DEF IndexJob, JobsTypeOK, JobsAssumption
    <3>5. \A i \in 0 .. size - 1 : \E t \in Threads : i \in resource[t]
      BY <2>1, <3>1, <3>2, <3>4 DEF IndexJob
    <3>6. \A t \in Threads : resource[t] \subseteq 0 .. size - 1
      BY <2>1, <3>2 DEF IndexJob
    <3>7. \A x \in handed_in : x[2] \subseteq 0 .. size - 1
      BY <3>3, <3>6
    <3>8. ASSUME NEW i \in 0 .. size - 1 PROVE \E x \in handed_in : i \in x[2]
      <4>1. PICK t \in Threads : i \in resource[t]
        BY <3>5
      <4>2. <<t, resource[t]>> \in handed_in
        BY <3>3
      <4> QED BY <4>1, <4>2
    <3> QED BY <3>7, <3>8
  <2> QED BY <2>4, <2>5 DEF JobIsWhole
<1> QED BY <1>1, <1>2

(* A job that succeeds has worked on every index once, whatever the number *)
(* of threads and wherever the others have got to when one of them draws.  *)
THEOREM JobsAreAlwaysWhole == ASSUME JobsAssumption PROVE JobsSpec => []JobIsWhole
<1>1. JobsInit => JobsInv
  BY JobsStart
<1>2. JobsInv /\ [JobsNext]_poolJobsVars => JobsInv'
  BY JobsKeep
<1>3. JobsInv => JobIsWhole
  BY JobsAreWhole
<1> QED BY <1>1, <1>2, <1>3, PTL DEF JobsSpec
-----------------------------------------------------------------------------
(* ParallelForeach.                                                        *)

CONSTANTS
  MaxLength,      \* bound: of the range
  MaxThreads      \* bound: on threads_num_max, 1 or more

VARIABLES
  len, threads_num,      \* the arguments
  caller,                \* "create", "serial", "join" or "returned"
  p,                     \* the caller's iterator
  parts,                 \* the threads: what each has left of [first, last)
  applied                \* how often f was applied to each element
foreachVars == <<len, threads_num, caller, p, parts, applied>>

LesserOf(a, b) == IF a < b THEN a ELSE b
Actual == LesserOf(len, threads_num)
ItemsPerThread == len \div Actual

Apply(i) == applied' = [applied EXCEPT ![i] = @ + 1]

(* length == 0 returns at once.                                            *)
ForeachInit ==
  /\ len \in 0 .. MaxLength /\ threads_num \in 1 .. MaxThreads
  /\ caller = IF len = 0 THEN "returned" ELSE "create"
  /\ p = 0 /\ parts = <<>>
  /\ applied = [i \in 0 .. len - 1 |-> 0]

(* A fault: the caller goes on behind the part it could not give away.     *)
BugCreatePart(created) ==
  /\ caller = "create" /\ Len(parts) < Actual - 1
  /\ parts' = IF created
                THEN Append(parts, [first |-> p, last |-> p + ItemsPerThread])
                ELSE parts
  /\ p' = p + ItemsPerThread
  /\ caller' = IF created THEN caller ELSE "serial"
  /\ UNCHANGED <<len, threads_num, applied>>

(* threads.emplace_back(task, prev, p), or a system_error: p = prev.       *)
CreatePart(created) ==
  /\ caller = "create" /\ Len(parts) < Actual - 1
  /\ parts' = IF created
                THEN Append(parts, [first |-> p, last |-> p + ItemsPerThread])
                ELSE parts
  /\ p' = IF created THEN p + ItemsPerThread ELSE p
  /\ caller' = IF created THEN caller ELSE "serial"
  /\ UNCHANGED <<len, threads_num, applied>>

AllCreated ==
  /\ caller = "create" /\ Len(parts) = Actual - 1
  /\ caller' = "serial"
  /\ UNCHANGED <<len, threads_num, p, parts, applied>>

(* The caller's own elements, from p to the end, and then join.            *)
Serial ==
  /\ caller = "serial"
  /\ IF p # len THEN Apply(p) /\ p' = p + 1 /\ UNCHANGED caller
               ELSE caller' = "join" /\ UNCHANGED <<applied, p>>
  /\ UNCHANGED <<len, threads_num, parts>>

(* One element of a thread's part.                                         *)
PartStep(t) ==
  /\ parts[t].first # parts[t].last
  /\ Apply(parts[t].first)
  /\ parts' = [parts EXCEPT ![t].first = @ + 1]
  /\ UNCHANGED <<len, threads_num, caller, p>>

JoinParts ==
  /\ caller = "join"
  /\ \A t \in DOMAIN parts : parts[t].first = parts[t].last
  /\ caller' = "returned"
  /\ UNCHANGED <<len, threads_num, p, parts, applied>>

CallerStep ==
  (\E created \in BOOLEAN : CreatePart(created)) \/ AllCreated \/ Serial \/ JoinParts
ForeachEnded == caller = "returned" /\ UNCHANGED foreachVars
ForeachNext ==
  CallerStep \/ (\E t \in DOMAIN parts : PartStep(t)) \/ ForeachEnded

ForeachSpec == ForeachInit /\ [][ForeachNext]_foreachVars

ForeachFairness ==
  /\ WF_foreachVars(CallerStep)
  /\ \A t \in 1 .. MaxThreads : WF_foreachVars(t \in DOMAIN parts /\ PartStep(t))
-----------------------------------------------------------------------------
(* However the range is cut, and whichever thread cannot be created, no    *)
(* element is visited twice, and when the call returns all have been.      *)
EachElementOnce ==
  \A i \in DOMAIN applied :
    applied[i] <= 1 /\ (caller = "returned" => applied[i] = 1)
-----------------------------------------------------------------------------
(* Why it holds, for any range and any number of threads: every element    *)
(* before p was left to one thread, that still has it or is done with it,  *)
(* and the others are the caller's.                                        *)
Part == [first : Nat, last : Nat]
Owed(t) == parts[t].first .. parts[t].last - 1

ForeachInv ==
  /\ len \in Nat /\ threads_num \in Nat \ {0} /\ p \in 0 .. len
  /\ caller \in {"create", "serial", "join", "returned"}
  /\ parts \in Seq(Part)
  /\ caller = "create" => len # 0 /\ Len(parts) < Actual /\ p = Len(parts) * ItemsPerThread
  /\ caller \in {"join", "returned"} => p = len
  /\ caller = "returned" => \A t \in DOMAIN parts : parts[t].first = parts[t].last
  /\ \A t \in DOMAIN parts : parts[t].first <= parts[t].last /\ parts[t].last <= p
  /\ \A t, u \in DOMAIN parts : t # u => Owed(t) \cap Owed(u) = {}
  /\ DOMAIN applied = 0 .. len - 1
  /\ \A i \in 0 .. len - 1 :
       applied[i] = IF i < p /\ \A t \in DOMAIN parts : i \notin Owed(t) THEN 1 ELSE 0

(* The range is at least as long as its equal parts.                       *)
LEMMA PartsFit ==
  ASSUME NEW n \in Nat, NEW m \in Nat \ {0}, NEW k \in Nat, k < m
  PROVE  n \div m \in Nat /\ k * (n \div m) + (n \div m) <= n
<1> DEFINE q == n \div m
<1>1. q \in Nat /\ q * m <= n
  OBVIOUS
<1>2. \A a, b, c \in Nat : a <= b => a * c <= b * c
  OBVIOUS
<1> HIDE DEF q
<1>3. (k + 1) * q <= m * q /\ k * q + q = (k + 1) * q /\ m * q = q * m
  BY <1>1, <1>2
<1>4. k * q + q <= n
  BY <1>1, <1>3
<1> QED BY <1>1, <1>4 DEF q

(* Before the first thread is created nothing is given away or done.      *)
LEMMA ForeachStarts == ForeachInit => ForeachInv
<1> SUFFICES ASSUME ForeachInit PROVE ForeachInv
  OBVIOUS
<1>1. len \in Nat /\ threads_num \in Nat \ {0} /\ p = 0 /\ parts = <<>> /\ DOMAIN parts = {}
      /\ parts \in Seq(Part) /\ Len(parts) = 0
      /\ caller = (IF len = 0 THEN "returned" ELSE "create")
      /\ applied = [i \in 0 .. len - 1 |-> 0]
  BY EmptySeq DEF ForeachInit
<1>2. len # 0 => Actual \in Nat \ {0} /\ ItemsPerThread \in Nat
  BY <1>1, PartsFit DEF Actual, LesserOf, ItemsPerThread
<1> QED BY <1>1, <1>2 DEF ForeachInv

(* Giving a part away takes it from the caller's share; whoever has an     *)
(* element to do applies f to it once and lets go of it.                   *)
LEMMA ForeachKeeps == ForeachInv /\ [ForeachNext]_foreachVars => ForeachInv'
<1> SUFFICES ASSUME ForeachInv, [ForeachNext]_foreachVars PROVE ForeachInv'
  OBVIOUS
<1>0. len \in Nat /\ threads_num \in Nat \ {0} /\ p \in 0 .. len
      /\ parts \in Seq(Part) /\ Len(parts) \in Nat
      /\ DOMAIN parts = 1 .. Len(parts)
      /\ \A t \in DOMAIN parts : parts[t] \in Part /\ parts[t].first \in Nat /\ parts[t].last \in Nat
  <2>1. parts \in Seq(Part)
    BY DEF ForeachInv
  <2>2. Len(parts) \in Nat /\ DOMAIN parts = 1 .. Len(parts) /\ \A t \in DOMAIN parts : parts[t] \in Part
    BY <2>1, LenProperties, ElementOfSeq
  <2> QED BY <2>1, <2>2 DEF ForeachInv, Part
<1>1. ASSUME NEW created \in BOOLEAN, CreatePart(created) PROVE ForeachInv'
  <2>1. CASE created
    <3> DEFINE n == ItemsPerThread
    <3>1. n \in Nat /\ p + n <= len /\ p + n = (Len(parts) + 1) * n
      <4>1. Actual \in Nat \ {0} /\ Len(parts) < Actual
        BY <1>0, <1>1 DEF ForeachInv, CreatePart, Actual, LesserOf
      <4>2. n \in Nat /\ Len(parts) * n + n <= len
        BY <1>0, <4>1, PartsFit DEF ItemsPerThread
      <4>3. p = Len(parts) * n
        BY <1>1 DEF ForeachInv, CreatePart
      <4> HIDE DEF n
      <4> QED BY <1>0, <4>2, <4>3
    <3> HIDE DEF n
    <3> DEFINE part == [first |-> p, last |-> p + n]
    <3>2. part \in Part /\ part.first = p /\ part.last = p + n
      BY <1>0, <3>1 DEF Part
    <3>3. parts' = Append(parts, part) /\ p' = p + n /\ caller = "create"
          /\ UNCHANGED <<len, threads_num, applied, caller>> /\ Len(parts) < Actual - 1
      BY <1>1, <2>1 DEF CreatePart, n
    <3> HIDE DEF part
    <3>4. /\ parts' \in Seq(Part) /\ Len(parts') = Len(parts) + 1
          /\ DOMAIN parts' = 1 .. Len(parts) + 1 /\ parts'[Len(parts) + 1] = part
          /\ \A t \in DOMAIN parts : parts'[t] = parts[t]
      BY <1>0, <3>2, <3>3, AppendProperties, LenProperties
    <3>5. PICK last : last = Len(parts) + 1
      OBVIOUS
    <3>6. /\ DOMAIN parts' = DOMAIN parts \cup {last} /\ last \notin DOMAIN parts
          /\ \A t \in DOMAIN parts : Owed(t)' = Owed(t)
          /\ Owed(last)' = p .. p + n - 1
      <4>1. DOMAIN parts' = DOMAIN parts \cup {last} /\ last \notin DOMAIN parts
        BY <1>0, <3>4, <3>5
      <4>2. Owed(last)' = p .. p + n - 1
        <5>1. parts'[last] = part
          BY <3>4, <3>5
        <5>2. Owed(last)' = parts'[last].first .. parts'[last].last - 1
          BY <3>5 DEF Owed
        <5>3. parts'[last].first = p /\ parts'[last].last = p + n
          BY <3>2, <5>1
        <5> QED BY <1>0, <3>1, <5>2, <5>3
      <4>3. \A t \in DOMAIN parts : Owed(t)' = Owed(t)
        BY <3>4 DEF Owed
      <4> QED BY <4>1, <4>2, <4>3
    <3>7. \A t \in DOMAIN parts : \A i \in Owed(t) : i < p
      BY <1>0 DEF ForeachInv, Owed
    <3>8. \A t, u \in DOMAIN parts' : t # u => Owed(t)' \cap Owed(u)' = {}
      BY <1>0, <3>1, <3>6, <3>7 DEF ForeachInv
    <3>9. \A i \in 0 .. len - 1 : (i < p /\ \A t \in DOMAIN parts : i \notin Owed(t))
            <=> (i < p + n /\ \A t \in DOMAIN parts' : i \notin Owed(t)')
      <4>1. \A i \in 0 .. len - 1 : i \in Owed(last)' <=> p <= i /\ i < p + n
        BY <1>0, <3>1, <3>6
      <4>2. \A i \in 0 .. len - 1 : (\A t \in DOMAIN parts' : i \notin Owed(t)')
              <=> i \notin Owed(last)' /\ \A t \in DOMAIN parts : i \notin Owed(t)
        BY <3>6
      <4> QED BY <1>0, <3>1, <3>7, <4>1, <4>2
    <3>10. \A t \in DOMAIN parts' : parts'[t].first <= parts'[t].last /\ parts'[t].last <= p'
      BY <1>0, <3>1, <3>2, <3>3, <3>4, <3>5, <3>6 DEF ForeachInv
    <3>11. Actual' = Actual /\ ItemsPerThread' = n
      BY <3>3 DEF Actual, ItemsPerThread, n
    <3>12. \A i \in 0 .. len - 1 :
             applied[i] = IF i < p' /\ \A t \in DOMAIN parts' : i \notin Owed(t)' THEN 1 ELSE 0
      BY <3>3, <3>9 DEF ForeachInv
    <3>13. caller' = "create" /\ len # 0 /\ Len(parts') < Actual /\ p' = Len(parts') * n
      <4>1. Actual \in Nat
        BY <1>0 DEF Actual, LesserOf
      <4> QED BY <1>0, <3>1, <3>3, <3>4, <4>1 DEF ForeachInv
    <3>14. p' \in 0 .. len /\ DOMAIN applied = 0 .. len - 1
      BY <1>0, <3>1, <3>3 DEF ForeachInv
    <3> QED BY <1>0, <3>3, <3>4, <3>8, <3>10, <3>11, <3>12, <3>13, <3>14 DEF ForeachInv
  <2>2. CASE ~created
    BY <1>0, <1>1, <2>2 DEF ForeachInv, CreatePart, Owed
  <2> QED BY <2>1, <2>2
<1>2. CASE AllCreated
  BY <1>0, <1>2 DEF ForeachInv, AllCreated, Owed
<1>3. CASE Serial
  <2>1. \A t \in DOMAIN parts : p \notin Owed(t)
    BY <1>0 DEF ForeachInv, Owed
  <2>2. UNCHANGED <<len, threads_num, parts>> /\ \A t \in DOMAIN parts : Owed(t)' = Owed(t)
    BY <1>3 DEF Serial, Owed
  <2>3. CASE p # len
    <3>1. Apply(p) /\ p' = p + 1 /\ caller' = "serial" /\ p' \in 0 .. len
      BY <1>0, <1>3, <2>3 DEF Serial
    <3>2. DOMAIN applied' = 0 .. len - 1
      BY <3>1 DEF Apply, ForeachInv
    <3>3. ASSUME NEW i \in 0 .. len - 1
          PROVE  applied'[i] = IF i < p' /\ \A t \in DOMAIN parts : i \notin Owed(t) THEN 1 ELSE 0
      BY <1>0, <2>1, <3>1 DEF Apply, ForeachInv
    <3>4. \A t \in DOMAIN parts : parts[t].first <= parts[t].last /\ parts[t].last <= p'
      BY <1>0, <3>1 DEF ForeachInv
    <3> QED BY <1>0, <2>2, <3>1, <3>2, <3>3, <3>4 DEF ForeachInv
  <2>4. CASE p = len
    BY <1>0, <1>3, <2>2, <2>4 DEF ForeachInv, Serial
  <2> QED BY <2>3, <2>4
<1>4. ASSUME NEW t \in DOMAIN parts, PartStep(t) PROVE ForeachInv'
  <2> DEFINE i == parts[t].first
  <2>1. /\ UNCHANGED <<len, threads_num, caller, p>> /\ i \in Nat /\ i < parts[t].last
        /\ parts[t].last \in Nat /\ parts[t].last <= p
    BY <1>0, <1>4 DEF PartStep, ForeachInv
  <2>2. /\ parts' \in Seq(Part) /\ Len(parts') = Len(parts)
        /\ DOMAIN parts' = DOMAIN parts /\ parts'[t].first = i + 1 /\ parts'[t].last = parts[t].last
        /\ \A u \in DOMAIN parts : u # t => parts'[u] = parts[u]
    <3>1. parts' = [parts EXCEPT ![t] = [parts[t] EXCEPT !.first = i + 1]]
      BY <1>4 DEF PartStep
    <3> DEFINE new == [parts[t] EXCEPT !.first = i + 1]
    <3>2. new \in Part /\ new.first = i + 1 /\ new.last = parts[t].last
      BY <1>0, <2>1 DEF Part
    <3> HIDE DEF new
    <3>3. parts' = [parts EXCEPT ![t] = new]
      BY <3>1 DEF new
    <3>4. t \in 1 .. Len(parts)
      BY <1>0, <1>4
    <3>5. /\ parts' \in Seq(Part) /\ Len(parts') = Len(parts)
          /\ \A u \in 1 .. Len(parts) : parts'[u] = IF u = t THEN new ELSE parts[u]
      BY <1>0, <3>2, <3>3, <3>4, ExceptSeq
    <3>6. DOMAIN parts' = 1 .. Len(parts')
      BY <3>5, LenProperties
    <3> QED BY <1>0, <3>2, <3>4, <3>5, <3>6
  <2>3. \A u \in DOMAIN parts : Owed(u)' = IF u = t THEN Owed(t) \ {i} ELSE Owed(u)
    <3>1. ASSUME NEW u \in DOMAIN parts, u # t PROVE Owed(u)' = Owed(u)
      <4>1. parts'[u] = parts[u]
        BY <2>2, <3>1
      <4> QED BY <4>1 DEF Owed
    <3>2. Owed(t)' = Owed(t) \ {i}
      <4>1. Owed(t)' = parts'[t].first .. parts'[t].last - 1
        BY DEF Owed
      <4>2. Owed(t)' = i + 1 .. parts[t].last - 1
        BY <2>2, <4>1
      <4>3. Owed(t) = i .. parts[t].last - 1
        BY DEF Owed
      <4> HIDE DEF i
      <4> QED BY <2>1, <4>2, <4>3
    <3> QED BY <3>1, <3>2
  <2>4. i \in Owed(t) /\ i \in 0 .. len - 1
    BY <1>0, <2>1 DEF Owed
  <2> HIDE DEF i
  <2>5. \A u \in DOMAIN parts : u # t => i \notin Owed(u)
    BY <2>4 DEF ForeachInv
  <2>6. Apply(i)
    BY <1>4 DEF PartStep, i
  <2>7. ASSUME NEW j \in 0 .. len - 1
        PROVE  applied'[j] = IF j < p /\ \A u \in DOMAIN parts : j \notin Owed(u)' THEN 1 ELSE 0
    <3>1. CASE j = i
      <4>1. applied[i] = 0 /\ applied'[i] = applied[i] + 1
        BY <2>4, <2>6 DEF ForeachInv, Apply
      <4>2. \A u \in DOMAIN parts : i \notin Owed(u)'
        BY <2>3, <2>5
      <4>3. i < p
        BY <1>0, <2>1 DEF i
      <4> QED BY <3>1, <4>1, <4>2, <4>3
    <3>2. CASE j # i
      BY <2>3, <2>6, <3>2 DEF ForeachInv, Apply
    <3> QED BY <3>1, <3>2
  <2>8. DOMAIN applied' = 0 .. len - 1
    BY <2>6 DEF Apply, ForeachInv
  <2>9. \A u, v \in DOMAIN parts : u # v => Owed(u)' \cap Owed(v)' = {}
    BY <2>3 DEF ForeachInv
  <2>10. \A u \in DOMAIN parts : parts'[u].first <= parts'[u].last /\ parts'[u].last <= p
    BY <1>0, <2>1, <2>2 DEF ForeachInv, i
  <2>11. caller # "returned"
    BY <2>1 DEF ForeachInv, i
  <2> QED BY <1>0, <2>1, <2>2, <2>7, <2>8, <2>9, <2>10, <2>11
          DEF ForeachInv, Actual, ItemsPerThread
<1>5. CASE JoinParts
  BY <1>0, <1>5 DEF ForeachInv, JoinParts, Owed
<1>6. CASE UNCHANGED foreachVars
  BY <1>0, <1>6 DEF ForeachInv, foreachVars, Owed, Actual, ItemsPerThread
<1> QED BY <1>1, <1>2, <1>3, <1>4, <1>5, <1>6 DEF ForeachNext, CallerStep, ForeachEnded

(* When the call returns p is at the end and every thread has joined.      *)
LEMMA ForeachIsRight == ForeachInv => EachElementOnce
<1> SUFFICES ASSUME ForeachInv, NEW i \in DOMAIN applied
             PROVE  applied[i] <= 1 /\ (caller = "returned" => applied[i] = 1)
  BY DEF EachElementOnce
<1>1. applied[i] \in {0, 1}
  BY DEF ForeachInv
<1>2. ASSUME caller = "returned" PROVE i < p /\ \A t \in DOMAIN parts : i \notin Owed(t)
  <2>1. \A t \in DOMAIN parts : parts[t].first = parts[t].last /\ parts[t].first \in Nat
    <3>1. parts \in Seq(Part) /\ \A t \in DOMAIN parts : parts[t].first = parts[t].last
      BY <1>2 DEF ForeachInv
    <3>2. \A t \in DOMAIN parts : parts[t] \in Part
      BY <3>1, LenProperties, ElementOfSeq
    <3> QED BY <3>1, <3>2 DEF Part
  <2>2. \A t \in DOMAIN parts : Owed(t) = {}
    BY <2>1 DEF Owed
  <2> QED BY <1>2, <2>2 DEF ForeachInv
<1> QED BY <1>1, <1>2 DEF ForeachInv

(* ParallelForeach visits every element once, whatever the length and the  *)
(* number of threads, and whichever of them cannot be created.             *)
THEOREM EachElementOnceAlways == ForeachSpec => []EachElementOnce
BY ForeachStarts, ForeachKeeps, ForeachIsRight, PTL DEF ForeachSpec
=============================================================================
