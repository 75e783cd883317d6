-------------------------- MODULE Parallel_proofs ---------------------------
(***************************************************************************)
(* Proofs about WorkerThreadPool for any number of threads and jobs, and   *)
(* about the ways of working in parallel that MCParallel puts side by      *)
(* side: what ParallelLoops and GspanTasks prove of theirs is put together *)
(* here.                                                                   *)
(***************************************************************************)
EXTENDS MCParallel, FiniteSetTheorems, SequenceTheorems, TLAPS

IInv == TypeOK /\ PoolInv

(* The workers and the owner are finitely many, and more than one.         *)
LEMMA ThreadsAreFinite ==
  /\ IsFiniteSet(Threads) /\ IsFiniteSet(Workers)
  /\ Cardinality(Workers) \in Nat \ {0}
  /\ ThreadNum = Cardinality(Workers) + 1
BY PoolAssumption, FS_AddElement, FS_CardinalityType, FS_EmptySet
   DEF Threads, ThreadNum

(* So are those that have arrived; all of them only if all have.           *)
LEMMA ArrivedIsFinite ==
  /\ Arrived \subseteq Threads /\ IsFiniteSet(Arrived)
  /\ Cardinality(Arrived) \in 0 .. ThreadNum
  /\ Cardinality(Arrived) = ThreadNum => Arrived = Threads
<1>1. Arrived \subseteq Threads
  BY DEF Arrived
<1> QED
  BY <1>1, ThreadsAreFinite, FS_Subset, FS_CardinalityType DEF ThreadNum

(* Whoever completes a phase holds the mutex, and everyone has arrived.    *)
LEMMA LastArrives ==
  ASSUME IInv, NEW t \in Threads, pc[t] \in {"complete", "release"}
  PROVE  /\ \A u \in Threads : HasArrived(u)
         /\ mt = t /\ mt # Free /\ closing = "no"
<1>1. mt = t /\ mt # Free /\ count = 0
  BY PoolAssumption DEF IInv, PoolInv, MutexInv, Threads, Free
<1>2. Arrived = Threads
  BY <1>1, ArrivedIsFinite, ThreadsAreFinite
  DEF IInv, PoolInv, BarrierIsConsistent
<1> QED
  BY <1>1, <1>2 DEF IInv, PoolInv, Arrived, ClosingInv

(* While the owner is outside Wait nobody has arrived.                     *)
LEMMA NobodyArrives ==
  ASSUME IInv, closing = "no", pc[Main] \in {"ready", "set"}, NEW u \in Threads
  PROVE  ~HasArrived(u)
<1>1. Main \in Threads /\ ~HasArrived(Main)
  BY DEF HasArrived, Threads
<1>2. HasArrived(u) => count = 0
  BY DEF IInv, PoolInv, MutexInv, WorkInv
<1>3. count = 0 => Arrived = Threads
  BY ArrivedIsFinite, ThreadsAreFinite DEF IInv, PoolInv, BarrierIsConsistent
<1> QED
  BY <1>1, <1>2, <1>3 DEF Arrived

(* A created worker starts at the wait for work.                           *)
LEMMA CreateThreadKeeps ==
  ASSUME IInv, NEW w \in Workers, CreateThread(w)
  PROVE  IInv'
<1> USE DEF IInv, PoolInv, CreateThread, At, Goto, clientVars, barrierVars, futureVars
<1>0. w # Main /\ w \in Threads /\ Main \in Threads
  BY PoolAssumption DEF Threads
<1>1. TypeOK'
  BY <1>0 DEF TypeOK, TaskState, Points, Null
<1>2. \A u \in Threads : HasArrived(u)' <=> HasArrived(u)
  BY <1>0 DEF TypeOK, HasArrived, ClosingInv, WorkInv, MutexInv, Threads
<1>3. BarrierIsConsistent'
  BY <1>0, <1>2 DEF TypeOK, BarrierIsConsistent, MutexInv, ThreadNum, Arrived
<1>4. MutexInv'
  BY <1>0 DEF TypeOK, MutexInv
<1>5. WorkInv'
  BY <1>0, <1>2
  DEF TypeOK, WorkInv, ClosingInv, JobOpen, Uncreated, Engaged, Null
<1>6. RanInv'
  BY <1>0, <1>2
  DEF TypeOK, TaskState, RanInv, WorkInv, ClosingInv, JobOpen, HasReset, Engaged
<1>7. ClosingInv'
  BY <1>0 DEF TypeOK, ClosingInv, WorkInv, HasArrived, Uncreated, Engaged, Threads, Null
<1> QED
  BY <1>1, <1>3, <1>4, <1>5, <1>6, <1>7

(* A worker leaves the wait only while is_working_ is up.                  *)
LEMMA AwaitWorkKeeps ==
  ASSUME IInv, NEW w \in Workers, AwaitWork(w)
  PROVE  IInv'
<1> USE DEF IInv, PoolInv, AwaitWork, At, Goto, clientVars, barrierVars, futureVars
<1>0. w # Main /\ w \in Threads /\ Main \in Threads
  BY PoolAssumption DEF Threads
<1>1. TypeOK'
  BY <1>0 DEF TypeOK, TaskState, Points, Null
<1>2. \A u \in Threads : HasArrived(u)' <=> HasArrived(u)
  BY <1>0 DEF TypeOK, HasArrived, ClosingInv, WorkInv, MutexInv, Threads
<1>3. BarrierIsConsistent'
  BY <1>0, <1>2 DEF TypeOK, BarrierIsConsistent, MutexInv, ThreadNum, Arrived
<1>4. MutexInv'
  BY <1>0 DEF TypeOK, MutexInv
<1>5. WorkInv'
  BY <1>0, <1>2
  DEF TypeOK, WorkInv, ClosingInv, JobOpen, Uncreated, Engaged, Null
<1>6. RanInv'
  BY <1>0, <1>2
  DEF TypeOK, TaskState, RanInv, WorkInv, ClosingInv, JobOpen, HasReset, Engaged
<1>7. ClosingInv'
  BY <1>0 DEF TypeOK, ClosingInv, WorkInv, HasArrived, Uncreated, Engaged, Threads, Null
<1> QED
  BY <1>1, <1>3, <1>4, <1>5, <1>6, <1>7

(* A worker that finds work_ empty leaves; any other joins the job.        *)
LEMMA CheckWorkKeeps ==
  ASSUME IInv, NEW w \in Workers, CheckWork(w)
  PROVE  IInv'
<1> USE DEF IInv, PoolInv, CheckWork, At, Goto, clientVars, barrierVars, futureVars
<1>0. w # Main /\ w \in Threads /\ Main \in Threads
  BY PoolAssumption DEF Threads
<1>1. TypeOK'
  BY <1>0 DEF TypeOK, TaskState, Points, Null
<1>2. \A u \in Threads : HasArrived(u)' <=> HasArrived(u)
  BY <1>0 DEF TypeOK, HasArrived, ClosingInv, WorkInv, MutexInv, Threads
<1>3. BarrierIsConsistent'
  BY <1>0, <1>2 DEF TypeOK, BarrierIsConsistent, MutexInv, ThreadNum, Arrived
<1>4. MutexInv'
  BY <1>0 DEF TypeOK, MutexInv
<1>5. WorkInv'
  BY <1>0, <1>2
  DEF TypeOK, WorkInv, ClosingInv, JobOpen, Uncreated, Engaged, Null
<1>6. RanInv'
  BY <1>0, <1>2
  DEF TypeOK, TaskState, RanInv, WorkInv, ClosingInv, JobOpen, HasReset, Engaged
<1>7. ClosingInv'
  BY <1>0 DEF TypeOK, ClosingInv, WorkInv, HasArrived, Uncreated, Engaged, Threads, Null
<1> QED
  BY <1>1, <1>3, <1>4, <1>5, <1>6, <1>7

(* All workers are there when the pool is ready.                           *)
LEMMA ConstructorDoneKeeps ==
  ASSUME IInv, ConstructorDone
  PROVE  IInv'
<1> USE DEF IInv, PoolInv, ConstructorDone, At, Goto, clientVars, barrierVars, futureVars
<1>0. Main \in Threads /\ Main \notin Workers /\ Workers \subseteq Threads
  BY PoolAssumption DEF Threads
<1>1. TypeOK'
  BY <1>0 DEF TypeOK, TaskState, Points, Null
<1>2. \A u \in Threads : HasArrived(u)' <=> HasArrived(u)
  BY <1>0 DEF TypeOK, HasArrived, ClosingInv, WorkInv, MutexInv, Threads
<1>3. BarrierIsConsistent'
  BY <1>0, <1>2 DEF TypeOK, BarrierIsConsistent, MutexInv, ThreadNum, Arrived
<1>4. MutexInv'
  BY <1>0 DEF TypeOK, MutexInv
<1>5. WorkInv'
  BY <1>0, <1>2
  DEF TypeOK, WorkInv, ClosingInv, JobOpen, Uncreated, Engaged, Null
<1>6. RanInv'
  BY <1>0, <1>2
  DEF TypeOK, TaskState, RanInv, WorkInv, ClosingInv, JobOpen, HasReset, Engaged
<1>7. ClosingInv'
  BY <1>0 DEF TypeOK, ClosingInv, WorkInv, HasArrived, Uncreated, Engaged, Threads, Null
<1> QED
  BY <1>1, <1>3, <1>4, <1>5, <1>6, <1>7

(* The failed constructor empties work_ before any job.                    *)
LEMMA CreateThreadFailsKeeps ==
  ASSUME IInv, CreateThreadFails
  PROVE  IInv'
<1> USE DEF IInv, PoolInv, CreateThreadFails, At, Goto, clientVars, barrierVars, futureVars
<1>0. Main \in Threads /\ Main \notin Workers /\ Workers \subseteq Threads
  BY PoolAssumption DEF Threads
<1>1. TypeOK'
  BY <1>0 DEF TypeOK, TaskState, Points, Null
<1>2. \A u \in Threads : HasArrived(u)' <=> HasArrived(u)
  BY <1>0 DEF TypeOK, HasArrived, ClosingInv, WorkInv, MutexInv, Threads
<1>3. BarrierIsConsistent'
  BY <1>0, <1>2 DEF TypeOK, BarrierIsConsistent, MutexInv, ThreadNum, Arrived
<1>4. MutexInv'
  BY <1>0 DEF TypeOK, MutexInv
<1>5. WorkInv'
  BY <1>0, <1>2
  DEF TypeOK, WorkInv, ClosingInv, JobOpen, Uncreated, Engaged, Null
<1>6. RanInv'
  BY <1>0, <1>2
  DEF TypeOK, TaskState, RanInv, WorkInv, ClosingInv, JobOpen, HasReset, Engaged
<1>7. ClosingInv'
  BY <1>0 DEF TypeOK, ClosingInv, WorkInv, HasArrived, Uncreated, Engaged, Threads, Null
<1> QED
  BY <1>1, <1>3, <1>4, <1>5, <1>6, <1>7

(* A new job is open for everyone at once.                                 *)
LEMMA SubmitKeeps ==
  ASSUME IInv, Submit
  PROVE  IInv'
<1> USE DEF IInv, PoolInv, Submit, At, Goto, clientVars, barrierVars, futureVars
<1>0. Main \in Threads /\ Main \notin Workers /\ Workers \subseteq Threads
  BY PoolAssumption DEF Threads
<1>a. ASSUME closing = "no", NEW u \in Threads PROVE ~HasArrived(u)
  BY <1>a, NobodyArrives
<1>1. TypeOK'
  BY <1>0 DEF TypeOK, TaskState, Points, Null
<1>2. \A u \in Threads : HasArrived(u)' <=> HasArrived(u)
  BY <1>0, <1>a DEF TypeOK, HasArrived, ClosingInv, WorkInv, MutexInv, Threads
<1>3. BarrierIsConsistent'
  BY <1>0, <1>2, <1>a DEF TypeOK, BarrierIsConsistent, MutexInv, ThreadNum, Arrived
<1>4. MutexInv'
  BY <1>0, <1>a DEF TypeOK, MutexInv
<1>5. WorkInv'
  BY <1>0, <1>2, <1>a
  DEF TypeOK, WorkInv, ClosingInv, JobOpen, Uncreated, Engaged, Null
<1>6. RanInv'
  BY <1>0, <1>2, <1>a
  DEF TypeOK, TaskState, RanInv, WorkInv, ClosingInv, JobOpen, HasReset, Engaged
<1>7. ClosingInv'
  BY <1>0, <1>a DEF TypeOK, ClosingInv, WorkInv, HasArrived, Uncreated, Engaged, Threads, Null
<1> QED
  BY <1>1, <1>3, <1>4, <1>5, <1>6, <1>7

(* The destructor empties work_ between jobs.                              *)
LEMMA DestroyKeeps ==
  ASSUME IInv, Destroy
  PROVE  IInv'
<1> USE DEF IInv, PoolInv, Destroy, At, Goto, clientVars, barrierVars, futureVars
<1>0. Main \in Threads /\ Main \notin Workers /\ Workers \subseteq Threads
  BY PoolAssumption DEF Threads
<1>a. ASSUME closing = "no", NEW u \in Threads PROVE ~HasArrived(u)
  BY <1>a, NobodyArrives
<1>1. TypeOK'
  BY <1>0 DEF TypeOK, TaskState, Points, Null
<1>2. \A u \in Threads : HasArrived(u)' <=> HasArrived(u)
  BY <1>0, <1>a DEF TypeOK, HasArrived, ClosingInv, WorkInv, MutexInv, Threads
<1>3. BarrierIsConsistent'
  BY <1>0, <1>2, <1>a DEF TypeOK, BarrierIsConsistent, MutexInv, ThreadNum, Arrived
<1>4. MutexInv'
  BY <1>0, <1>a DEF TypeOK, MutexInv
<1>5. WorkInv'
  BY <1>0, <1>2, <1>a
  DEF TypeOK, WorkInv, ClosingInv, JobOpen, Uncreated, Engaged, Null
<1>6. RanInv'
  BY <1>0, <1>2, <1>a
  DEF TypeOK, TaskState, RanInv, WorkInv, ClosingInv, JobOpen, HasReset, Engaged
<1>7. ClosingInv'
  BY <1>0, <1>a DEF TypeOK, ClosingInv, WorkInv, HasArrived, Uncreated, Engaged, Threads, Null
<1> QED
  BY <1>1, <1>3, <1>4, <1>5, <1>6, <1>7

(* is_working_ goes up after work_ is set, when no job runs.               *)
LEMMA RaiseWorkingKeeps ==
  ASSUME IInv, RaiseWorking
  PROVE  IInv'
<1> USE DEF IInv, PoolInv, RaiseWorking, At, Goto, clientVars, barrierVars, futureVars
<1>0. Main \in Threads /\ Main \notin Workers /\ Workers \subseteq Threads
  BY PoolAssumption DEF Threads
<1>a. ASSUME closing = "no", NEW u \in Threads PROVE ~HasArrived(u)
  BY <1>a, NobodyArrives
<1>1. TypeOK'
  BY <1>0 DEF TypeOK, TaskState, Points, Null
<1>2. \A u \in Threads : HasArrived(u)' <=> HasArrived(u)
  BY <1>0, <1>a DEF TypeOK, HasArrived, ClosingInv, WorkInv, MutexInv, Threads
<1>3. BarrierIsConsistent'
  BY <1>0, <1>2, <1>a DEF TypeOK, BarrierIsConsistent, MutexInv, ThreadNum, Arrived
<1>4. MutexInv'
  BY <1>0, <1>a DEF TypeOK, MutexInv
<1>5. WorkInv'
  BY <1>0, <1>2, <1>a
  DEF TypeOK, WorkInv, ClosingInv, HasArrived, JobOpen, Uncreated, Engaged, Null
<1>6. RanInv'
  BY <1>0, <1>2, <1>a
  DEF TypeOK, TaskState, RanInv, WorkInv, ClosingInv, JobOpen, HasReset, Engaged
<1>7. ClosingInv'
  BY <1>0, <1>a DEF TypeOK, ClosingInv, WorkInv, HasArrived, Uncreated, Engaged, Threads, Null
<1> QED
  BY <1>1, <1>3, <1>4, <1>5, <1>6, <1>7

(* Sleepers are woken, and the owner goes on.                              *)
LEMMA NotifyWorkersKeeps ==
  ASSUME IInv, NotifyWorkers
  PROVE  IInv'
<1> USE DEF IInv, PoolInv, NotifyWorkers, AfterSetWork, At, Goto, clientVars, barrierVars, futureVars
<1>0. Main \in Threads /\ Main \notin Workers /\ Workers \subseteq Threads
  BY PoolAssumption DEF Threads
<1>1. TypeOK'
  BY <1>0 DEF TypeOK, TaskState, Points, Null
<1>2. \A u \in Threads : HasArrived(u)' <=> HasArrived(u)
  BY <1>0 DEF TypeOK, HasArrived, ClosingInv, WorkInv, MutexInv, Threads
<1>3. BarrierIsConsistent'
  BY <1>0, <1>2 DEF TypeOK, BarrierIsConsistent, MutexInv, ThreadNum, Arrived
<1>4. MutexInv'
  BY <1>0 DEF TypeOK, MutexInv
<1>5. WorkInv'
  BY <1>0, <1>2
  DEF TypeOK, WorkInv, ClosingInv, JobOpen, Uncreated, Engaged, Null
<1>6. RanInv'
  BY <1>0, <1>2
  DEF TypeOK, TaskState, RanInv, WorkInv, ClosingInv, JobOpen, HasReset, Engaged
<1>7. ClosingInv'
  BY <1>0 DEF TypeOK, ClosingInv, WorkInv, HasArrived, Uncreated, Engaged, Threads, Null
<1> QED
  BY <1>1, <1>3, <1>4, <1>5, <1>6, <1>7

(* The owner joins workers that have left.                                 *)
LEMMA JoinWorkersKeeps ==
  ASSUME IInv, JoinWorkers
  PROVE  IInv'
<1> USE DEF IInv, PoolInv, JoinWorkers, At, Goto, clientVars, barrierVars, futureVars
<1>0. Main \in Threads /\ Main \notin Workers /\ Workers \subseteq Threads
  BY PoolAssumption DEF Threads
<1>1. TypeOK'
  BY <1>0 DEF TypeOK, TaskState, Points, Null
<1>2. \A u \in Threads : HasArrived(u)' <=> HasArrived(u)
  BY <1>0 DEF TypeOK, HasArrived, ClosingInv, WorkInv, MutexInv, Threads
<1>3. BarrierIsConsistent'
  BY <1>0, <1>2 DEF TypeOK, BarrierIsConsistent, MutexInv, ThreadNum, Arrived
<1>4. MutexInv'
  BY <1>0 DEF TypeOK, MutexInv
<1>5. WorkInv'
  BY <1>0, <1>2
  DEF TypeOK, WorkInv, ClosingInv, JobOpen, Uncreated, Engaged, Null
<1>6. RanInv'
  BY <1>0, <1>2
  DEF TypeOK, TaskState, RanInv, WorkInv, ClosingInv, JobOpen, HasReset, Engaged
<1>7. ClosingInv'
  BY <1>0 DEF TypeOK, ClosingInv, WorkInv, HasArrived, Uncreated, Engaged, Threads, Null
<1> QED
  BY <1>1, <1>3, <1>4, <1>5, <1>6, <1>7

(* A thread takes a fresh task for the open job.                           *)
LEMMA ResetTaskKeeps ==
  ASSUME IInv, NEW t \in Threads, ResetTask(t)
  PROVE  IInv'
<1> USE DEF IInv, PoolInv, ResetTask, At, Goto, clientVars, barrierVars, futureVars
<1>0. t \in Threads /\ Main \in Threads
  BY PoolAssumption DEF Threads
<1>1. TypeOK'
  BY <1>0 DEF TypeOK, TaskState, Points, Null
<1>2. \A u \in Threads : HasArrived(u)' <=> HasArrived(u)
  BY <1>0 DEF TypeOK, HasArrived, ClosingInv, WorkInv, MutexInv, Threads
<1>3. BarrierIsConsistent'
  BY <1>0, <1>2 DEF TypeOK, BarrierIsConsistent, MutexInv, ThreadNum, Arrived
<1>4. MutexInv'
  BY <1>0 DEF TypeOK, MutexInv
<1>5. WorkInv'
  BY <1>0, <1>2
  DEF TypeOK, WorkInv, ClosingInv, JobOpen, Uncreated, Engaged, Null
<1>6. RanInv'
  <2> SUFFICES ASSUME closing = "no", NEW u \in Threads
               PROVE  task'[u].resets = IF JobOpen' /\ ~HasReset(u)'
                                        THEN jobs - 1 ELSE jobs
    BY DEF RanInv
  <2>1. isWorking /\ JobOpen /\ JobOpen'
    BY <1>0 DEF WorkInv, Engaged, JobOpen
  <2>2. CASE u = t
    <3>1. ~HasReset(t) /\ HasReset(t)'
      BY <1>0 DEF HasReset, HasArrived, TypeOK
    <3>2. task[t].resets = jobs - 1
      BY <2>1, <3>1 DEF RanInv
    <3>3. task'[t].resets = task[t].resets + 1
      BY DEF TypeOK, TaskState
    <3> QED
      BY <2>1, <2>2, <3>1, <3>2, <3>3 DEF TypeOK
  <2>3. CASE u # t
    <3>1. task'[u] = task[u] /\ (HasReset(u)' <=> HasReset(u))
      BY <1>2, <2>3 DEF TypeOK, HasReset
    <3> QED
      BY <2>1, <2>3, <3>1 DEF RanInv
  <2> QED
    BY <2>2, <2>3
<1>7. ClosingInv'
  BY <1>0 DEF TypeOK, ClosingInv, WorkInv, HasArrived, Uncreated, Engaged, Threads, Null
<1> QED
  BY <1>1, <1>3, <1>4, <1>5, <1>6, <1>7

(* The last to arrive lowers is_working_.                                  *)
LEMMA CompleteKeeps ==
  ASSUME IInv, NEW t \in Threads, Complete(t)
  PROVE  IInv'
<1> USE DEF IInv, PoolInv, Complete, At, Goto, clientVars, barrierVars, futureVars
<1>0. t \in Threads /\ Main \in Threads
  BY PoolAssumption DEF Threads
<1>a. \A u \in Threads : HasArrived(u)
  BY LastArrives
<1>1. TypeOK'
  BY <1>0 DEF TypeOK, TaskState, Points, Null
<1>2. \A u \in Threads : HasArrived(u)' <=> HasArrived(u)
  BY <1>0, <1>a DEF TypeOK, HasArrived, ClosingInv, WorkInv, MutexInv, Threads
<1>3. BarrierIsConsistent'
  BY <1>0, <1>2, <1>a DEF TypeOK, BarrierIsConsistent, MutexInv, ThreadNum, Arrived
<1>4. MutexInv'
  BY <1>0, <1>a DEF TypeOK, MutexInv
<1>5. WorkInv'
  <2>1. \A u \in Threads : u # t => pc[u] \in {"bwait", "bsleep"}
    BY <1>a, LastArrives DEF HasArrived, MutexInv
  <2> QED
    BY <1>0, <1>a, <2>1, LastArrives
    DEF TypeOK, WorkInv, JobOpen, Uncreated, Engaged
<1>6. RanInv'
  BY <1>0, <1>2, <1>a
  DEF TypeOK, TaskState, RanInv, WorkInv, ClosingInv, JobOpen, HasReset, Engaged
<1>7. ClosingInv'
  BY <1>0, <1>a DEF TypeOK, ClosingInv, WorkInv, HasArrived, Uncreated, Engaged, Threads, Null
<1> QED
  BY <1>1, <1>3, <1>4, <1>5, <1>6, <1>7

(* Waiters of the barrier are woken.                                       *)
LEMMA NotifyPhaseKeeps ==
  ASSUME IInv, NEW t \in Threads, NotifyPhase(t)
  PROVE  IInv'
<1> USE DEF IInv, PoolInv, NotifyPhase, At, Goto, clientVars, barrierVars, futureVars
<1>0. t \in Threads /\ Main \in Threads
  BY PoolAssumption DEF Threads
<1>1. TypeOK'
  BY <1>0 DEF TypeOK, TaskState, Points, Null
<1>2. \A u \in Threads : HasArrived(u)' <=> HasArrived(u)
  BY <1>0 DEF TypeOK, HasArrived, ClosingInv, WorkInv, MutexInv, Threads
<1>3. BarrierIsConsistent'
  BY <1>0, <1>2 DEF TypeOK, BarrierIsConsistent, MutexInv, ThreadNum, Arrived
<1>4. MutexInv'
  BY <1>0 DEF TypeOK, MutexInv
<1>5. WorkInv'
  <2>1. \A u \in Threads :
          pc'[u] # pc[u] => pc[u] \in {"bnotify", "bsleep"} /\ pc'[u] = "bwait"
    BY DEF TypeOK
  <2>2. t = Main => ~isWorking \/ closing # "no"
    BY <1>0 DEF WorkInv
  <2> QED
    BY <1>0, <1>2, <2>1, <2>2
    DEF TypeOK, WorkInv, ClosingInv, JobOpen, Uncreated, Engaged, Threads
<1>6. RanInv'
  BY <1>0, <1>2
  DEF TypeOK, TaskState, RanInv, WorkInv, ClosingInv, JobOpen, HasReset, Engaged
<1>7. ClosingInv'
  BY <1>0 DEF TypeOK, ClosingInv, WorkInv, HasArrived, Uncreated, Engaged, Threads, Null
<1> QED
  BY <1>1, <1>3, <1>4, <1>5, <1>6, <1>7

(* A waiter leaves when its phase is over.                                 *)
LEMMA AwaitPhaseKeeps ==
  ASSUME IInv, NEW t \in Threads, AwaitPhase(t)
  PROVE  IInv'
<1> USE DEF IInv, PoolInv, AwaitPhase, At, Goto, clientVars, barrierVars, futureVars
<1>0. t \in Threads /\ Main \in Threads
  BY PoolAssumption DEF Threads
<1>1. TypeOK'
  BY <1>0 DEF TypeOK, TaskState, Points, Null
<1>2. \A u \in Threads : HasArrived(u)' <=> HasArrived(u)
  BY <1>0 DEF TypeOK, HasArrived, ClosingInv, WorkInv, MutexInv, Threads
<1>3. BarrierIsConsistent'
  BY <1>0, <1>2 DEF TypeOK, BarrierIsConsistent, MutexInv, ThreadNum, Arrived
<1>4. MutexInv'
  BY <1>0 DEF TypeOK, MutexInv
<1>5. WorkInv'
  BY <1>0, <1>2
  DEF TypeOK, WorkInv, ClosingInv, JobOpen, Uncreated, Engaged, Null
<1>6. RanInv'
  BY <1>0, <1>2
  DEF TypeOK, TaskState, RanInv, WorkInv, ClosingInv, JobOpen, HasReset, Engaged
<1>7. ClosingInv'
  BY <1>0 DEF TypeOK, ClosingInv, WorkInv, HasArrived, Uncreated, Engaged, Threads, Null
<1> QED
  BY <1>1, <1>3, <1>4, <1>5, <1>6, <1>7

(* A sleeper may wake up for nothing.                                      *)
LEMMA SpuriousWakeupKeeps ==
  ASSUME IInv, NEW t \in Threads, SpuriousWakeup(t)
  PROVE  IInv'
<1> USE DEF IInv, PoolInv, SpuriousWakeup, At, Goto, clientVars, barrierVars, futureVars
<1>0. t \in Threads /\ Main \in Threads
  BY PoolAssumption DEF Threads
<1>1. TypeOK'
  BY <1>0 DEF TypeOK, TaskState, Points, Null
<1>2. \A u \in Threads : HasArrived(u)' <=> HasArrived(u)
  BY <1>0 DEF TypeOK, HasArrived, ClosingInv, WorkInv, MutexInv, Threads
<1>3. BarrierIsConsistent'
  BY <1>0, <1>2 DEF TypeOK, BarrierIsConsistent, MutexInv, ThreadNum, Arrived
<1>4. MutexInv'
  BY <1>0 DEF TypeOK, MutexInv
<1>5. WorkInv'
  BY <1>0, <1>2
  DEF TypeOK, WorkInv, ClosingInv, JobOpen, Uncreated, Engaged, Null
<1>6. RanInv'
  BY <1>0, <1>2
  DEF TypeOK, TaskState, RanInv, WorkInv, ClosingInv, JobOpen, HasReset, Engaged
<1>7. ClosingInv'
  BY <1>0 DEF TypeOK, ClosingInv, WorkInv, HasArrived, Uncreated, Engaged, Threads, Null
<1> QED
  BY <1>1, <1>3, <1>4, <1>5, <1>6, <1>7

(* A task is ready once its job ends, and its worker waits again.          *)
LEMMA FinishTaskKeeps ==
  ASSUME IInv, NEW t \in Threads, FinishTask(t)
  PROVE  IInv'
<1> USE DEF IInv, PoolInv, FinishTask, At, Goto, clientVars, barrierVars, futureVars
<1>0. t \in Threads /\ Main \in Threads
  BY PoolAssumption DEF Threads
<1>1. TypeOK'
  BY <1>0 DEF TypeOK, TaskState, Points, Null
<1>2. \A u \in Threads : HasArrived(u)' <=> HasArrived(u)
  BY <1>0 DEF TypeOK, HasArrived, ClosingInv, WorkInv, MutexInv, Threads
<1>3. BarrierIsConsistent'
  BY <1>0, <1>2 DEF TypeOK, BarrierIsConsistent, MutexInv, ThreadNum, Arrived
<1>4. MutexInv'
  BY <1>0 DEF TypeOK, MutexInv
<1>5. WorkInv'
  BY <1>0, <1>2
  DEF TypeOK, WorkInv, ClosingInv, JobOpen, Uncreated, Engaged, Null
<1>6. RanInv'
  BY <1>0, <1>2
  DEF TypeOK, TaskState, RanInv, WorkInv, ClosingInv, JobOpen, HasReset, Engaged
<1>7. ClosingInv'
  BY <1>0 DEF TypeOK, ClosingInv, WorkInv, HasArrived, Uncreated, Engaged, Threads, Null
<1> QED
  BY <1>1, <1>3, <1>4, <1>5, <1>6, <1>7

(* The owner collects the futures.                                         *)
LEMMA CollectKeeps ==
  ASSUME IInv, NEW t \in Threads, Collect(t)
  PROVE  IInv'
<1> USE DEF IInv, PoolInv, Collect, At, Goto, clientVars, barrierVars, futureVars
<1>0. t \in Threads /\ Main \in Threads
  BY PoolAssumption DEF Threads
<1>1. TypeOK'
  BY <1>0 DEF TypeOK, TaskState, Points, Null
<1>2. \A u \in Threads : HasArrived(u)' <=> HasArrived(u)
  BY <1>0 DEF TypeOK, HasArrived, ClosingInv, WorkInv, MutexInv, Threads
<1>3. BarrierIsConsistent'
  BY <1>0, <1>2 DEF TypeOK, BarrierIsConsistent, MutexInv, ThreadNum, Arrived
<1>4. MutexInv'
  BY <1>0 DEF TypeOK, MutexInv
<1>5. WorkInv'
  BY <1>0, <1>2
  DEF TypeOK, WorkInv, ClosingInv, JobOpen, Uncreated, Engaged, Null
<1>6. RanInv'
  BY <1>0, <1>2
  DEF TypeOK, TaskState, RanInv, WorkInv, ClosingInv, JobOpen, HasReset, Engaged
<1>7. ClosingInv'
  BY <1>0 DEF TypeOK, ClosingInv, WorkInv, HasArrived, Uncreated, Engaged, Threads, Null
<1> QED
  BY <1>1, <1>3, <1>4, <1>5, <1>6, <1>7

(* A thread that runs has run the open job once more.                      *)
LEMMA RunWorkKeeps ==
  ASSUME IInv, NEW t \in Threads, NEW throws \in BOOLEAN, RunWork(t, throws)
  PROVE  IInv'
<1> USE DEF IInv, PoolInv, RunWork, At, Goto, clientVars, barrierVars, futureVars
<1>0. t \in Threads /\ Main \in Threads
  BY PoolAssumption DEF Threads
<1>1. TypeOK'
  BY <1>0 DEF TypeOK, TaskState, Points, Null
<1>2. \A u \in Threads : HasArrived(u)' <=> HasArrived(u)
  BY <1>0 DEF TypeOK, HasArrived, ClosingInv, WorkInv, MutexInv, Threads
<1>3. BarrierIsConsistent'
  BY <1>0, <1>2 DEF TypeOK, BarrierIsConsistent, MutexInv, ThreadNum, Arrived
<1>4. MutexInv'
  BY <1>0 DEF TypeOK, MutexInv
<1>5. WorkInv'
  BY <1>0, <1>2
  DEF TypeOK, WorkInv, ClosingInv, JobOpen, Uncreated, Engaged, Null
<1>6. RanInv'
  BY <1>0, <1>2
  DEF TypeOK, TaskState, RanInv, WorkInv, ClosingInv, JobOpen, HasReset, Engaged
<1>7. ClosingInv'
  BY <1>0 DEF TypeOK, ClosingInv, WorkInv, HasArrived, Uncreated, Engaged, Threads, Null
<1> QED
  BY <1>1, <1>3, <1>4, <1>5, <1>6, <1>7

(* The swap of the phase resets the counter.                               *)
LEMMA OpenPhaseKeeps ==
  ASSUME IInv, NEW t \in Threads, OpenPhase(t)
  PROVE  IInv'
<1> USE DEF IInv, PoolInv, OpenPhase, At, Goto, clientVars, barrierVars, futureVars
<1>0. t \in Threads /\ Main \in Threads /\ ThreadNum \in Nat \ {0}
  BY ThreadsAreFinite DEF Threads
<1>1. \A u \in Threads : HasArrived(u)
  BY LastArrives
<1>2. closing = "no" /\ ~isWorking
  BY <1>0 DEF ClosingInv, WorkInv
<1>3. \A u \in Threads : ~HasArrived(u)'
  BY <1>0, <1>1, <1>2 DEF HasArrived, TypeOK, MutexInv
<1>4. \A u \in Threads : u # t => pc[u] \in {"bwait", "bsleep"} /\ arrivedAt[u] = phase
  BY <1>1, <1>2 DEF HasArrived, MutexInv
<1>5. TypeOK'
  BY <1>0 DEF TypeOK, TaskState, Points
<1>6. BarrierIsConsistent'
  <2>1. Arrived' = {}
    BY <1>3 DEF Arrived
  <2> QED
    BY <1>0, <1>4, <2>1, FS_EmptySet, ThreadsAreFinite
    DEF BarrierIsConsistent, TypeOK, ThreadNum
<1>7. MutexInv'
  BY <1>0, <1>4, PoolAssumption DEF TypeOK, MutexInv, Free, Threads
<1>8. WorkInv'
  BY <1>0, <1>2, <1>3, <1>4
  DEF TypeOK, WorkInv, JobOpen, Uncreated, Engaged, Threads
<1>9. RanInv'
  BY <1>0, <1>1, <1>2, <1>3, <1>4 DEF RanInv, HasReset, JobOpen, TypeOK
<1>10. ClosingInv'
  BY <1>2 DEF ClosingInv
<1> QED
  BY <1>5, <1>6, <1>7, <1>8, <1>9, <1>10

(* An arrival takes one from the counter.                                  *)
LEMMA ArriveKeeps ==
  ASSUME IInv, NEW t \in Threads, Arrive(t)
  PROVE  IInv'
<1> USE DEF IInv, PoolInv, Arrive, ArriveBy, At, Goto, clientVars, barrierVars, futureVars
<1>0. t \in Threads /\ Main \in Threads /\ ThreadNum \in Nat \ {0}
  BY ThreadsAreFinite DEF Threads
<1>1. closing = "no" /\ isWorking
  BY <1>0 DEF ClosingInv, WorkInv, Engaged
<1>2. \A u \in Threads : HasArrived(u)' <=> HasArrived(u) \/ u = t
  BY <1>0, <1>1 DEF HasArrived, TypeOK
<1>3. Cardinality(Arrived') = Cardinality(Arrived) + 1
  <2>1. Arrived' = Arrived \cup {t} /\ t \notin Arrived
    BY <1>0, <1>1, <1>2 DEF Arrived, HasArrived
  <2> QED
    BY <2>1, ArrivedIsFinite, FS_AddElement
<1>4. Cardinality(Arrived) + 1 <= ThreadNum /\ count \in Nat \ {0}
  <2>1. t \notin Arrived
    BY <1>1 DEF Arrived, HasArrived
  <2> QED
    BY <1>0, <2>1, ArrivedIsFinite DEF BarrierIsConsistent
<1>5. TypeOK'
  BY <1>0, <1>4 DEF TypeOK, TaskState, Points
<1>6. BarrierIsConsistent'
  BY <1>0, <1>3, <1>4, ArrivedIsFinite DEF BarrierIsConsistent, TypeOK, ThreadNum
<1>7. MutexInv'
  BY <1>0, <1>4, PoolAssumption DEF TypeOK, MutexInv, Free, Threads
<1>8. WorkInv'
  BY <1>0, <1>1, <1>2
  DEF TypeOK, WorkInv, JobOpen, Uncreated, Engaged, Threads
<1>9. RanInv'
  BY <1>0, <1>1, <1>2 DEF RanInv, HasReset, JobOpen, TypeOK
<1>10. ClosingInv'
  BY <1>1 DEF ClosingInv
<1> QED
  BY <1>5, <1>6, <1>7, <1>8, <1>9, <1>10

(* The failed constructor arrives for the workers never created.           *)
LEMMA AbandonKeeps ==
  ASSUME IInv, Abandon
  PROVE  IInv'
<1> USE DEF IInv, PoolInv, Abandon, ArriveBy, At, Goto, clientVars, barrierVars, futureVars
<1>0. Main \in Threads /\ Main \notin Workers /\ Workers \subseteq Threads
  BY PoolAssumption DEF Threads
<1>1. closing = "ctor"
  BY <1>0 DEF ClosingInv, WorkInv, TypeOK
<1>2. /\ Cardinality(Uncreated) \in Nat \ {0}
      /\ Cardinality(Uncreated) < ThreadNum
  <2>1. Uncreated \subseteq Workers /\ Uncreated # {}
    BY <1>1 DEF Uncreated, ClosingInv
  <2> QED
    BY <2>1, ThreadsAreFinite, FS_Subset, FS_EmptySet, FS_CardinalityType
<1>3. Arrived = {} /\ count = ThreadNum
  <2>1. Arrived = {}
    BY <1>1 DEF Arrived, HasArrived
  <2> QED
    BY <2>1, FS_EmptySet, ThreadsAreFinite DEF BarrierIsConsistent
<1>4. count' = ThreadNum - Cardinality(Uncreated) /\ count' \in Nat \ {0}
  BY <1>2, <1>3, ThreadsAreFinite
<1>5. pc' = [pc EXCEPT ![Main] = "bwait"] /\ mt' = mt
      /\ arrivedAt' = [arrivedAt EXCEPT ![Main] = phase]
  BY <1>4
<1>6. TypeOK'
  BY <1>0, <1>4, <1>5 DEF TypeOK, TaskState, Points
<1>7. BarrierIsConsistent'
  <2>1. Arrived' = Uncreated
    BY <1>0, <1>1, <1>5 DEF Arrived, HasArrived, Uncreated, Threads, TypeOK
  <2> QED
    BY <1>0, <1>4, <1>5, <2>1 DEF BarrierIsConsistent, TypeOK, ThreadNum
<1>8. MutexInv'
  BY <1>0, <1>3, <1>4, <1>5, ThreadsAreFinite DEF TypeOK, MutexInv
<1>9. WorkInv' /\ RanInv'
  BY <1>1 DEF WorkInv, RanInv
<1>10. ClosingInv'
  BY <1>0, <1>1, <1>5 DEF TypeOK, ClosingInv, Uncreated
<1> QED
  BY <1>6, <1>7, <1>8, <1>9, <1>10
-----------------------------------------------------------------------------
LEMMA InitEstablishes == PoolInit => IInv
<1> SUFFICES ASSUME PoolInit PROVE IInv
  OBVIOUS
<1> USE DEF PoolInit, At
<1>0. /\ Main \in Threads /\ Main \notin Workers /\ Workers \subseteq Threads
      /\ ThreadNum \in Nat \ {0} /\ Free \notin Threads
  BY PoolAssumption, ThreadsAreFinite DEF Threads, Free
<1>1. TypeOK
  BY <1>0 DEF TypeOK, TaskState, Points, Null
<1>2. \A t \in Threads : ~HasArrived(t) /\ ~HasReset(t)
  BY <1>0 DEF HasArrived, HasReset
<1>3. BarrierIsConsistent
  <2>1. Arrived = {}
    BY <1>2 DEF Arrived
  <2> QED
    BY <1>0, <2>1, FS_EmptySet DEF BarrierIsConsistent, Threads
<1>4. MutexInv
  BY <1>0 DEF MutexInv
<1>5. WorkInv /\ RanInv /\ ClosingInv
  BY <1>0, <1>2
  DEF WorkInv, RanInv, ClosingInv, JobOpen, Uncreated, Engaged, Null, Threads
<1> QED
  BY <1>1, <1>3, <1>4, <1>5 DEF IInv, PoolInv

(* Every step keeps the invariant.                                         *)
LEMMA StepKeeps == IInv /\ [Next]_poolVars => IInv'
<1> SUFFICES ASSUME IInv, [Next]_poolVars PROVE IInv'
  OBVIOUS
<1>1. CASE UNCHANGED poolVars
  BY <1>1 DEF poolVars, clientVars, barrierVars, futureVars, IInv, PoolInv,
              TypeOK, BarrierIsConsistent, MutexInv, WorkInv, RanInv, ClosingInv,
              Arrived, HasArrived, HasReset, JobOpen, Engaged, Uncreated, At
<1>2. CASE OwnerStep
  BY <1>2, CreateThreadKeeps, ConstructorDoneKeeps, CreateThreadFailsKeeps,
     RaiseWorkingKeeps, NotifyWorkersKeeps, JoinWorkersKeeps, AbandonKeeps,
     CollectKeeps DEF OwnerStep, Construct
<1>3. ASSUME NEW w \in Workers, WorkerStep(w) PROVE IInv'
  BY <1>3, AwaitWorkKeeps, CheckWorkKeeps DEF WorkerStep
<1>4. ASSUME NEW t \in Threads, SharedStep(t) PROVE IInv'
  BY <1>4, ResetTaskKeeps, ArriveKeeps, CompleteKeeps, OpenPhaseKeeps,
     NotifyPhaseKeeps, AwaitPhaseKeeps, FinishTaskKeeps DEF SharedStep
<1>5. ASSUME NEW t \in Threads, SpuriousWakeup(t) \/ Run(t) PROVE IInv'
  BY <1>5, SpuriousWakeupKeeps, RunWorkKeeps DEF Run
<1>6. CASE Submit \/ Destroy
  BY <1>6, SubmitKeeps, DestroyKeeps
<1> QED
  BY <1>1, <1>2, <1>3, <1>4, <1>5, <1>6 DEF Next, PoolStep, PoolEnded

(* The inductive invariant holds in every reachable state.                 *)
THEOREM PoolInvariant == Spec => []IInv
  BY InitEstablishes, StepKeeps, PTL DEF Spec

(* Every variable has its type; in particular count_ never underflows.     *)
THEOREM TypeCorrect == Spec => []TypeOK
<1>1. IInv => TypeOK
  BY DEF IInv
<1> QED
  BY <1>1, PoolInvariant, PTL

(* The precondition of SetWork, "Previous tasks must be finished", holds   *)
(* whenever the owner can call it or collects the futures.                 *)
THEOREM NoWorkerStrays == Spec => []NoStrayWork
<1>1. IInv => NoStrayWork
  <2> SUFFICES ASSUME IInv,
                      pc[Main] \in {"ctor", "ready", "set", "finish", "collect"}
               PROVE  ~isWorking /\ \A w \in Workers : ~Engaged(w)
    BY DEF NoStrayWork
  <2> USE DEF IInv, PoolInv
  <2>1. CASE closing = "no"
    BY <2>1 DEF WorkInv, Threads
  <2>2. CASE closing # "no"
    BY <2>2 DEF ClosingInv, Engaged, Threads, TypeOK, At
  <2> QED
    BY <2>1, <2>2
<1> QED
  BY <1>1, PoolInvariant, PTL

(* DESBORDANTE_ASSUME(pool.work_): who runs the functor runs the last job. *)
THEOREM CurrentJobIsRun == Spec => []RunsCurrentJob
<1>1. IInv => RunsCurrentJob
  BY DEF IInv, PoolInv, RunsCurrentJob, WorkInv, ClosingInv, Engaged, JobOpen,
         TypeOK, Null
<1> QED
  BY <1>1, PoolInvariant, PTL

(* Between two jobs every thread has run each submitted job exactly once.  *)
THEOREM JobsAreRunOnce == Spec => []EachThreadRanEachJob
<1>1. IInv => EachThreadRanEachJob
  BY DEF IInv, PoolInv, EachThreadRanEachJob, RanInv, WorkInv, ClosingInv,
         JobOpen, TypeOK, At
<1> QED
  BY <1>1, PoolInvariant, PTL

(* A waiter is at most one phase behind, and count_ is the number of       *)
(* threads still to arrive.                                                *)
THEOREM BarrierCounts == Spec => []BarrierIsConsistent
<1>1. IInv => BarrierIsConsistent
  BY DEF IInv, PoolInv
<1> QED
  BY <1>1, PoolInvariant, PTL

(* Whatever the number of threads and whichever of them cannot be created, *)
(* the constructor never reaches its "throw;".                             *)
THEOREM ConstructorNeverRethrows == Spec => []~At(Main, "failed")
<1>1. IInv => ~At(Main, "failed")
  BY DEF IInv, PoolInv, WorkInv, ClosingInv, TypeOK, At
<1> QED
  BY <1>1, PoolInvariant, PTL
-----------------------------------------------------------------------------
(* The state of the tasks.                                                 *)

(* What the owner does but collecting keeps TaskInv: it changes no task.   *)
LEMMA OwnerKeepsTasks ==
  ASSUME IInv, IInv', TaskInv,
         \/ \E w \in Workers : CreateThread(w)
         \/ ConstructorDone \/ CreateThreadFails \/ Submit \/ Destroy
         \/ RaiseWorking \/ NotifyWorkers \/ JoinWorkers \/ Abandon
  PROVE  TaskInv'
<1> USE DEF IInv, PoolInv, At, Goto, clientVars, barrierVars, futureVars,
            TaskInv, ErrorsAreReported, InJob, Verdict, JobOpen
<1>0. Main \in Threads /\ Workers \subseteq Threads /\ Main \notin Workers
  BY PoolAssumption DEF Threads
<1>1. CASE (\E w \in Workers : CreateThread(w)) \/ ConstructorDone \/ CreateThreadFails
  BY <1>0, <1>1
  DEF CreateThread, ConstructorDone, CreateThreadFails, TypeOK, Uncreated, WorkInv
<1>2. CASE Submit \/ Destroy
  BY <1>0, <1>2 DEF Submit, Destroy, TypeOK, WorkInv
<1>3. CASE RaiseWorking
  BY <1>0, <1>3 DEF RaiseWorking, TypeOK
<1>4. CASE NotifyWorkers
  <2>1. closing = "no" => isWorking /\ isWorking' = isWorking /\ jobs > 0
    BY <1>4 DEF NotifyWorkers, WorkInv
  <2>2. \A t \in Threads : InJob(t)' <=> InJob(t)
    BY <1>0, <1>4 DEF NotifyWorkers, AfterSetWork, TypeOK
  <2>3. pc'[Main] \notin {"ctor", "ready", "collect"}
    BY <1>0, <1>4 DEF NotifyWorkers, AfterSetWork, TypeOK
  <2> QED
    BY <1>0, <1>4, <2>1, <2>2, <2>3 DEF NotifyWorkers
<1>5. CASE JoinWorkers \/ Abandon
  BY <1>0, <1>5 DEF JoinWorkers, Abandon, ArriveBy, WorkInv
<1> QED
  BY <1>1, <1>2, <1>3, <1>4, <1>5

(* What a thread does at the barrier changes no task either.               *)
LEMMA BarrierKeepsTasks ==
  ASSUME IInv, IInv', TaskInv, NEW t \in Threads,
         Arrive(t) \/ Complete(t) \/ OpenPhase(t) \/ NotifyPhase(t) \/ AwaitPhase(t)
         \/ SpuriousWakeup(t)
  PROVE  TaskInv'
<1> USE DEF IInv, PoolInv, At, Goto, clientVars, barrierVars, futureVars,
            TaskInv, ErrorsAreReported, InJob, Verdict, JobOpen
<1>0. Main \in Threads
  BY DEF Threads
<1>1. CASE Arrive(t)
  <2>1. closing = "no" => isWorking
    BY <1>1 DEF Arrive, WorkInv, Engaged
  <2>2. /\ \A u \in Threads : InJob(u)' <=> InJob(u)
        /\ \A u \in Threads : u # t => pc'[u] = pc[u]
        /\ pc'[t] \in {"complete", "bwait"}
        /\ UNCHANGED <<isWorking, clientVars, futureVars>>
    BY <1>1 DEF Arrive, ArriveBy, TypeOK
  <2> QED
    BY <1>0, <1>1, <2>1, <2>2 DEF Arrive, TypeOK
<1>2. CASE Complete(t)
  <2>1. closing = "no" /\ \A u \in Threads : InJob(u)
    BY <1>2, LastArrives DEF Complete, HasArrived
  <2>2. \A u \in Threads : InJob(u)'
    BY <1>2, <2>1 DEF Complete, TypeOK
  <2> QED
    BY <1>0, <1>2, <2>1, <2>2 DEF Complete, TypeOK
<1>3. CASE OpenPhase(t)
  BY <1>0, <1>3 DEF OpenPhase, TypeOK
<1>4. CASE NotifyPhase(t)
  BY <1>0, <1>4 DEF NotifyPhase, TypeOK
<1>5. CASE AwaitPhase(t)
  BY <1>0, <1>5 DEF AwaitPhase, TypeOK
<1>6. CASE SpuriousWakeup(t)
  BY <1>0, <1>6 DEF SpuriousWakeup, TypeOK
<1> QED
  BY <1>1, <1>2, <1>3, <1>4, <1>5, <1>6

(* The steps that change a task, and those that lead a worker to it.       *)
LEMMA TaskStepsKeepTasks ==
  ASSUME IInv, IInv', TaskInv, NEW t \in Threads,
         \/ t \in Workers /\ WorkerStep(t)
         \/ ResetTask(t) \/ Run(t) \/ FinishTask(t) \/ Collect(t)
  PROVE  TaskInv'
<1> USE DEF IInv, PoolInv, At, Goto, clientVars, barrierVars, futureVars,
            TaskInv, ErrorsAreReported, InJob, Verdict, JobOpen
<1>0. Main \in Threads /\ Main \notin Workers
  BY PoolAssumption DEF Threads
<1>1. CASE t \in Workers /\ WorkerStep(t)
  BY <1>0, <1>1 DEF WorkerStep, AwaitWork, CheckWork, TypeOK
<1>2. CASE ResetTask(t)
  BY <1>0, <1>2 DEF ResetTask, TypeOK, TaskState, WorkInv, Engaged
<1>3. CASE Run(t)
  BY <1>0, <1>3 DEF Run, RunWork, TypeOK, WorkInv, Engaged
<1>4. CASE FinishTask(t)
  BY <1>0, <1>4 DEF FinishTask, TypeOK, TaskState, WorkInv
<1>5. CASE Collect(t)
  BY <1>0, <1>5 DEF Collect, TypeOK, TaskState, WorkInv
<1> QED
  BY <1>1, <1>2, <1>3, <1>4, <1>5

(* TaskInv holds in every reachable state.                                 *)
LEMMA TasksInvariant == Spec => []TaskInv
<1>1. PoolInit => TaskInv
  BY PoolAssumption
  DEF PoolInit, TaskInv, ErrorsAreReported, InJob, Verdict, JobOpen, At, Threads
<1>2. IInv /\ IInv' /\ TaskInv /\ [Next]_poolVars => TaskInv'
  <2> SUFFICES ASSUME IInv, IInv', TaskInv, [Next]_poolVars PROVE TaskInv'
    OBVIOUS
  <2>1. CASE UNCHANGED poolVars
    BY <2>1 DEF poolVars, clientVars, futureVars, TaskInv, ErrorsAreReported, InJob,
                Verdict, JobOpen, At
  <2>2. CASE OwnerStep \/ Submit \/ Destroy
    BY <2>2, OwnerKeepsTasks, TaskStepsKeepTasks DEF OwnerStep, Construct
  <2>3. ASSUME NEW w \in Workers, WorkerStep(w) PROVE TaskInv'
    BY <2>3, TaskStepsKeepTasks DEF Threads
  <2>4. ASSUME NEW t \in Threads, SharedStep(t) \/ SpuriousWakeup(t) \/ Run(t)
        PROVE  TaskInv'
    BY <2>4, BarrierKeepsTasks, TaskStepsKeepTasks DEF SharedStep
  <2> QED
    BY <2>1, <2>2, <2>3, <2>4 DEF Next, PoolStep, PoolEnded
<1> QED
  BY <1>1, <1>2, PoolInvariant, PTL DEF Spec

(* Wait ends with an error exactly if a run of the functor threw, and      *)
(* never with a future_error.                                              *)
THEOREM ErrorsAlwaysReported == Spec => []ErrorsAreReported
<1>1. IInv /\ TaskInv => ErrorsAreReported
  BY DEF IInv, PoolInv, ClosingInv, TypeOK, At, TaskInv, ErrorsAreReported
<1> QED
  BY <1>1, PoolInvariant, TasksInvariant, PTL
-----------------------------------------------------------------------------
(* The pool implements ForkJoin.                                           *)

jobView == <<OwnerState, jobs, DoneBy, ThrewIn, outcome>>

(* A step that leaves the client's view of the job as it is.               *)
LEMMA SameView ==
  ASSUME UNCHANGED <<jobs, threw, outcome>>, OwnerState' = OwnerState,
         \A t \in Threads : Executed(t)' <=> Executed(t)
  PROVE  UNCHANGED jobView
BY DEF jobView, DoneBy, ThrewIn

(* A thread that has not reset its task for the open job, or only that,    *)
(* has not executed the job.                                               *)
LEMMA NotExecuted ==
  ASSUME IInv, closing = "no", NEW t \in Threads,
         pc[t] \in {"reset", "run"} \/ (JobOpen /\ ~HasReset(t))
  PROVE  ~Executed(t)
BY DEF IInv, TypeOK, PoolInv, RanInv, Executed

(* What the owner does outside Wait is the abstract Begin, Close or        *)
(* nothing.                                                                *)
LEMMA OwnerImplements ==
  ASSUME IInv, IInv', TaskInv,
         \/ \E w \in Workers : CreateThread(w)
         \/ ConstructorDone \/ CreateThreadFails \/ Submit \/ Destroy
         \/ RaiseWorking \/ NotifyWorkers \/ JoinWorkers \/ Abandon
  PROVE  [Pool!Next]_jobView
<1> USE DEF IInv, PoolInv, At, Goto, clientVars, barrierVars, futureVars, Executed
<1>0. Main \in Threads /\ Workers \subseteq Threads /\ Main \notin Workers
  BY PoolAssumption DEF Threads
<1>1. CASE (\E w \in Workers : CreateThread(w)) \/ ConstructorDone
  BY <1>0, <1>1, SameView
  DEF CreateThread, ConstructorDone, TypeOK, OwnerState, WorkInv, ClosingInv
<1>2. CASE CreateThreadFails \/ Destroy
  <2>1. /\ \A t \in Threads : Executed(t)' <=> Executed(t)
        /\ UNCHANGED <<jobs, threw, outcome>>
        /\ OwnerState = "idle" /\ OwnerState' = "closed"
    BY <1>0, <1>2
    DEF CreateThreadFails, Destroy, TypeOK, OwnerState, WorkInv, ClosingInv
  <2> QED
    BY <2>1 DEF DoneBy, ThrewIn, Pool!Next, Pool!Close
<1>3. CASE Submit
  <2>1. OwnerState = "idle" /\ OwnerState' = "running"
    BY <1>0, <1>3 DEF Submit, TypeOK, OwnerState, ClosingInv
  <2>2. \A t \in Threads : ~Executed(t)'
    BY <1>0, <1>3 DEF Submit, TypeOK, RanInv, WorkInv, ClosingInv, JobOpen
  <2> QED
    BY <1>3, <2>1, <2>2 DEF Submit, DoneBy, ThrewIn, Pool!Next, Pool!Begin
<1>4. CASE RaiseWorking \/ JoinWorkers
  BY <1>0, <1>4, SameView
  DEF RaiseWorking, JoinWorkers, TypeOK, OwnerState, WorkInv
<1>6. CASE Abandon
  <2>1. closing = "ctor" /\ closing' = closing
    BY <1>6 DEF Abandon, ArriveBy, WorkInv, ClosingInv, TypeOK
  <2>2. pc'[Main] \in {"complete", "bwait"} /\ \A t \in Workers : pc'[t] = pc[t]
    BY <1>0, <1>6 DEF Abandon, ArriveBy, TypeOK
  <2>3. \A t \in Threads : Executed(t)' <=> Executed(t)
    BY <1>0, <1>6, <2>2 DEF Abandon, ArriveBy, Threads
  <2> QED
    BY <1>6, <2>1, <2>3, SameView DEF Abandon, ArriveBy, OwnerState
<1>5. CASE NotifyWorkers
  <2>1. closing = "no" => isWorking /\ ~Executed(Main)
    BY <1>0, <1>5, NotExecuted
    DEF NotifyWorkers, WorkInv, ClosingInv, JobOpen, HasReset, HasArrived
  <2>2. \A w \in Workers : pc'[w] # pc[w] => pc[w] = "wsleep" /\ pc'[w] = "wwait"
    BY <1>0, <1>5 DEF NotifyWorkers, TypeOK
  <2>3. pc'[Main] = AfterSetWork /\ UNCHANGED <<task, jobs, threw, outcome, closing>>
    BY <1>0, <1>5 DEF NotifyWorkers
  <2>4. \A t \in Threads : Executed(t)' <=> Executed(t)
    BY <1>0, <1>5, <2>1, <2>2, <2>3 DEF NotifyWorkers, AfterSetWork, Threads, TypeOK
  <2> QED
    BY <1>5, <2>3, <2>4, SameView DEF NotifyWorkers, AfterSetWork, OwnerState, TypeOK
<1> QED
  BY <1>1, <1>2, <1>3, <1>4, <1>5, <1>6

(* What happens at the barrier is not seen by the client.                  *)
LEMMA BarrierImplements ==
  ASSUME IInv, IInv', TaskInv, NEW t \in Threads,
         Arrive(t) \/ Complete(t) \/ OpenPhase(t) \/ NotifyPhase(t) \/ AwaitPhase(t)
         \/ SpuriousWakeup(t)
  PROVE  [Pool!Next]_jobView
<1> USE DEF IInv, PoolInv, At, Goto, clientVars, barrierVars, futureVars, Executed
<1>0. Main \in Threads
  BY DEF Threads
<1>1. /\ UNCHANGED <<task, jobs, threw, outcome, closing>>
      /\ \A u \in Threads :
           pc'[u] # pc[u] => {pc[u], pc'[u]} \cap {"ctor", "ready", "reset", "run"} = {}
  <2>1. CASE Arrive(t)
    BY <2>1 DEF Arrive, ArriveBy, TypeOK
  <2>2. CASE Complete(t) \/ OpenPhase(t) \/ AwaitPhase(t) \/ SpuriousWakeup(t)
    BY <2>2 DEF Complete, OpenPhase, AwaitPhase, SpuriousWakeup, TypeOK
  <2>3. CASE NotifyPhase(t)
    BY <2>3 DEF NotifyPhase, TypeOK
  <2> QED
    BY <2>1, <2>2, <2>3
<1>2. \A u \in Threads : Executed(u)' <=> Executed(u)
  BY <1>1
<1>3. OwnerState' = OwnerState
  BY <1>0, <1>1 DEF OwnerState
<1> QED
  BY <1>1, <1>2, <1>3, SameView

(* A run of the functor is Execute, and the last future to be collected is *)
(* End.                                                                    *)
LEMMA TaskStepsImplement ==
  ASSUME IInv, IInv', TaskInv, NEW t \in Threads,
         \/ t \in Workers /\ WorkerStep(t)
         \/ ResetTask(t) \/ Run(t) \/ FinishTask(t) \/ Collect(t)
  PROVE  [Pool!Next]_jobView
<1> USE DEF IInv, PoolInv, At, Goto, clientVars, barrierVars, futureVars
<1>0. Main \in Threads /\ Main \notin Workers
  BY PoolAssumption DEF Threads
<1>1. CASE t \in Workers /\ WorkerStep(t)
  <2>1. /\ UNCHANGED <<task, jobs, threw, outcome, closing>>
        /\ \A u \in Threads \ {t} : pc'[u] = pc[u]
        /\ pc[t] \notin {"reset", "run"} /\ pc'[t] # "run"
    BY <1>1 DEF WorkerStep, AwaitWork, CheckWork, TypeOK
  <2>2. pc'[t] = "reset" => ~Executed(t)
    BY <1>0, <1>1, NotExecuted
    DEF WorkerStep, AwaitWork, CheckWork, TypeOK, WorkInv, ClosingInv, Engaged, JobOpen,
        HasReset, HasArrived
  <2>3. \A u \in Threads : Executed(u)' <=> Executed(u)
    BY <2>1, <2>2 DEF Executed
  <2> QED
    BY <1>0, <1>1, <2>1, <2>3, SameView DEF OwnerState
<1>2. CASE ResetTask(t)
  BY <1>0, <1>2, SameView, NotExecuted
  DEF ResetTask, TypeOK, OwnerState, Executed
<1>3. CASE Run(t)
  <2>1. PICK throws \in BOOLEAN : RunWork(t, throws)
    BY <1>3 DEF Run
  <2>2. closing = "no" /\ ~Executed(t)
    BY <2>1, NotExecuted DEF RunWork, ClosingInv
  <2>3. Executed(t)' /\ \A u \in Threads \ {t} : Executed(u)' <=> Executed(u)
    BY <2>1, <2>2 DEF RunWork, TypeOK, Executed, RanInv, HasReset, WorkInv, Engaged, JobOpen
  <2>4. OwnerState = "running" /\ OwnerState' = OwnerState
    BY <1>0, <2>1, <2>2 DEF RunWork, OwnerState, TypeOK, WorkInv, Engaged
  <2>5. DoneBy' = DoneBy \cup {t} /\ t \notin DoneBy
    BY <2>2, <2>3 DEF DoneBy
  <2>6. ThrewIn' \in {ThrewIn, ThrewIn \cup {t}}
    BY <2>1, <2>2, <2>3 DEF RunWork, ThrewIn, TypeOK
  <2>7. UNCHANGED <<jobs, outcome>>
    BY <2>1 DEF RunWork
  <2> QED
    BY <2>4, <2>5, <2>6, <2>7 DEF Pool!Next, Pool!Execute
<1>4. CASE FinishTask(t)
  BY <1>0, <1>4, SameView DEF FinishTask, TypeOK, TaskState, OwnerState, Executed
<1>5. CASE Collect(t)
  <2>1. closing = "no" /\ ~JobOpen /\ closing' = closing
    BY <1>5 DEF Collect, TypeOK, ClosingInv, WorkInv, JobOpen
  <2>2. \A u \in Threads : Executed(u) /\ Executed(u)'
    BY <1>0, <1>5, <2>1
    DEF Collect, TypeOK, TaskState, Executed, RanInv, WorkInv, Engaged, TaskInv
  <2>3. DoneBy = Threads /\ DoneBy' = DoneBy /\ ThrewIn' = ThrewIn
    BY <1>5, <2>2 DEF Collect, DoneBy, ThrewIn
  <2>4. OwnerState = "running" /\ UNCHANGED jobs
    BY <1>5, <2>1 DEF Collect, OwnerState
  <2>5. CASE pc'[Main] = "collect"
    <3>1. outcome' = outcome /\ jobs' = jobs
      BY <1>0, <1>5, <2>5 DEF Collect, TypeOK, TaskState, TaskInv
    <3> QED
      BY <2>1, <2>3, <2>4, <2>5, <3>1 DEF OwnerState, jobView
  <2>6. CASE pc'[Main] # "collect"
    <3>1. pc'[Main] = "ready" /\ OwnerState' = "idle"
      BY <1>0, <1>5, <2>1, <2>6 DEF Collect, OwnerState, TypeOK
    <3>2. outcome' = IF ThrewIn = {} THEN "ok" ELSE "error"
      BY <1>0, <1>5, <2>1, <2>2, <3>1, TaskStepsKeepTasks
      DEF Collect, ThrewIn, TaskInv, ErrorsAreReported, Executed
    <3> QED
      BY <2>3, <2>4, <3>1, <3>2 DEF Pool!Next, Pool!End
  <2> QED
    BY <2>5, <2>6
<1> QED
  BY <1>1, <1>2, <1>3, <1>4, <1>5

(* The pool does what ForkJoin promises: every thread executes each job    *)
(* exactly once, the job ends when all have, and Wait throws exactly if    *)
(* one of the runs threw.                                                  *)
THEOREM PoolIsForkJoin == Spec => ImplementsForkJoin
<1>1. PoolInit => Pool!Init
  BY PoolAssumption
  DEF PoolInit, Pool!Init, OwnerState, DoneBy, ThrewIn, Executed, Threads
<1>2. IInv /\ IInv' /\ TaskInv /\ [Next]_poolVars => [Pool!Next]_jobView
  <2> SUFFICES ASSUME IInv, IInv', TaskInv, [Next]_poolVars PROVE [Pool!Next]_jobView
    OBVIOUS
  <2>1. CASE UNCHANGED poolVars
    BY <2>1, SameView DEF poolVars, clientVars, futureVars, OwnerState, Executed, At
  <2>2. CASE OwnerStep \/ Submit \/ Destroy
    BY <2>2, OwnerImplements, TaskStepsImplement DEF OwnerStep, Construct
  <2>3. ASSUME NEW w \in Workers, WorkerStep(w) PROVE [Pool!Next]_jobView
    BY <2>3, TaskStepsImplement DEF Threads
  <2>4. ASSUME NEW t \in Threads, SharedStep(t) \/ SpuriousWakeup(t) \/ Run(t)
        PROVE  [Pool!Next]_jobView
    BY <2>4, BarrierImplements, TaskStepsImplement DEF SharedStep
  <2> QED
    BY <2>1, <2>2, <2>3, <2>4 DEF Next, PoolStep, PoolEnded
<1> QED
  BY <1>1, <1>2, PoolInvariant, TasksInvariant, PTL
  DEF Spec, ImplementsForkJoin, Pool!Spec, jobView
-----------------------------------------------------------------------------
(* What a part that has ended leaves behind satisfies its invariant too.   *)
ParallelInv == Loops!JobsInv /\ Loops!ForeachInv /\ Gspan!GspanInv

(* The searched patterns are the five, each reached in one way.            *)
LEMMA PatternsAreATree == Gspan!TreeAssumption
<1>1. /\ ExtensionsOf["root"] = <<"a", "b">> /\ ExtensionsOf["a"] = <<"ab", "ac">>
      /\ ExtensionsOf["ab"] = <<"abc">>
      /\ \A x \in {"b", "ac", "abc"} : ExtensionsOf[x] = <<>>
  BY DEF ExtensionsOf, Patterns
<1>2. Gspan!Nodes = {"a", "b", "ab", "ac", "abc", "root"}
  BY DEF Gspan!Nodes, Patterns
<1>3. /\ \A y \in Gspan!Nodes : ExtensionsOf[y] \in Seq(Patterns)
      /\ DOMAIN ExtensionsOf = Gspan!Nodes /\ ExtensionsOf \in [Gspan!Nodes -> Seq(Patterns)]
  <2>1. /\ <<"a", "b">> \in Seq(Patterns) /\ <<"ab", "ac">> \in Seq(Patterns)
        /\ <<"abc">> \in Seq(Patterns) /\ <<>> \in Seq(Patterns)
    BY DEF Patterns
  <2>2. \A y \in Gspan!Nodes : ExtensionsOf[y] \in Seq(Patterns)
    BY <1>1, <1>2, <2>1
  <2> QED BY <1>2, <2>2 DEF ExtensionsOf, Patterns
<1>4. /\ DOMAIN ExtensionsOf["root"] = {1, 2} /\ DOMAIN ExtensionsOf["a"] = {1, 2}
      /\ DOMAIN ExtensionsOf["ab"] = {1}
      /\ \A x \in {"b", "ac", "abc"} : DOMAIN ExtensionsOf[x] = {}
  BY <1>1
<1>5. \A y, z \in Gspan!Nodes : \A k \in DOMAIN ExtensionsOf[y], m \in DOMAIN ExtensionsOf[z] :
        ExtensionsOf[y][k] = ExtensionsOf[z][m] => y = z /\ k = m
  BY <1>1, <1>2, <1>4
<1>6. ASSUME NEW S \in SUBSET Patterns, S # {}
      PROVE  \E y \in Gspan!Nodes \ S : \E k \in DOMAIN ExtensionsOf[y] : ExtensionsOf[y][k] \in S
  <2>1. "root" \in Gspan!Nodes \ S
    BY <1>2 DEF Patterns
  <2>2. CASE "a" \in S \/ "b" \in S
    BY <1>1, <1>4, <2>1, <2>2
  <2>3. CASE "a" \notin S /\ ("ab" \in S \/ "ac" \in S)
    BY <1>1, <1>2, <1>4, <2>3
  <2>4. CASE "ab" \notin S /\ "abc" \in S
    BY <1>1, <1>2, <1>4, <2>4
  <2> QED BY <1>6, <2>2, <2>3, <2>4 DEF Patterns
<1>7. Main \notin Workers /\ "root" \notin Patterns
  BY PoolAssumption DEF Patterns
<1> QED BY <1>3, <1>5, <1>6, <1>7 DEF Gspan!TreeAssumption

(* The threads of the pool and the bounds of its jobs are as the proofs of *)
(* ParallelLoops ask.                                                      *)
LEMMA JobsAreBounded == Loops!JobsAssumption
<1>1. IsFiniteSet(Threads) /\ Threads # {}
  BY ThreadsAreFinite DEF Threads
<1>2. Loops!IsFiniteSet(Threads)
  BY <1>1 DEF IsFiniteSet, Loops!IsFiniteSet
<1> QED BY <1>1, <1>2, OnceAssumption DEF Loops!JobsAssumption

(* Whichever part is chosen, it and the parts that have ended satisfy    *)
(* their invariants.                                                     *)
LEMMA ParallelStarts == ParallelInit => ParallelInv
<1>1. NoJobs => Loops!JobsInv
  <2> SUFFICES ASSUME NoJobs PROVE Loops!JobsInv
    OBVIOUS
  <2>1. Loops!JobsTypeOK /\ Loops!InFunctor /\ ~single
    BY DEF NoJobs, Loops!JobsTypeOK, Loops!InFunctor, Loops!Places
  <2>2. Loops!IndexJob
    BY DEF NoJobs, Loops!IndexJob, Loops!Has
  <2> QED BY <2>1, <2>2 DEF Loops!JobsInv
<1>2. NoForeach => Loops!ForeachInv
  <2> SUFFICES ASSUME NoForeach PROVE Loops!ForeachInv
    OBVIOUS
  <2>1. parts \in Seq(Loops!Part) /\ DOMAIN parts = {}
    BY EmptySeq DEF NoForeach
  <2> QED BY <2>1 DEF NoForeach, Loops!ForeachInv
<1>3. NoGspan => Gspan!GspanInv
  <2> SUFFICES ASSUME NoGspan PROVE Gspan!GspanInv
    OBVIOUS
  <2>1. /\ tasks_ \in Seq(Gspan!TaskRecords) /\ DOMAIN tasks_ = {} /\ Gspan!MinerThreads = Threads
        /\ stack \in [Threads -> Seq(Gspan!FrameRecords)] /\ \A t \in Threads : DOMAIN stack[t] = {}
    BY EmptySeq DEF NoGspan, Gspan!MinerThreads, Threads
  <2>2. Gspan!Frames = {} /\ Gspan!Queued = {} /\ Gspan!Live = {}
    BY <2>1 DEF Gspan!Frames, Gspan!FramesOn, Gspan!Queued, Gspan!QueuedIn, Gspan!Live
  <2>3. Gspan!StackOK(stack) /\ Gspan!QueueOK(tasks_)
    BY <2>1 DEF Gspan!StackOK, Gspan!QueueOK
  <2>4. \A y \in Gspan!Nodes : Gspan!Finished(y)
    BY <2>2 DEF NoGspan, Gspan!Finished, Gspan!Nodes
  <2>5. Gspan!TreeInv
    BY <2>2, <2>4, PatternsAreATree, Gspan!ExtensionsArePatterns DEF NoGspan, Gspan!TreeInv
  <2>6. Gspan!MainInv
    BY <2>2 DEF NoGspan, Gspan!MainInv
  <2> QED BY <2>3, <2>5, <2>6 DEF Gspan!GspanInv
<1> QED BY <1>1, <1>2, <1>3, JobsAreBounded, PatternsAreATree, Loops!JobsStart, Loops!ForeachStarts, Gspan!GspanStarts
        DEF ParallelInit, ParallelInv

(* A step is one of a single part; it keeps that part's invariant and    *)
(* leaves the others' variables alone.                                   *)
LEMMA ParallelKeeps == ParallelInv /\ [ParallelNext]_allVars => ParallelInv'
<1> SUFFICES ASSUME ParallelInv, [ParallelNext]_allVars PROVE ParallelInv'
  OBVIOUS
<1>1. /\ Loops!JobsNext \/ UNCHANGED jobsVars
      /\ Loops!ForeachNext \/ UNCHANGED forVars
      /\ Gspan!GspanNext \/ UNCHANGED searchVars
  BY DEF ParallelNext, allVars
<1>2. /\ UNCHANGED jobsVars => UNCHANGED Loops!poolJobsVars
      /\ UNCHANGED forVars => UNCHANGED Loops!foreachVars
      /\ UNCHANGED searchVars => UNCHANGED Gspan!gspanVars
  BY DEF jobsVars, forVars, searchVars, Loops!poolJobsVars, Loops!jobVars, Loops!foreachVars, Gspan!gspanVars
<1> QED BY <1>1, <1>2, JobsAreBounded, PatternsAreATree, Loops!JobsKeep, Loops!ForeachKeeps, Gspan!GspanKeeps
        DEF ParallelInv

(* Every part by itself does its work once, with any number of workers.    *)
THEOREM WorkIsAlwaysDoneOnce == ParallelSpec => []WorkIsDoneOnce
<1>1. ParallelInv => WorkIsDoneOnce
  BY JobsAreBounded, PatternsAreATree, Loops!JobsAreWhole, Loops!ForeachIsRight, Gspan!GspanMined
     DEF ParallelInv, WorkIsDoneOnce
<1> QED BY <1>1, ParallelStarts, ParallelKeeps, PTL DEF ParallelSpec

(* And no task of gSpan outlives what it points into.                      *)
THEOREM ParentsStayAlive == ParallelSpec => []ParentsAreAlive
<1>1. ParallelInv => ParentsAreAlive
  BY PatternsAreATree, Gspan!GspanParents DEF ParallelInv, ParentsAreAlive
<1> QED BY <1>1, ParallelStarts, ParallelKeeps, PTL DEF ParallelSpec
=============================================================================
