----------------------------- MODULE MCParallel -----------------------------
(***************************************************************************)
(* The ways in which the algorithms run on several threads, each by        *)
(* itself: the worker thread pool, its jobs, ParallelForeach and the tasks *)
(* of gSpan.  A behaviour is one of them, chosen at the start.             *)
(***************************************************************************)
EXTENDS WorkerThreadPool

VARIABLES
  part,
  state, job, done, threwIn, result, single, size, index, at, drawn, resource, handed_in, once,
  len, threads_num, caller, p, parts, applied,
  tasks_, stack, pending, stop_, waiting, main, mined

(* Six patterns: a and b from the database, the others from those.         *)
Patterns == {"a", "b", "ab", "ac", "abc"}
ExtensionsOf ==
  [x \in Patterns \cup {"root"} |->
     CASE x = "root" -> <<"a", "b">> [] x = "a" -> <<"ab", "ac">>
       [] x = "ab" -> <<"abc">> [] OTHER -> <<>>]

Loops == INSTANCE ParallelLoops WITH MaxSize <- 3, MaxJobs <- 2, IndexLimit <- 6,
                                     MaxLength <- 5, MaxThreads <- 3
Gspan == INSTANCE GspanTasks WITH PoolThreads <- Workers, Caller <- Main,
                                  Root <- "root", Extensions <- ExtensionsOf

jobsVars == <<state, job, done, threwIn, result, single, size, index, at, drawn, resource,
              handed_in, once>>
forVars == <<len, threads_num, caller, p, parts, applied>>
searchVars == <<tasks_, stack, pending, stop_, waiting, main, mined>>
allVars == <<poolVars, jobsVars, forVars, searchVars, part>>

(* Ended, each in a state in which it takes no step.                       *)
NoJobs ==
  /\ state = "closed" /\ single = FALSE /\ size = 0 /\ once = "done" /\ at = [t \in Threads |-> "out"]
  /\ job = 0 /\ done = {} /\ threwIn = {} /\ result = "none" /\ index = 0
  /\ drawn = [t \in Threads |-> 0] /\ resource = [t \in Threads |-> {}] /\ handed_in = {}
NoForeach ==
  /\ caller = "returned" /\ len = 0 /\ threads_num = 1 /\ p = 0 /\ parts = <<>>
  /\ applied = [i \in {} |-> 0]
NoGspan ==
  /\ main = "done" /\ tasks_ = <<>> /\ pending = [x \in {} |-> 0] /\ stop_ = TRUE
  /\ stack = [t \in Threads |-> <<>>] /\ waiting = {} /\ mined = [x \in Patterns |-> 1]

ParallelInit ==
  /\ PoolInit
  /\ \/ part = "pool" /\ NoJobs /\ NoForeach /\ NoGspan
     \/ part = "jobs" /\ Loops!JobsInit /\ NoForeach /\ NoGspan
     \/ part = "foreach" /\ Loops!ForeachInit /\ NoJobs /\ NoGspan
     \/ part = "gspan" /\ Gspan!GspanInit /\ NoJobs /\ NoForeach

ParallelNext ==
  /\ UNCHANGED part
  /\ \/ part = "pool" /\ Next /\ UNCHANGED <<jobsVars, forVars, searchVars>>
     \/ part = "jobs" /\ Loops!JobsNext /\ UNCHANGED <<poolVars, forVars, searchVars>>
     \/ part = "foreach" /\ Loops!ForeachNext /\ UNCHANGED <<poolVars, jobsVars, searchVars>>
     \/ part = "gspan" /\ Gspan!GspanNext /\ UNCHANGED <<poolVars, jobsVars, forVars>>

(* The fairness of each, which says nothing of one that has ended.         *)
ParallelFairness ==
  /\ WF_poolVars(part = "pool" /\ OwnerProgress)
  /\ \A w \in Workers : WF_poolVars(part = "pool" /\ WorkerStep(w))
  /\ \A t \in Threads : WF_poolVars(part = "pool" /\ SharedStep(t))
  /\ \A t \in Threads : WF_poolVars(part = "pool" /\ Run(t))
  /\ Loops!JobsFairness /\ Loops!ForeachFairness /\ Gspan!GspanFairness

ParallelSpec == ParallelInit /\ [][ParallelNext]_allVars /\ ParallelFairness
-----------------------------------------------------------------------------
(* Of a job of the pool, a ParallelForeach and a search of gSpan alike:    *)
(* no piece of the work is done twice, and when the call returns without   *)
(* an error none is left undone or in some thread's hands.                 *)
WorkIsDoneOnce == Loops!JobIsWhole /\ Loops!EachElementOnce /\ Gspan!AllMinedOnce

(* What gSpan's tasks point into lives until they are done.                *)
ParentsAreAlive == Gspan!ParentsAreAlive

(* Every job of the pool ends, and so do its destructor and its threads;   *)
(* every ParallelForeach and every search of gSpan ends too, with the      *)
(* waits nested on each other's stacks in any order.  Nobody sleeps        *)
(* through the end.                                                        *)
EveryCallReturns ==
  /\ EveryJobEnds /\ DestructorEnds /\ CreatedWorkersLeave
  /\ (state = "running" ~> state = "idle")
  /\ <>(caller = "returned")
  /\ <>(main = "done")
-----------------------------------------------------------------------------
(* No thread is called what the flag of call_once is when none is in it.   *)
ASSUME OnceAssumption == "unset" \notin Threads /\ "done" \notin Threads
=============================================================================
