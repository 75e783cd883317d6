----------------------------- MODULE TopKMiner -----------------------------
(***************************************************************************)
(* algos::tke::ParallelTopKMiner and CompositeTopKMiner                    *)
(* (src/src/core/algorithms/fem/tke/parallel_topk_miner.cpp and            *)
(* composite_topk_miner.cpp): the search for the K episodes of highest     *)
(* support.  The two classes run the same search over different episodes.  *)
(* The calling thread keeps the best episodes found and the episodes still *)
(* to extend; workers extend them.  Both talk through two lock-free queues,*)
(* a semaphore, the shared minimal support, a count of the tasks in flight *)
(* and a flag that stops the workers.                                      *)
(*                                                                         *)
(* Loads of tasks_in_flight return the present count: an older one is      *)
(* larger, and what the caller then does it also does when the worker's    *)
(* fetch_sub comes later.                                                  *)
(***************************************************************************)
EXTENDS Integers, Sequences, FiniteSets

CONSTANTS
  Workers,          \* threads_num_ of them, unless threads_num_ is one
  Episode,
  NoEpisode,        \* not an Episode
  Seeds,            \* the sequence of episodes of one event, or one block
  Children,         \* the extensions of an episode, in the code's order
  Extends,          \* the pairs <<e, f>> where f is e or extends it in steps
  Support,
  ExtensionSupport, \* of what an episode has more than its parent
  LeastSupport,     \* the least of the supports of an episode and its blocks
  CutsExtensions,   \* CompositeTopKMiner hands out a prefix of the extensions
  K,
  Floor,            \* the minimal support while fewer than K are found
  Capacity,         \* of the two queues: 10000
  TasksPerThread    \* 4

ASSUME TopKMinerAssumption ==
  /\ K \in Nat \ {0} /\ Floor \in Nat \ {0} /\ Capacity \in Nat \ {0}
  /\ IsFiniteSet(Workers) /\ Cardinality(Workers) > 1 /\ TasksPerThread \in Nat \ {0}
  /\ NoEpisode \notin Episode /\ Seeds \in Seq(Episode)
  /\ Children \in [Episode -> Seq(Episode)]
  /\ Support \in [Episode -> Nat] /\ ExtensionSupport \in [Episode -> Nat]
  /\ LeastSupport \in [Episode -> Nat]
  /\ CutsExtensions \in BOOLEAN

(* An episode is found in one way only, from a seed, one extension at a    *)
(* time, and no episode occurs more often than what it extends.  It may    *)
(* occur more often than its last block: occurrences count by their start. *)
(* A prefix of the extensions holds the most frequent blocks.              *)
NoCommon(a, b) == \A f \in Episode : ~(<<a, f>> \in Extends /\ <<b, f>> \in Extends)
Spread(s) == \A i, j \in DOMAIN s : i # j => NoCommon(s[i], s[j])

ASSUME SearchTreeAssumption ==
  /\ Extends \subseteq Episode \X Episode
  /\ \A e \in Episode : <<e, e>> \in Extends
  /\ Spread(Seeds)
  /\ \A e \in Episode :
       /\ Spread(Children[e])
       /\ \A i \in DOMAIN Children[e] : \A f \in Episode :
            <<Children[e][i], f>> \in Extends => <<e, f>> \in Extends /\ f # e
  /\ \A f \in Episode : \E i \in DOMAIN Seeds : <<Seeds[i], f>> \in Extends
  /\ \A e, f \in Episode : <<e, f>> \in Extends /\ e # f =>
       \E i \in DOMAIN Children[e] : <<Children[e][i], f>> \in Extends
  /\ \A e, f \in Episode : <<e, f>> \in Extends =>
       Support[f] <= Support[e] /\ LeastSupport[f] <= LeastSupport[e]
  /\ \A e \in Episode : LeastSupport[e] <= Support[e]
  /\ \A e \in Episode : \A i \in DOMAIN Children[e] :
       LeastSupport[Children[e][i]] <= ExtensionSupport[Children[e][i]]
  /\ \A e \in Episode : Support[e] >= Floor => LeastSupport[e] >= Floor
  /\ CutsExtensions =>
       \A e \in Episode : \A i, j \in DOMAIN Children[e] : i < j =>
         ExtensionSupport[Children[e][i]] >= ExtensionSupport[Children[e][j]]

VARIABLES
  top_k, explore,       \* the two priority queues of the caller
  current_minsup,       \* the caller's copy of atomic_minsup
  stored,               \* the values atomic_minsup has had
  tasks, processed,     \* the lock-free queues
  tasks_sem, tasks_in_flight, terminate_flag,
  pc, todo, got_any,    \* the caller: place, episodes left in its loop, flag
  worker                \* of each: place, parent, children left, one result
caller == <<top_k, explore, current_minsup, stored, todo, got_any>>
vars == <<caller, pc, tasks, processed, tasks_sem, tasks_in_flight,
          terminate_flag, worker>>

Full == Cardinality(top_k) = K
Lowest(eps) == CHOOSE n \in {Support[e] : e \in eps} : \A e \in eps : n <= Support[e]
MinSup == IF Full THEN Lowest(top_k) ELSE Floor

(* A fault: the heap grows.                                                *)
BugTryAdd(ep) ==
  \/ Support[ep] < MinSup /\ UNCHANGED <<top_k, explore>>
  \/ Support[ep] >= MinSup /\ top_k' = top_k \cup {ep} /\ explore' = explore \cup {ep}

(* Of several least episodes the heap gives up any.                        *)
TryAdd(ep) ==
  \/ /\ IF Full THEN Support[ep] <= MinSup ELSE Support[ep] < MinSup
     /\ UNCHANGED <<top_k, explore>>
  \/ /\ ~Full /\ Support[ep] >= MinSup
     /\ top_k' = top_k \cup {ep} /\ explore' = explore \cup {ep}
  \/ /\ Full /\ Support[ep] > MinSup
     /\ explore' = explore \cup {ep}
     /\ \E worst \in top_k : /\ Support[worst] = MinSup
                             /\ top_k' = (top_k \ {worst}) \cup {ep}

(* What the caller does when TryAdd returns true.                          *)
StoreMinSup ==
  /\ current_minsup' = IF top_k' # top_k /\ Cardinality(top_k') = K
                         THEN Lowest(top_k') ELSE current_minsup
  /\ stored' = stored \cup {current_minsup'}

Best(ep) == ep \in explore /\ \A e \in explore : Support[e] <= Support[ep]
Stale(ep, minsup) == IF Full THEN Support[ep] <= minsup ELSE Support[ep] < minsup

(* A fault: extensions as frequent as the minimal support are cut.         *)
BugExtCounts(ep, minsup) ==
  LET enough(i) == ExtensionSupport[Children[ep][i]] > minsup
  IN {n \in 0 .. Len(Children[ep]) :
        /\ \A i \in 1 .. n : enough(i)
        /\ n < Len(Children[ep]) => ~enough(n + 1)}

(* ext_count: how many extensions there are before the first rarer one.    *)
ExtCounts(ep, minsup) ==
  LET enough(i) == ExtensionSupport[Children[ep][i]] >= minsup
  IN {n \in 0 .. Len(Children[ep]) :
        /\ \A i \in 1 .. n : enough(i)
        /\ n < Len(Children[ep]) => ~enough(n + 1)}

Extensions(ep, minsup) ==
  IF CutsExtensions
    THEN {SubSeq(Children[ep], 1, n) : n \in ExtCounts(ep, minsup)}
    ELSE {Children[ep]}

Idle == [at |-> "Waiting", parent |-> NoEpisode, todo |-> <<>>, result |-> NoEpisode]

TopKMinerInit ==
  /\ top_k = {} /\ explore = {} /\ todo = Seeds /\ pc = "Mine"
  /\ current_minsup = Floor /\ stored = {Floor} /\ got_any = FALSE
  /\ tasks = <<>> /\ processed = <<>>
  /\ tasks_sem = 0 /\ tasks_in_flight = 0 /\ terminate_flag = FALSE
  /\ worker = [w \in Workers |-> Idle]
----------------------------------------------------------------------------
(* Mine: the seeds, then one of the two searches, which one threads_num_   *)
(* says.                                                                   *)
shared == <<tasks, processed, tasks_sem, tasks_in_flight, terminate_flag, worker>>

Seed ==
  /\ pc = "Mine" /\ todo # <<>>
  /\ TryAdd(Head(todo))
  /\ todo' = Tail(todo)
  /\ UNCHANGED <<current_minsup, stored, pc, got_any, shared>>

Explore ==
  /\ pc = "Mine" /\ todo = <<>>
  /\ pc' \in {"Sequential", "Drain"}
  /\ current_minsup' = MinSup /\ stored' = {MinSup}
  /\ UNCHANGED <<top_k, explore, todo, got_any, shared>>

(* ExploreSequential.                                                      *)
TakeItem ==
  /\ pc = "Sequential" /\ todo = <<>>
  /\ \E item \in explore :
       /\ Best(item)
       /\ IF Stale(item, MinSup)
            THEN explore' = {} /\ UNCHANGED todo
            ELSE /\ explore' = explore \ {item}
                 /\ todo' \in Extensions(item, MinSup)
  /\ UNCHANGED <<top_k, current_minsup, stored, pc, got_any, shared>>

AddChild ==
  /\ pc = "Sequential" /\ todo # <<>>
  /\ TryAdd(Head(todo))
  /\ todo' = Tail(todo)
  /\ UNCHANGED <<current_minsup, stored, pc, got_any, shared>>

SequentialEnd ==
  /\ pc = "Sequential" /\ todo = <<>> /\ explore = {}
  /\ pc' = "Done"
  /\ UNCHANGED <<caller, shared>>
----------------------------------------------------------------------------
(* ExploreParallel: the calling thread.                                    *)
Drain ==
  /\ pc = "Drain" /\ processed # <<>>
  /\ TryAdd(Head(processed)) /\ StoreMinSup
  /\ processed' = Tail(processed)
  /\ UNCHANGED <<pc, todo, got_any, tasks, tasks_sem, tasks_in_flight, terminate_flag, worker>>

DrainEnd ==
  /\ pc = "Drain" /\ processed = <<>>
  /\ pc' = "Dispatch"
  /\ UNCHANGED <<caller, shared>>

BelowThreshold == tasks_in_flight < Cardinality(Workers) * TasksPerThread

(* A fault: what does not fit into the queue is not put back.              *)
BugDispatch ==
  /\ pc = "Dispatch" /\ BelowThreshold
  /\ \E parent \in explore : \E ext \in Extensions(parent, current_minsup) :
       /\ Best(parent)
       /\ explore' = explore \ {parent}
       /\ IF Stale(parent, current_minsup) \/ ext = <<>> \/ Len(tasks) = Capacity
            THEN pc' = "Check" /\ UNCHANGED tasks
            ELSE /\ pc' = "Count"
                 /\ tasks' = Append(tasks, [parent |-> parent, extensions |-> ext])
  /\ UNCHANGED <<top_k, current_minsup, stored, todo, got_any,
                 processed, tasks_sem, tasks_in_flight, terminate_flag, worker>>

(* The best episode to explore is stale, has no extensions, does not fit   *)
(* into the queue, or becomes a task.                                      *)
Dispatch ==
  /\ pc = "Dispatch" /\ BelowThreshold
  /\ \E parent \in explore : \E ext \in Extensions(parent, current_minsup) :
       /\ Best(parent)
       /\ \/ /\ Stale(parent, current_minsup)
             /\ explore' = {} /\ pc' = "Check" /\ UNCHANGED tasks
          \/ /\ ~Stale(parent, current_minsup) /\ ext = <<>>
             /\ explore' = explore \ {parent} /\ UNCHANGED <<pc, tasks>>
          \/ /\ ~Stale(parent, current_minsup) /\ ext # <<>>
             /\ Len(tasks) = Capacity
             /\ pc' = "Check" /\ UNCHANGED <<explore, tasks>>
          \/ /\ ~Stale(parent, current_minsup) /\ ext # <<>>
             /\ Len(tasks) < Capacity
             /\ explore' = explore \ {parent} /\ pc' = "Count"
             /\ tasks' = Append(tasks, [parent |-> parent, extensions |-> ext])
  /\ UNCHANGED <<top_k, current_minsup, stored, todo, got_any,
                 processed, tasks_sem, tasks_in_flight, terminate_flag, worker>>

Count ==
  /\ pc = "Count"
  /\ tasks_in_flight' = tasks_in_flight + 1 /\ pc' = "Signal"
  /\ UNCHANGED <<caller, tasks, processed, tasks_sem, terminate_flag, worker>>

Signal ==
  /\ pc = "Signal"
  /\ tasks_sem' = tasks_sem + 1 /\ pc' = "Dispatch"
  /\ UNCHANGED <<caller, tasks, processed, tasks_in_flight, terminate_flag, worker>>

DispatchEnd ==
  /\ pc = "Dispatch"
  /\ ~BelowThreshold \/ explore = {}
  /\ pc' = "Check"
  /\ UNCHANGED <<caller, shared>>

Check ==
  /\ pc = "Check"
  /\ IF explore = {} /\ tasks_in_flight = 0
       THEN pc' = "Last" /\ got_any' = FALSE
       ELSE pc' = "Drain" /\ UNCHANGED got_any
  /\ UNCHANGED <<top_k, explore, current_minsup, stored, todo, shared>>

LastDrain ==
  /\ pc = "Last" /\ processed # <<>>
  /\ TryAdd(Head(processed)) /\ StoreMinSup
  /\ processed' = Tail(processed) /\ got_any' = TRUE
  /\ UNCHANGED <<pc, todo, tasks, tasks_sem, tasks_in_flight, terminate_flag, worker>>

LastEnd ==
  /\ pc = "Last" /\ processed = <<>>
  /\ pc' = IF got_any THEN "Drain" ELSE "Stop"
  /\ UNCHANGED <<caller, shared>>

(* A fault: the flag is not raised.                                        *)
BugStop ==
  /\ pc = "Stop"
  /\ pc' = "Release"
  /\ UNCHANGED <<caller, shared>>

(* The flag, then one release for each worker.                             *)
Stop ==
  /\ pc = "Stop"
  /\ terminate_flag' = TRUE /\ pc' = "Release"
  /\ UNCHANGED <<caller, tasks, processed, tasks_sem, tasks_in_flight, worker>>

ReleaseAll ==
  /\ pc = "Release"
  /\ tasks_sem' = tasks_sem + Cardinality(Workers) /\ pc' = "Join"
  /\ UNCHANGED <<caller, tasks, processed, tasks_in_flight, terminate_flag, worker>>

Join ==
  /\ pc = "Join" /\ \A w \in Workers : worker[w].at = "Exited"
  /\ pc' = "Done"
  /\ UNCHANGED <<caller, shared>>
----------------------------------------------------------------------------
(* worker_loop.  A relaxed load of atomic_minsup may return any value that *)
(* was stored; that a thread never reads an older value than the last one  *)
(* it read is not kept.                                                    *)
Acquire(w) ==
  /\ worker[w].at = "Waiting" /\ tasks_sem > 0
  /\ tasks_sem' = tasks_sem - 1
  /\ worker' = [worker EXCEPT ![w].at = "Woken"]
  /\ UNCHANGED <<caller, pc, tasks, processed, tasks_in_flight, terminate_flag>>

ReadFlag(w) ==
  /\ worker[w].at = "Woken"
  /\ worker' = [worker EXCEPT ![w].at = IF terminate_flag THEN "Exited" ELSE "Popping"]
  /\ UNCHANGED <<caller, pc, tasks, processed, tasks_sem, tasks_in_flight, terminate_flag>>

PopTask(w) ==
  /\ worker[w].at = "Popping" /\ tasks # <<>>
  /\ tasks' = Tail(tasks)
  /\ worker' = [worker EXCEPT ![w].at = "Popped", ![w].parent = Head(tasks).parent,
                              ![w].todo = Head(tasks).extensions]
  /\ UNCHANGED <<caller, pc, processed, tasks_sem, tasks_in_flight, terminate_flag>>

CheckParent(w) ==
  /\ worker[w].at = "Popped"
  /\ \E minsup \in stored :
       worker' = [worker EXCEPT ![w].at = "Extending",
                    ![w].todo = IF Support[worker[w].parent] >= minsup THEN @ ELSE <<>>]
  /\ UNCHANGED <<caller, pc, tasks, processed, tasks_sem, tasks_in_flight, terminate_flag>>

ExtendParent(w) ==
  /\ worker[w].at = "Extending" /\ worker[w].todo # <<>>
  /\ LET child == Head(worker[w].todo) IN
     \E minsup \in stored :
       IF Support[child] >= minsup
         THEN worker' = [worker EXCEPT ![w].at = "Pushing", ![w].result = child,
                                       ![w].todo = Tail(@)]
         ELSE worker' = [worker EXCEPT ![w].todo = Tail(@)]
  /\ UNCHANGED <<caller, pc, tasks, processed, tasks_sem, tasks_in_flight, terminate_flag>>

Push(w) ==
  /\ worker[w].at = "Pushing" /\ Len(processed) < Capacity
  /\ processed' = Append(processed, worker[w].result)
  /\ worker' = [worker EXCEPT ![w].at = "Extending", ![w].result = NoEpisode]
  /\ UNCHANGED <<caller, pc, tasks, tasks_sem, tasks_in_flight, terminate_flag>>

(* A fault: the task is not counted down.                                  *)
BugFinish(w) ==
  /\ worker[w].at = "Extending" /\ worker[w].todo = <<>>
  /\ worker' = [worker EXCEPT ![w] = Idle]
  /\ UNCHANGED <<caller, pc, tasks, processed, tasks_sem, tasks_in_flight, terminate_flag>>

Finish(w) ==
  /\ worker[w].at = "Extending" /\ worker[w].todo = <<>>
  /\ tasks_in_flight' = tasks_in_flight - 1
  /\ worker' = [worker EXCEPT ![w] = Idle]
  /\ UNCHANGED <<caller, pc, tasks, processed, tasks_sem, terminate_flag>>
----------------------------------------------------------------------------
CallerStep ==
  \/ Seed \/ Explore
  \/ TakeItem \/ AddChild \/ SequentialEnd
  \/ Drain \/ DrainEnd \/ Dispatch \/ Count \/ Signal \/ DispatchEnd \/ Check
  \/ LastDrain \/ LastEnd \/ Stop \/ ReleaseAll \/ Join

WorkerStep(w) ==
  \/ Acquire(w) \/ ReadFlag(w) \/ PopTask(w) \/ CheckParent(w)
  \/ ExtendParent(w) \/ Push(w) \/ Finish(w)

Returned == pc = "Done" /\ UNCHANGED vars

Next == CallerStep \/ (\E w \in Workers : WorkerStep(w)) \/ Returned

TopKMinerSpec == TopKMinerInit /\ [][Next]_vars

(* Every thread that can run runs: the operating system schedules them, a  *)
(* release wakes a waiter, and a spinning push is a step once there is     *)
(* room.                                                                   *)
FairTopKMinerSpec ==
  /\ TopKMinerSpec
  /\ WF_vars(CallerStep)
  /\ \A w \in Workers : WF_vars(WorkerStep(w))
----------------------------------------------------------------------------
Task == [parent : Episode, extensions : Seq(Episode)]

TypeOK ==
  /\ top_k \subseteq Episode /\ Cardinality(top_k) <= K
  /\ explore \subseteq Episode
  /\ todo \in Seq(Episode) /\ got_any \in BOOLEAN
  /\ current_minsup \in Nat /\ stored \subseteq Nat
  /\ tasks \in Seq(Task) /\ processed \in Seq(Episode)
  /\ Len(tasks) <= Capacity /\ Len(processed) <= Capacity
  /\ tasks_sem \in Nat /\ tasks_in_flight \in Nat /\ terminate_flag \in BOOLEAN
  /\ pc \in {"Mine", "Sequential", "Drain", "Dispatch", "Count", "Signal", "Check",
             "Last", "Stop", "Release", "Join", "Done"}
  /\ worker \in [Workers -> [at : {"Waiting", "Woken", "Popping", "Popped",
                                   "Extending", "Pushing", "Exited"},
                             parent : Episode \cup {NoEpisode}, todo : Seq(Episode),
                             result : Episode \cup {NoEpisode}]]

(* parallel_topk_miner.cpp:66, assert(task_popped): a worker that got a    *)
(* token and saw the flag down finds a task, although several workers pop  *)
(* and the tokens carry no names.  In a release build the task would be    *)
(* uninitialized memory.                                                   *)
TaskIsThere == \A w \in Workers : worker[w].at = "Popping" => tasks # <<>>

(* tasks_in_flight, from which the caller concludes that all is done,      *)
(* counts every task that was handed out and is not finished, but for the  *)
(* one step between the push and the count.                                *)
Holding == {w \in Workers : worker[w].at \in {"Popped", "Extending", "Pushing"}}
InFlightIsExact ==
  tasks_in_flight + (IF pc = "Count" THEN 1 ELSE 0) = Len(tasks) + Cardinality(Holding)

Elements(s) == {s[i] : i \in DOMAIN s}
ToBeTried ==
  Elements(todo) \cup Elements(processed)
  \cup (UNION {Elements(tasks[i].extensions) : i \in DOMAIN tasks})
  \cup (UNION {Elements(worker[w].todo) \cup {worker[w].result} : w \in Workers})
Ahead(e) == \E a \in explore \cup ToBeTried : <<a, e>> \in Extends
Wanted(e) == IF Full THEN LeastSupport[e] > MinSup ELSE Support[e] >= Floor

(* Whatever the interleaving, and however old the minimal support a worker *)
(* reads, no episode is dropped that the answer needs: it was found, or    *)
(* something it extends is still to be extended.                           *)
NothingIsLost == \A e \in Episode : Wanted(e) => e \in top_k \/ Ahead(e)

(* Mine returns K episodes, or all there are.  None is left out that is    *)
(* made of blocks more frequent than an episode returned and that occurs   *)
(* more often itself.                                                      *)
TopKIsRight ==
  pc = "Done" =>
    /\ Cardinality(top_k) < K => top_k = {e \in Episode : Support[e] >= Floor}
    /\ \A e \in top_k, f \in Episode \ top_k :
         Support[f] >= Floor => LeastSupport[f] <= Support[e]

(* When Mine returns nothing is left in a queue, where nobody would free   *)
(* it, nothing that was still to be extended, and no thread.               *)
NothingIsLeft ==
  pc = "Done" =>
    /\ tasks = <<>> /\ processed = <<>> /\ explore = {}
    /\ terminate_flag => \A w \in Workers : worker[w].at = "Exited"

(* What the caller of Mine relies on: the answer, and that the objects of  *)
(* the search can be destroyed.                                            *)
MineIsRight == TopKIsRight /\ NothingIsLeft

(* Why TaskIsThere, InFlightIsExact and NothingIsLeft hold: what is        *)
(* inductive.  While the flag is down there is a task for every token,     *)
(* released, taken or about to be released.                                *)
Woken == {w \in Workers : worker[w].at \in {"Woken", "Popping"}}
TokensMatch ==
  ~terminate_flag =>
    /\ tasks_sem + Cardinality(Woken) + (IF pc \in {"Count", "Signal"} THEN 1 ELSE 0)
         = Len(tasks)
    /\ \A w \in Workers : worker[w].at # "Exited"

(* Outside the parallel loop no worker has, or gets, anything to do.       *)
Quiet ==
  pc \in {"Mine", "Sequential", "Last", "Stop", "Release", "Join", "Done"} =>
    /\ tasks = <<>> /\ tasks_in_flight = 0
    /\ \A w \in Workers : worker[w].at \in {"Waiting", "Woken", "Exited"}

Closing ==
  /\ terminate_flag => pc \in {"Release", "Join", "Done"}
  /\ pc \in {"Release", "Join"} => terminate_flag
  /\ pc \in {"Mine", "Sequential", "Stop", "Release", "Join", "Done"} => processed = <<>>
  /\ pc \in {"Stop", "Release", "Join", "Done"} => explore = {}
  /\ pc = "Last" /\ ~got_any => explore = {}
  /\ pc = "Done" /\ terminate_flag => \A w \in Workers : worker[w].at = "Exited"

QueueInv == InFlightIsExact /\ TokensMatch /\ Quiet /\ Closing

(* Why TopKIsRight holds.  Each place holds what it should: a worker       *)
(* extensions of its parent, and nothing once it is done.                  *)
PlacesInv ==
  /\ pc \notin {"Mine", "Sequential"} => todo = <<>>
  /\ \A w \in Workers :
       /\ worker[w].at \notin {"Popped", "Extending", "Pushing"} => worker[w].todo = <<>>
       /\ worker[w].at # "Pushing" => worker[w].result = NoEpisode
       /\ \A x \in Elements(worker[w].todo) : <<worker[w].parent, x>> \in Extends
  /\ \A i \in DOMAIN tasks :
       \A x \in Elements(tasks[i].extensions) : <<tasks[i].parent, x>> \in Extends

(* No episode is tried twice, or the list of the best would hold it twice  *)
(* and K others would not be K others: what two places hold has no         *)
(* extension in common, and none that was found.                           *)
Apart(A, B) == \A a \in A, b \in B : NoCommon(a, b)
Hand(w) == Elements(worker[w].todo) \cup {worker[w].result}
Given(i) == Elements(tasks[i].extensions)
TasksApart ==
  \A i \in DOMAIN tasks :
    /\ Spread(tasks[i].extensions) /\ Apart(Elements(processed), Given(i))
    /\ \A j \in DOMAIN tasks : i # j => Apart(Given(i), Given(j))
HandsApart ==
  \A w \in Workers :
    /\ Spread(worker[w].todo) /\ Apart({worker[w].result}, Elements(worker[w].todo))
    /\ Apart(Elements(processed), Hand(w))
    /\ \A v \in Workers : w # v => Apart(Hand(w), Hand(v))
    /\ \A i \in DOMAIN tasks : Apart(Given(i), Hand(w))
ExploreIsFresh ==
  /\ \A a, b \in explore : a # b => NoCommon(a, b)
  /\ Apart(explore, ToBeTried)
TopIsTried ==
  \A f \in top_k : /\ \A a \in ToBeTried : <<a, f>> \notin Extends
                  /\ \A a \in explore : <<a, f>> \in Extends => f = a
OnceInv ==
  Spread(todo) /\ Spread(processed) /\ TasksApart /\ HandsApart /\ ExploreIsFresh /\ TopIsTried

(* No minimal support a worker may read is above the present one, and what *)
(* is to be extended was added to the best, if it belongs to them.         *)
SupportInv ==
  /\ \A e \in top_k : Support[e] >= Floor
  /\ \A minsup \in stored : minsup <= MinSup
  /\ current_minsup \in stored
  /\ \A a \in explore : Wanted(a) => a \in top_k

SearchInv == PlacesInv /\ OnceInv /\ SupportInv /\ NothingIsLost

(* Mine returns: the caller sees the last task finish, and every worker    *)
(* wakes up to leave.                                                      *)
Terminates == <>(pc = "Done")
=============================================================================
