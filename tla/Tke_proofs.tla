----------------------------- MODULE Tke_proofs -----------------------------
(***************************************************************************)
(* Proofs about TKE.  TopKMiner, for any episodes, number of workers, K    *)
(* and capacity of the queues: its types, that the tokens, the tasks and   *)
(* the count of the tasks in flight agree, and that Mine returns the       *)
(* episodes it should.  CompositeEpisode, for any sequence of TryExtend:   *)
(* the bound list is right, and nothing is refused that has the support.   *)
(* Tke, for any data and options: the first Execute's answer is right.     *)
(***************************************************************************)
EXTENDS TopKMiner, Tke, CompositeEpisode, FiniteSetTheorems, SequenceTheorems, NaturalsInduction,
        WellFoundedInduction, TLAPS

TypeInv ==
  /\ TypeOK /\ IsFiniteSet(top_k)
  /\ \A w \in Workers : worker[w].at = "Pushing" => worker[w].result \in Episode
MinerInv == TypeInv /\ QueueInv

(* The workers' record, as TypeOK has it.                                  *)
WorkerState ==
  [at : {"Waiting", "Woken", "Popping", "Popped", "Extending", "Pushing", "Exited"},
   parent : Episode \cup {NoEpisode}, todo : Seq(Episode),
   result : Episode \cup {NoEpisode}]

(* Lowest is the least of the supports: the sets of what is below an       *)
(* episode are ordered by inclusion, and the smallest of them is empty.    *)
LEMMA LowestIsLeast ==
  ASSUME NEW eps \in SUBSET Episode, eps # {}, IsFiniteSet(eps)
  PROVE  /\ Lowest(eps) \in Nat
         /\ \E e \in eps : Lowest(eps) = Support[e]
         /\ \A e \in eps : Lowest(eps) <= Support[e]
<1> DEFINE Below(e) == {f \in eps : Support[f] < Support[e]}
           T == {Below(e) : e \in eps}
<1>1. \A e \in eps : Support[e] \in Nat
  BY TopKMinerAssumption
<1>2. T \subseteq FiniteSubsetsOf(eps) /\ T # {}
  <2>1. T \subseteq SUBSET eps /\ T # {}
    OBVIOUS
  <2> QED BY <2>1, FS_FiniteSubsetsOfFinite
<1>3. PICK t \in T : \A u \in T : ~ (<<u, t>> \in StrictSubsetOrdering(eps))
  <2>1. IsWellFoundedOn(StrictSubsetOrdering(eps), FiniteSubsetsOf(eps))
    BY FS_StrictSubsetOrderingWellFounded
  <2> HIDE DEF T
  <2> QED BY <1>2, <2>1, WFMin
<1>4. PICK x \in eps : t = Below(x)
  OBVIOUS
<1>5. ASSUME NEW f \in eps PROVE Support[x] <= Support[f]
  <2>1. SUFFICES ASSUME Support[f] < Support[x] PROVE FALSE
    BY <1>1
  <2>2. Below(f) \subseteq Below(x) /\ f \in Below(x) /\ f \notin Below(f)
    BY <1>1, <2>1
  <2>3. <<Below(f), Below(x)>> \in StrictSubsetOrdering(eps)
    BY <2>2 DEF StrictSubsetOrdering
  <2> QED BY <1>3, <1>4, <2>3
<1>6. \E n \in {Support[e] : e \in eps} : \A e \in eps : n <= Support[e]
  BY <1>5
<1> QED BY <1>1, <1>6 DEF Lowest

(* What a task holds is a prefix of the extensions of its parent.          *)
LEMMA ExtensionsAreEpisodes ==
  ASSUME NEW ep \in Episode, NEW minsup, NEW ext \in Extensions(ep, minsup)
  PROVE  ext \in Seq(Episode)
<1>1. Children[ep] \in Seq(Episode)
  BY TopKMinerAssumption
<1>2. CASE CutsExtensions
  <2>1. PICK n \in 0 .. Len(Children[ep]) : ext = SubSeq(Children[ep], 1, n)
    BY <1>2 DEF Extensions, ExtCounts
  <2>2. \A i \in 1 .. n : Children[ep][i] \in Episode
    BY <1>1, <2>1, LenProperties, ElementOfSeq
  <2> QED BY <2>1, <2>2, SubSeqProperties, <1>1, LenProperties
<1> QED BY <1>1, <1>2 DEF Extensions

(* The sets of busy workers can be counted.                                *)
LEMMA BusyAreFinite ==
  /\ IsFiniteSet(Holding) /\ Cardinality(Holding) \in Nat
  /\ IsFiniteSet(Woken) /\ Cardinality(Woken) \in Nat
<1>1. Holding \in SUBSET Workers /\ Woken \in SUBSET Workers
  BY DEF Holding, Woken
<1> QED BY <1>1, TopKMinerAssumption, FS_Subset, FS_CardinalityType
----------------------------------------------------------------------------
(* Types.                                                                  *)

(* What TryAdd may leave.                                                  *)
LEMMA TryAddKeepsTypes ==
  ASSUME TypeInv, NEW ep \in Episode, TryAdd(ep)
  PROVE  /\ top_k' \subseteq Episode /\ IsFiniteSet(top_k')
         /\ Cardinality(top_k') <= K /\ explore' \subseteq Episode
<1>1. top_k \subseteq Episode /\ explore \subseteq Episode /\ IsFiniteSet(top_k)
      /\ Cardinality(top_k) <= K /\ K \in Nat /\ Cardinality(top_k) \in Nat
  BY TopKMinerAssumption, FS_CardinalityType DEF TypeInv, TypeOK
<1>2. CASE UNCHANGED <<top_k, explore>>
  BY <1>1, <1>2
<1>3. CASE ~Full /\ top_k' = top_k \cup {ep} /\ explore' = explore \cup {ep}
  <2>1. /\ IsFiniteSet(top_k \cup {ep})
        /\ Cardinality(top_k \cup {ep}) <= Cardinality(top_k) + 1
    BY <1>1, FS_AddElement
  <2>2. Cardinality(top_k) + 1 <= K
    BY <1>1, <1>3 DEF Full
  <2>3. Cardinality(top_k \cup {ep}) \in Nat
    BY <2>1, FS_CardinalityType
  <2> QED BY <1>1, <1>3, <2>1, <2>2, <2>3
<1>4. CASE /\ explore' = explore \cup {ep}
           /\ \E worst \in top_k : top_k' = (top_k \ {worst}) \cup {ep}
  <2>1. PICK worst \in top_k : top_k' = (top_k \ {worst}) \cup {ep}
    BY <1>4
  <2>2. /\ IsFiniteSet(top_k \ {worst})
        /\ Cardinality(top_k \ {worst}) = Cardinality(top_k) - 1
    BY <1>1, FS_RemoveElement
  <2>3. /\ IsFiniteSet((top_k \ {worst}) \cup {ep})
        /\ Cardinality((top_k \ {worst}) \cup {ep}) <= Cardinality(top_k \ {worst}) + 1
    BY <1>1, <2>2, FS_AddElement
  <2>4. Cardinality((top_k \ {worst}) \cup {ep}) \in Nat
    BY <2>3, FS_CardinalityType
  <2> DEFINE kept == (top_k \ {worst}) \cup {ep}
  <2>5. kept \subseteq Episode
    BY <1>1
  <2> HIDE DEF kept
  <2>6. /\ top_k' = kept /\ IsFiniteSet(kept)
        /\ Cardinality(kept) \in Nat /\ Cardinality(kept) <= Cardinality(top_k)
    BY <1>1, <2>1, <2>2, <2>3, <2>4 DEF kept
  <2> QED BY <1>1, <1>4, <2>5, <2>6
<1> QED BY <1>2, <1>3, <1>4 DEF TryAdd

(* What StoreMinSup stores.                                                *)
LEMMA StoreMinSupKeepsTypes ==
  ASSUME TypeInv, top_k' \subseteq Episode, IsFiniteSet(top_k'), StoreMinSup
  PROVE  current_minsup' \in Nat /\ stored' \subseteq Nat
<1>1. K \in Nat \ {0} /\ current_minsup \in Nat /\ stored \subseteq Nat
  BY TopKMinerAssumption DEF TypeInv, TypeOK
<1>2. Cardinality(top_k') = K => top_k' # {}
  BY <1>1, FS_EmptySet
<1>3. current_minsup' \in Nat
  BY <1>1, <1>2, LowestIsLeast DEF StoreMinSup
<1> QED BY <1>1, <1>3 DEF StoreMinSup

(* The minimal support is a number: a full list is not empty.              *)
LEMMA MinSupIsNat == TypeInv => MinSup \in Nat
<1> SUFFICES ASSUME TypeInv PROVE MinSup \in Nat
  OBVIOUS
<1>1. /\ K \in Nat \ {0} /\ Floor \in Nat
      /\ top_k \subseteq Episode /\ IsFiniteSet(top_k)
  BY TopKMinerAssumption DEF TypeInv, TypeOK
<1>2. Full => top_k # {}
  BY <1>1, FS_EmptySet DEF Full
<1> QED BY <1>1, <1>2, LowestIsLeast DEF MinSup

(* The places of the caller and of a worker.                               *)
LEMMA CallerKeepsTypes == MinerInv /\ CallerStep => TypeInv'
<1> SUFFICES ASSUME MinerInv, CallerStep PROVE TypeInv'
  OBVIOUS
<1> USE TopKMinerAssumption DEF MinerInv
<1>1. CASE Seed
  <2>1. todo # <<>> /\ Head(todo) \in Episode /\ Tail(todo) \in Seq(Episode)
    BY <1>1, HeadTailProperties DEF Seed, TypeInv, TypeOK
  <2> QED BY <1>1, <2>1, TryAddKeepsTypes DEF Seed, TypeInv, TypeOK, shared
<1>2. CASE Explore
  BY <1>2, MinSupIsNat DEF Explore, TypeInv, TypeOK, shared
<1>3. CASE TakeItem
  <2>1. PICK item \in explore :
          IF Stale(item, MinSup) THEN explore' = {} /\ UNCHANGED todo
          ELSE explore' = explore \ {item} /\ todo' \in Extensions(item, MinSup)
    BY <1>3 DEF TakeItem
  <2>2. item \in Episode
    BY DEF TypeInv, TypeOK
  <2>3. todo' \in Seq(Episode) /\ explore' \subseteq Episode
    BY <2>1, <2>2, ExtensionsAreEpisodes DEF TypeInv, TypeOK
  <2> QED BY <1>3, <2>3 DEF TakeItem, TypeInv, TypeOK, shared
<1>4. CASE AddChild
  <2>1. todo # <<>> /\ Head(todo) \in Episode /\ Tail(todo) \in Seq(Episode)
    BY <1>4, HeadTailProperties DEF AddChild, TypeInv, TypeOK
  <2> QED BY <1>4, <2>1, TryAddKeepsTypes DEF AddChild, TypeInv, TypeOK, shared
<1>5. CASE SequentialEnd
  BY <1>5 DEF SequentialEnd, TypeInv, TypeOK, caller, shared
<1>6. CASE Drain \/ LastDrain
  <2>1. /\ processed # <<>> /\ TryAdd(Head(processed)) /\ StoreMinSup
        /\ processed' = Tail(processed)
    BY <1>6 DEF Drain, LastDrain
  <2>2. /\ Head(processed) \in Episode /\ processed' \in Seq(Episode)
        /\ Len(processed') <= Capacity
    BY <2>1, HeadTailProperties, LenProperties DEF TypeInv, TypeOK
  <2>3. /\ top_k' \subseteq Episode /\ IsFiniteSet(top_k')
        /\ Cardinality(top_k') <= K /\ explore' \subseteq Episode
    BY <2>1, <2>2, TryAddKeepsTypes
  <2>4. current_minsup' \in Nat /\ stored' \subseteq Nat
    BY <2>1, <2>3, StoreMinSupKeepsTypes
  <2> QED BY <1>6, <2>2, <2>3, <2>4 DEF Drain, LastDrain, TypeInv, TypeOK
<1>7. CASE DrainEnd \/ DispatchEnd \/ Check \/ LastEnd \/ Join
  BY <1>7 DEF DrainEnd, DispatchEnd, Check, LastEnd, Join, TypeInv, TypeOK, caller, shared
<1>8. CASE Dispatch
  <2>0. PICK parent \in explore : \E ext \in Extensions(parent, current_minsup) :
          /\ explore' \subseteq explore
          /\ \/ UNCHANGED tasks
             \/ /\ Len(tasks) < Capacity
                /\ tasks' = Append(tasks, [parent |-> parent, extensions |-> ext])
    BY <1>8 DEF Dispatch
  <2>1. PICK ext \in Extensions(parent, current_minsup) :
          /\ explore' \subseteq explore
          /\ \/ UNCHANGED tasks
             \/ /\ Len(tasks) < Capacity
                /\ tasks' = Append(tasks, [parent |-> parent, extensions |-> ext])
    BY <2>0
  <2>2. parent \in Episode /\ ext \in Seq(Episode)
    BY ExtensionsAreEpisodes DEF TypeInv, TypeOK
  <2>3. [parent |-> parent, extensions |-> ext] \in Task
    BY <2>2 DEF Task
  <2>4. tasks' \in Seq(Task) /\ Len(tasks') <= Capacity
    <3>1. tasks \in Seq(Task) /\ Len(tasks) <= Capacity /\ Len(tasks) \in Nat
      BY LenProperties DEF TypeInv, TypeOK
    <3>2. CASE UNCHANGED tasks
      BY <3>1, <3>2
    <3>3. CASE /\ Len(tasks) < Capacity
               /\ tasks' = Append(tasks, [parent |-> parent, extensions |-> ext])
      <4> DEFINE task == [parent |-> parent, extensions |-> ext]
      <4>1. task \in Task
        BY <2>3
      <4> HIDE DEF task
      <4>2. Append(tasks, task) \in Seq(Task) /\ Len(Append(tasks, task)) = Len(tasks) + 1
        BY <3>1, <4>1, AppendProperties
      <4>3. tasks' = Append(tasks, task)
        BY <3>3 DEF task
      <4> QED BY <3>1, <3>3, <4>2, <4>3
    <3> QED BY <2>1, <3>2, <3>3
  <2>5. pc' \in {pc, "Check", "Count"}
    BY <1>8 DEF Dispatch
  <2> QED BY <1>8, <2>1, <2>4, <2>5 DEF Dispatch, TypeInv, TypeOK
<1>9. CASE Count
  BY <1>9 DEF Count, TypeInv, TypeOK, caller
<1>10. CASE Signal
  BY <1>10, SMTT(30) DEF Signal, TypeInv, TypeOK, caller
<1>11. CASE Stop
  BY <1>11 DEF Stop, TypeInv, TypeOK, caller
<1>12. CASE ReleaseAll
  <2>1. Cardinality(Workers) \in Nat
    BY FS_CardinalityType
  <2>2. tasks_sem' \in Nat
    BY <1>12, <2>1 DEF ReleaseAll, TypeInv, TypeOK
  <2> QED BY <1>12, <2>2 DEF ReleaseAll, TypeInv, TypeOK, caller
<1> QED BY <1>1, <1>2, <1>3, <1>4, <1>5, <1>6, <1>7, <1>8, <1>9, <1>10, <1>11, <1>12 DEF CallerStep

(* A worker that holds a task is counted, also while the caller has not    *)
(* counted the task it has just pushed.                                    *)
LEMMA HoldersAreCounted ==
  ASSUME MinerInv, Holding # {}
  PROVE  tasks_in_flight \in Nat \ {0}
<1>1. /\ tasks_in_flight \in Nat /\ Len(tasks) \in Nat /\ tasks_sem \in Nat
      /\ terminate_flag \in BOOLEAN
  BY LenProperties DEF MinerInv, TypeInv, TypeOK
<1>2. Cardinality(Holding) \in Nat \ {0} /\ Cardinality(Woken) \in Nat
  BY BusyAreFinite, FS_EmptySet
<1>3. pc = "Count" => Len(tasks) > 0
  BY <1>1, <1>2 DEF MinerInv, QueueInv, Closing, TokensMatch
<1> QED BY <1>1, <1>2, <1>3 DEF MinerInv, QueueInv, InFlightIsExact

(* A worker past the flag counts among Woken, so tasks is not empty.       *)
LEMMA TaskIsThereHolds == MinerInv => TaskIsThere
<1> SUFFICES ASSUME MinerInv, NEW w \in Workers, worker[w].at = "Popping"
             PROVE  tasks # <<>>
  BY DEF TaskIsThere
<1>1. /\ Len(tasks) \in Nat /\ tasks_sem \in Nat /\ terminate_flag \in BOOLEAN
  BY LenProperties DEF MinerInv, TypeInv, TypeOK
<1>2. Cardinality(Woken) \in Nat \ {0}
  BY BusyAreFinite, FS_EmptySet DEF Woken
<1>3. ~terminate_flag
  BY DEF MinerInv, QueueInv, Closing, Quiet
<1>4. Len(tasks) > 0
  BY <1>1, <1>2, <1>3 DEF MinerInv, QueueInv, TokensMatch
<1> QED BY <1>4

(* A step of a worker changes its own record, and the queues, in type.     *)
LEMMA WorkerKeepsTypes ==
  ASSUME MinerInv, NEW w \in Workers, WorkerStep(w)
  PROVE  TypeInv'
<1> USE TopKMinerAssumption DEF MinerInv
<1>1. worker \in [Workers -> WorkerState] /\ worker[w] \in WorkerState
  BY DEF TypeInv, TypeOK, WorkerState
<1> SUFFICES /\ \E x \in WorkerState :
                  /\ worker' = [worker EXCEPT ![w] = x]
                  /\ x.at = "Pushing" => x.result \in Episode
             /\ tasks' \in Seq(Task) /\ Len(tasks') <= Capacity
             /\ processed' \in Seq(Episode) /\ Len(processed') <= Capacity
             /\ tasks_sem' \in Nat /\ tasks_in_flight' \in Nat
  <2>1. UNCHANGED <<caller, pc, terminate_flag>>
    BY DEF WorkerStep, Acquire, ReadFlag, PopTask, CheckParent, ExtendParent, Push, Finish
  <2>2. /\ worker' \in [Workers -> WorkerState]
        /\ \A v \in Workers : worker'[v].at = "Pushing" => worker'[v].result \in Episode
    BY <1>1 DEF TypeInv
  <2> QED BY <2>1, <2>2 DEF TypeInv, TypeOK, WorkerState, caller
<1>2. CASE Acquire(w)
  <2> DEFINE x == [worker[w] EXCEPT !.at = "Woken"]
  <2>1. x \in WorkerState /\ x.at # "Pushing"
    BY <1>1 DEF WorkerState
  <2>2. worker' = [worker EXCEPT ![w] = x]
    BY <1>2 DEF Acquire
  <2>3. UNCHANGED <<tasks, processed, tasks_in_flight>> /\ tasks_sem' \in Nat
    BY <1>2 DEF Acquire, TypeInv, TypeOK
  <2> HIDE DEF x
  <2> QED BY <2>1, <2>2, <2>3 DEF TypeInv, TypeOK
<1>3. CASE ReadFlag(w)
  <2> DEFINE x == [worker[w] EXCEPT !.at = IF terminate_flag THEN "Exited" ELSE "Popping"]
  <2>1. x \in WorkerState /\ x.at # "Pushing"
    BY <1>1 DEF WorkerState
  <2>2. worker' = [worker EXCEPT ![w] = x]
    BY <1>3 DEF ReadFlag
  <2> QED BY <1>3, <2>1, <2>2 DEF ReadFlag, TypeInv, TypeOK
<1>4. CASE PopTask(w)
  <2>1. /\ Head(tasks) \in Task /\ tasks' \in Seq(Task) /\ Len(tasks') <= Capacity
    BY <1>4, HeadTailProperties, LenProperties DEF PopTask, TypeInv, TypeOK
  <2>2. Head(tasks).parent \in Episode /\ Head(tasks).extensions \in Seq(Episode)
    BY <2>1 DEF Task
  <2> DEFINE x == [worker[w] EXCEPT !.at = "Popped", !.parent = Head(tasks).parent,
                                    !.todo = Head(tasks).extensions]
  <2>3. x \in WorkerState /\ x.at # "Pushing"
    BY <1>1, <2>2 DEF WorkerState
  <2>4. worker' = [worker EXCEPT ![w] = x]
    BY <1>4 DEF PopTask
  <2> QED BY <1>4, <2>1, <2>3, <2>4 DEF PopTask, TypeInv, TypeOK
<1>5. CASE CheckParent(w)
  <2>1. PICK minsup \in stored :
          worker' = [worker EXCEPT ![w].at = "Extending",
                       ![w].todo = IF Support[worker[w].parent] >= minsup THEN @ ELSE <<>>]
    BY <1>5 DEF CheckParent
  <2> DEFINE left == IF Support[worker[w].parent] >= minsup THEN worker[w].todo ELSE <<>>
             x == [worker[w] EXCEPT !.at = "Extending", !.todo = left]
  <2>2. left \in Seq(Episode)
    BY <1>1, EmptySeq DEF WorkerState
  <2>3. x \in WorkerState /\ x.at # "Pushing"
    <3> HIDE DEF left
    <3> QED BY <1>1, <2>2 DEF WorkerState
  <2>4. worker' = [worker EXCEPT ![w] = x]
    BY <2>1
  <2>5. UNCHANGED <<tasks, processed, tasks_sem, tasks_in_flight>>
    BY <1>5 DEF CheckParent
  <2> HIDE DEF x
  <2> QED BY <2>3, <2>4, <2>5 DEF TypeInv, TypeOK
<1>6. CASE ExtendParent(w)
  <2> DEFINE child == Head(worker[w].todo)
             kept == [worker[w] EXCEPT !.at = "Pushing", !.result = child, !.todo = Tail(@)]
             dropped == [worker[w] EXCEPT !.todo = Tail(@)]
  <2>1. child \in Episode /\ Tail(worker[w].todo) \in Seq(Episode)
    BY <1>1, <1>6, HeadTailProperties DEF ExtendParent, WorkerState
  <2>2. \/ worker' = [worker EXCEPT ![w] = kept]
        \/ worker' = [worker EXCEPT ![w] = dropped]
    BY <1>6 DEF ExtendParent
  <2>3. /\ kept \in WorkerState /\ kept.result \in Episode
        /\ dropped \in WorkerState /\ dropped.at = "Extending"
    <3> HIDE DEF child
    <3> QED BY <1>1, <1>6, <2>1 DEF ExtendParent, WorkerState
  <2> QED BY <1>6, <2>2, <2>3 DEF ExtendParent, TypeInv, TypeOK
<1>7. CASE Push(w)
  <2>1. worker[w].result \in Episode
    BY <1>7 DEF Push, TypeInv
  <2>2. processed' \in Seq(Episode) /\ Len(processed') <= Capacity
    <3>1. processed \in Seq(Episode) /\ Len(processed) \in Nat /\ Len(processed) < Capacity
      BY <1>7, LenProperties DEF Push, TypeInv, TypeOK
    <3>2. /\ Append(processed, worker[w].result) \in Seq(Episode)
          /\ Len(Append(processed, worker[w].result)) = Len(processed) + 1
      BY <2>1, <3>1, AppendProperties
    <3> QED BY <1>7, <3>1, <3>2 DEF Push
  <2> DEFINE x == [worker[w] EXCEPT !.at = "Extending", !.result = NoEpisode]
  <2>3. x \in WorkerState /\ x.at # "Pushing"
    BY <1>1 DEF WorkerState
  <2>4. worker' = [worker EXCEPT ![w] = x]
    BY <1>7 DEF Push
  <2> QED BY <1>7, <2>2, <2>3, <2>4 DEF Push, TypeInv, TypeOK
<1>8. CASE Finish(w)
  <2>1. tasks_in_flight' \in Nat
    BY <1>8, HoldersAreCounted DEF Finish, Holding
  <2>2. Idle \in WorkerState /\ Idle.at # "Pushing"
    BY EmptySeq DEF WorkerState, Idle
  <2> QED BY <1>8, <2>1, <2>2 DEF Finish, TypeInv, TypeOK
<1> QED BY <1>2, <1>3, <1>4, <1>5, <1>6, <1>7, <1>8 DEF WorkerStep
----------------------------------------------------------------------------
(* The tokens, the tasks and the count.                                    *)

(* A step of the caller that does not touch the workers leaves the sets of *)
(* busy workers alone.                                                     *)
LEMMA CallerLeavesWorkers ==
  ASSUME CallerStep
  PROVE  worker' = worker /\ Holding' = Holding /\ Woken' = Woken
<1>1. worker' = worker
  BY DEF CallerStep, Seed, Explore, TakeItem, AddChild, SequentialEnd, Drain, DrainEnd,
         Dispatch, Count, Signal, DispatchEnd, Check, LastDrain, LastEnd, Stop,
         ReleaseAll, Join, shared
<1> QED BY <1>1 DEF Holding, Woken

(* The caller counts and signals what it pushes, and stops when all wait.  *)
LEMMA CallerKeepsQueues == MinerInv /\ CallerStep => QueueInv'
<1> SUFFICES ASSUME MinerInv, CallerStep PROVE QueueInv'
  OBVIOUS
<1> USE DEF QueueInv
<1>1. /\ worker' = worker /\ Holding' = Holding /\ Woken' = Woken
      /\ Cardinality(Holding) \in Nat /\ Cardinality(Woken) \in Nat
      /\ IsFiniteSet(Holding) /\ IsFiniteSet(Woken)
  BY CallerLeavesWorkers, BusyAreFinite
<1>2. /\ tasks_in_flight \in Nat /\ tasks_sem \in Nat /\ Len(tasks) \in Nat
      /\ terminate_flag \in BOOLEAN /\ got_any \in BOOLEAN
      /\ tasks \in Seq(Task) /\ processed \in Seq(Episode)
      /\ InFlightIsExact /\ TokensMatch /\ Quiet /\ Closing
      /\ \A w \in Workers : worker[w] \in WorkerState
  BY LenProperties DEF MinerInv, TypeInv, TypeOK, WorkerState
<1>3. CASE Seed
  BY <1>1, <1>2, <1>3 DEF Seed, shared, InFlightIsExact, TokensMatch, Quiet, Closing
<1>4. CASE Explore
  BY <1>1, <1>2, <1>4 DEF Explore, shared, InFlightIsExact, TokensMatch, Quiet, Closing
<1>5. CASE TakeItem \/ AddChild
  BY <1>1, <1>2, <1>5 DEF TakeItem, AddChild, shared, InFlightIsExact, TokensMatch, Quiet, Closing
<1>6. CASE SequentialEnd
  BY <1>1, <1>2, <1>6 DEF SequentialEnd, caller, shared, InFlightIsExact, TokensMatch, Quiet, Closing
<1>7. CASE Drain
  BY <1>1, <1>2, <1>7 DEF Drain, InFlightIsExact, TokensMatch, Quiet, Closing
<1>8. CASE DrainEnd \/ DispatchEnd
  BY <1>1, <1>2, <1>8 DEF DrainEnd, DispatchEnd, caller, shared, InFlightIsExact, TokensMatch, Quiet, Closing
<1>9. CASE Dispatch
  <2>1. ~terminate_flag /\ pc = "Dispatch"
    BY <1>9, <1>2 DEF Dispatch, Closing
  <2>2. CASE UNCHANGED tasks /\ pc' \in {"Dispatch", "Check"}
    BY <1>1, <1>2, <1>9, <2>1, <2>2
       DEF Dispatch, InFlightIsExact, TokensMatch, Quiet, Closing
  <2>3. CASE pc' = "Count" /\ Len(tasks') = Len(tasks) + 1
    BY <1>1, <1>2, <1>9, <2>1, <2>3
       DEF Dispatch, InFlightIsExact, TokensMatch, Quiet, Closing
  <2>4. ASSUME NEW parent \in explore, NEW ext \in Extensions(parent, current_minsup),
               tasks' = Append(tasks, [parent |-> parent, extensions |-> ext])
        PROVE  Len(tasks') = Len(tasks) + 1
    <3>1. parent \in Episode /\ ext \in Seq(Episode)
      BY ExtensionsAreEpisodes DEF MinerInv, TypeInv, TypeOK
    <3>2. [parent |-> parent, extensions |-> ext] \in Task
      BY <3>1 DEF Task
    <3> QED BY <1>2, <2>4, <3>2, AppendProperties
  <2> QED BY <1>9, <2>1, <2>2, <2>3, <2>4 DEF Dispatch
<1>10. CASE Count
  BY <1>1, <1>2, <1>10 DEF Count, caller, InFlightIsExact, TokensMatch, Quiet, Closing
<1>11. CASE Signal
  BY <1>1, <1>2, <1>11 DEF Signal, caller, InFlightIsExact, TokensMatch, Quiet, Closing
<1>12. CASE Check
  <2>1. CASE explore = {} /\ tasks_in_flight = 0
    <3>1. Len(tasks) = 0 /\ Cardinality(Holding) = 0
      BY <1>1, <1>2, <1>12, <2>1 DEF Check, InFlightIsExact
    <3>2. ~terminate_flag /\ Cardinality(Woken) = 0
      BY <1>1, <1>2, <1>12, <3>1 DEF Check, TokensMatch, Closing
    <3>3. tasks = <<>> /\ Holding = {} /\ Woken = {}
      BY <1>1, <1>2, <3>1, <3>2, FS_EmptySet, EmptySeq
    <3>4. \A w \in Workers : worker[w].at = "Waiting"
      BY <1>2, <3>2, <3>3 DEF Holding, Woken, WorkerState, TokensMatch
    <3> QED BY <1>1, <1>2, <1>12, <2>1, <3>2, <3>3, <3>4
            DEF Check, shared, InFlightIsExact, TokensMatch, Quiet, Closing
  <2>2. CASE ~(explore = {} /\ tasks_in_flight = 0)
    BY <1>1, <1>2, <1>12, <2>2 DEF Check, shared, InFlightIsExact, TokensMatch, Quiet, Closing
  <2> QED BY <2>1, <2>2
<1>13. CASE LastDrain
  BY <1>1, <1>2, <1>13 DEF LastDrain, InFlightIsExact, TokensMatch, Quiet, Closing
<1>14. CASE LastEnd
  BY <1>1, <1>2, <1>14 DEF LastEnd, caller, shared, InFlightIsExact, TokensMatch, Quiet, Closing
<1>15. CASE Stop
  BY <1>1, <1>2, <1>15 DEF Stop, caller, InFlightIsExact, TokensMatch, Quiet, Closing
<1>16. CASE ReleaseAll
  BY <1>1, <1>2, <1>16 DEF ReleaseAll, caller, InFlightIsExact, TokensMatch, Quiet, Closing
<1>17. CASE Join
  BY <1>1, <1>2, <1>17 DEF Join, caller, shared, InFlightIsExact, TokensMatch, Quiet, Closing
<1> QED BY <1>3, <1>4, <1>5, <1>6, <1>7, <1>8, <1>9, <1>10, <1>11, <1>12, <1>13, <1>14,
           <1>15, <1>16, <1>17 DEF CallerStep

(* A worker turns a token into a held task, and gives it back finished.    *)
LEMMA WorkerKeepsQueues ==
  ASSUME MinerInv, NEW w \in Workers, WorkerStep(w)
  PROVE  QueueInv'
<1> USE DEF QueueInv
<1>1. /\ tasks_in_flight \in Nat /\ tasks_sem \in Nat /\ Len(tasks) \in Nat
      /\ terminate_flag \in BOOLEAN
      /\ tasks \in Seq(Task) /\ processed \in Seq(Episode)
      /\ InFlightIsExact /\ TokensMatch /\ Quiet /\ Closing
      /\ worker \in [Workers -> WorkerState]
  BY LenProperties DEF MinerInv, TypeInv, TypeOK, WorkerState
<1>2. worker' \in [Workers -> WorkerState] /\ worker'[w] \in WorkerState
  BY WorkerKeepsTypes DEF TypeInv, TypeOK, WorkerState
<1>3. \A v \in Workers \ {w} : worker'[v] = worker[v]
  BY <1>1 DEF WorkerStep, Acquire, ReadFlag, PopTask, CheckParent, ExtendParent, Push, Finish
<1>4. /\ IsFiniteSet(Holding) /\ Cardinality(Holding) \in Nat
      /\ IsFiniteSet(Woken) /\ Cardinality(Woken) \in Nat
  BY BusyAreFinite
<1>5. UNCHANGED <<caller, pc, terminate_flag>>
  BY DEF WorkerStep, Acquire, ReadFlag, PopTask, CheckParent, ExtendParent, Push, Finish
<1>6. CASE Acquire(w)
  <2>1. Holding' = Holding /\ Woken' = Woken \cup {w} /\ w \notin Woken
    BY <1>1, <1>3, <1>6 DEF Acquire, Holding, Woken
  <2>2. Cardinality(Woken') = Cardinality(Woken) + 1
    BY <1>4, <2>1, FS_AddElement
  <2> QED BY <1>1, <1>3, <1>4, <1>5, <1>6, <2>1, <2>2
          DEF Acquire, caller, InFlightIsExact, TokensMatch, Quiet, Closing
<1>7. CASE ReadFlag(w)
  <2>1. CASE terminate_flag
    <3>1. Holding' = Holding
      BY <1>1, <1>3, <1>7, <2>1 DEF ReadFlag, Holding
    <3> QED BY <1>1, <1>3, <1>5, <1>7, <2>1, <3>1
            DEF ReadFlag, caller, InFlightIsExact, TokensMatch, Quiet, Closing
  <2>2. CASE ~terminate_flag
    <3>1. Holding' = Holding /\ Woken' = Woken
      BY <1>1, <1>3, <1>7, <2>2 DEF ReadFlag, Holding, Woken
    <3>2. Len(tasks) > 0
      <4>1. Cardinality(Woken) # 0
        BY <1>4, <1>7, FS_EmptySet DEF ReadFlag, Woken
      <4> QED BY <1>1, <1>4, <2>2, <4>1 DEF TokensMatch
    <3> QED BY <1>1, <1>3, <1>5, <1>7, <2>2, <3>1, <3>2
            DEF ReadFlag, caller, InFlightIsExact, TokensMatch, Quiet, Closing
  <2> QED BY <1>1, <2>1, <2>2
<1>8. CASE PopTask(w)
  <2>1. Holding' = Holding \cup {w} /\ w \notin Holding
    BY <1>1, <1>3, <1>8 DEF PopTask, Holding
  <2>2. Woken' = Woken \ {w} /\ w \in Woken
    BY <1>1, <1>3, <1>8 DEF PopTask, Woken
  <2>3. /\ Cardinality(Holding') = Cardinality(Holding) + 1
        /\ Cardinality(Woken') = Cardinality(Woken) - 1
    BY <1>4, <2>1, <2>2, FS_AddElement, FS_RemoveElement
  <2>4. Len(tasks') = Len(tasks) - 1 /\ tasks # <<>>
    BY <1>1, <1>8, HeadTailProperties DEF PopTask
  <2>5. worker'[w].at = "Popped" /\ UNCHANGED <<processed, tasks_sem, tasks_in_flight>>
    BY <1>1, <1>8 DEF PopTask
  <2>6. /\ pc \notin {"Mine", "Sequential", "Last", "Stop", "Release", "Join", "Done"}
        /\ UNCHANGED <<pc, terminate_flag>>
    BY <1>1, <1>5, <1>8 DEF PopTask, Quiet
  <2>7. InFlightIsExact'
    BY <1>1, <1>4, <2>3, <2>4, <2>5, <2>6 DEF InFlightIsExact
  <2>8. TokensMatch'
    BY <1>1, <1>3, <1>4, <2>3, <2>4, <2>5, <2>6 DEF TokensMatch
  <2>9. Quiet' /\ Closing'
    BY <1>1, <1>5, <2>6 DEF caller, Quiet, Closing
  <2> QED BY <2>7, <2>8, <2>9
<1>9. CASE CheckParent(w) \/ ExtendParent(w) \/ Push(w)
  <2>1. /\ worker[w].at \in {"Popped", "Extending", "Pushing"}
        /\ worker'[w].at \in {"Popped", "Extending", "Pushing"}
        /\ UNCHANGED <<tasks, tasks_sem, tasks_in_flight>>
    <3>1. CASE CheckParent(w)
      BY <1>1, <3>1 DEF CheckParent, WorkerState
    <3>2. CASE ExtendParent(w)
      <4>1. PICK minsup \in stored :
              IF Support[Head(worker[w].todo)] >= minsup
                THEN worker' = [worker EXCEPT ![w].at = "Pushing",
                                              ![w].result = Head(worker[w].todo),
                                              ![w].todo = Tail(@)]
                ELSE worker' = [worker EXCEPT ![w].todo = Tail(@)]
        BY <3>2 DEF ExtendParent
      <4>2. worker'[w].at \in {worker[w].at, "Pushing"}
        BY <1>1, <4>1 DEF WorkerState
      <4> QED BY <3>2, <4>2 DEF ExtendParent
    <3>3. CASE Push(w)
      BY <1>1, <3>3 DEF Push, WorkerState
    <3> QED BY <1>9, <3>1, <3>2, <3>3
  <2>2. Holding' = Holding /\ Woken' = Woken
    BY <1>3, <2>1 DEF Holding, Woken
  <2>3. pc \notin {"Mine", "Sequential", "Last", "Stop", "Release", "Join", "Done"}
    BY <1>1, <2>1 DEF Quiet
  <2> QED BY <1>1, <1>3, <1>5, <2>1, <2>2, <2>3
          DEF caller, InFlightIsExact, TokensMatch, Quiet, Closing
<1>10. CASE Finish(w)
  <2>1. worker'[w].at = "Waiting" /\ w \in Holding
        /\ UNCHANGED <<tasks, processed, tasks_sem>> /\ tasks_in_flight' = tasks_in_flight - 1
    BY <1>1, <1>10 DEF Finish, Idle, Holding
  <2>2. Holding' = Holding \ {w} /\ Woken' = Woken
    BY <1>3, <2>1 DEF Holding, Woken
  <2>3. Cardinality(Holding') = Cardinality(Holding) - 1
    BY <1>4, <2>1, <2>2, FS_RemoveElement
  <2>4. pc \notin {"Mine", "Sequential", "Last", "Stop", "Release", "Join", "Done"}
    BY <1>1, <2>1 DEF Quiet, Holding
  <2>5. InFlightIsExact'
    BY <1>1, <1>4, <1>5, <2>1, <2>3 DEF InFlightIsExact
  <2>6. TokensMatch'
    BY <1>1, <1>3, <1>4, <1>5, <2>1, <2>2 DEF TokensMatch
  <2>7. Quiet' /\ Closing'
    BY <1>1, <1>5, <2>1, <2>4 DEF caller, Quiet, Closing
  <2> QED BY <2>5, <2>6, <2>7
<1> QED BY <1>6, <1>7, <1>8, <1>9, <1>10 DEF WorkerStep
----------------------------------------------------------------------------
(* Nothing has been handed out yet.                                        *)
LEMMA InitEstablishes == TopKMinerInit => MinerInv
<1> SUFFICES ASSUME TopKMinerInit PROVE MinerInv
  OBVIOUS
<1>1. TypeInv
  <2>1. Cardinality(top_k) = 0 /\ IsFiniteSet(top_k)
    BY FS_EmptySet DEF TopKMinerInit
  <2>2. Idle \in WorkerState /\ Idle.at # "Pushing"
    BY EmptySeq DEF Idle, WorkerState
  <2>3. tasks \in Seq(Task) /\ Len(tasks) = 0 /\ processed \in Seq(Episode) /\ Len(processed) = 0
    BY EmptySeq DEF TopKMinerInit
  <2>4. /\ top_k = {} /\ explore = {} /\ todo \in Seq(Episode) /\ got_any \in BOOLEAN
        /\ current_minsup \in Nat /\ stored \subseteq Nat
        /\ tasks_sem \in Nat /\ tasks_in_flight \in Nat /\ terminate_flag \in BOOLEAN
        /\ pc = "Mine"
    BY TopKMinerAssumption DEF TopKMinerInit
  <2>5. /\ worker \in [Workers -> WorkerState]
        /\ \A w \in Workers : worker[w].at # "Pushing"
    <3> HIDE DEF Idle
    <3> QED BY <2>2 DEF TopKMinerInit
  <2>6. K \in Nat /\ Capacity \in Nat
    BY TopKMinerAssumption
  <2>7. Cardinality(top_k) <= K /\ Len(tasks) <= Capacity /\ Len(processed) <= Capacity
    BY <2>1, <2>3, <2>6
  <2>8. TypeOK
    BY <2>3, <2>4, <2>5, <2>7 DEF TypeOK, WorkerState
  <2> QED BY <2>1, <2>5, <2>8 DEF TypeInv
<1>2. Holding = {} /\ Woken = {}
  BY DEF TopKMinerInit, Idle, Holding, Woken
<1>3. QueueInv
  BY <1>2, FS_EmptySet
     DEF TopKMinerInit, Idle, QueueInv, InFlightIsExact, TokensMatch, Quiet, Closing
<1> QED BY <1>1, <1>3 DEF MinerInv

(* Every step is one of the caller or of one worker.                       *)
LEMMA StepKeeps == MinerInv /\ [Next]_vars => MinerInv'
<1> SUFFICES ASSUME MinerInv, [Next]_vars PROVE MinerInv'
  OBVIOUS
<1>1. CASE CallerStep
  BY <1>1, CallerKeepsTypes, CallerKeepsQueues DEF MinerInv
<1>2. ASSUME NEW w \in Workers, WorkerStep(w) PROVE MinerInv'
  BY <1>2, WorkerKeepsTypes, WorkerKeepsQueues DEF MinerInv
<1>3. CASE UNCHANGED vars
  BY <1>3 DEF vars, caller, MinerInv, TypeInv, TypeOK, QueueInv, InFlightIsExact, Holding,
              TokensMatch, Woken, Quiet, Closing
<1> QED BY <1>1, <1>2, <1>3 DEF Next, Returned

(* The inductive invariant holds always.                                   *)
THEOREM MinerInvariant == TopKMinerSpec => []MinerInv
BY InitEstablishes, StepKeeps, PTL DEF TopKMinerSpec

(* The type invariant, for any episodes, workers, K and capacity.          *)
THEOREM TypeCorrect == TopKMinerSpec => []TypeOK
<1>1. MinerInv => TypeOK
  BY DEF MinerInv, TypeInv
<1> QED BY <1>1, MinerInvariant, PTL

(* assert(task_popped): a worker with a token finds a task.                *)
THEOREM TaskIsAlwaysThere == TopKMinerSpec => []TaskIsThere
BY TaskIsThereHolds, MinerInvariant, PTL

(* tasks_in_flight is the number of tasks handed out and not finished.     *)
THEOREM InFlightIsAlwaysExact == TopKMinerSpec => []InFlightIsExact
<1>1. MinerInv => InFlightIsExact
  BY DEF MinerInv, QueueInv
<1> QED BY <1>1, MinerInvariant, PTL

(* When Mine returns, queues and explore are empty and no thread is left.  *)
THEOREM NothingIsEverLeft == TopKMinerSpec => []NothingIsLeft
<1>1. MinerInv => NothingIsLeft
  BY DEF MinerInv, QueueInv, Quiet, Closing, NothingIsLeft
<1> QED BY <1>1, MinerInvariant, PTL
----------------------------------------------------------------------------
(* The answer.                                                             *)

(* What a queue holds is its head and the rest.                            *)
LEMMA ElementsOfTail ==
  ASSUME NEW S, NEW s \in Seq(S), s # <<>>
  PROVE  /\ Tail(s) \in Seq(S) /\ Head(s) \in S
         /\ Elements(s) = {Head(s)} \cup Elements(Tail(s))
         /\ Spread(s) => Spread(Tail(s)) /\ Apart({Head(s)}, Elements(Tail(s)))
<1>0. /\ Tail(s) \in Seq(S) /\ Len(Tail(s)) = Len(s) - 1 /\ Head(s) \in S
      /\ Len(s) \in Nat \ {0} /\ DOMAIN s = 1 .. Len(s)
      /\ \A i \in 1 .. Len(Tail(s)) : Tail(s)[i] = s[i + 1]
  BY HeadTailProperties, LenProperties, EmptySeq
<1>1. /\ Head(s) = s[1] /\ 1 \in DOMAIN s
      /\ DOMAIN Tail(s) = 1 .. Len(s) - 1
      /\ \A i \in DOMAIN Tail(s) : Tail(s)[i] = s[i + 1]
  <2>1. Head(s) = s[1] /\ 1 \in DOMAIN s
    BY <1>0
  <2>2. DOMAIN Tail(s) = 1 .. Len(Tail(s))
    BY <1>0, LenProperties
  <2> QED BY <1>0, <2>1, <2>2
<1>2. \A i \in DOMAIN s : i = 1 \/ (i - 1 \in DOMAIN Tail(s) /\ s[i] = Tail(s)[i - 1])
  BY <1>0, <1>1
<1>3. Elements(s) = {Head(s)} \cup Elements(Tail(s))
  <2>1. ASSUME NEW i \in DOMAIN Tail(s) PROVE i + 1 \in DOMAIN s /\ Tail(s)[i] = s[i + 1]
    BY <1>0, <1>1
  <2>2. Elements(Tail(s)) \subseteq Elements(s) /\ Head(s) \in Elements(s)
    BY <1>1, <2>1 DEF Elements
  <2>3. ASSUME NEW x \in Elements(s) PROVE x = Head(s) \/ x \in Elements(Tail(s))
    <3>1. PICK i \in DOMAIN s : x = s[i]
      BY DEF Elements
    <3>2. i = 1 \/ (i - 1 \in DOMAIN Tail(s) /\ s[i] = Tail(s)[i - 1])
      BY <1>2
    <3> QED BY <1>1, <3>1, <3>2 DEF Elements
  <2> QED BY <2>2, <2>3
<1>4. Spread(s) => Spread(Tail(s)) /\ Apart({Head(s)}, Elements(Tail(s)))
  <2>1. ASSUME Spread(s), NEW i \in DOMAIN Tail(s)
        PROVE  i + 1 \in DOMAIN s /\ i + 1 # 1 /\ Tail(s)[i] = s[i + 1]
    BY <1>0, <1>1
  <2>2. ASSUME Spread(s) PROVE Spread(Tail(s))
    BY <1>1, <2>1, <2>2 DEF Spread
  <2>3. ASSUME Spread(s) PROVE Apart({Head(s)}, Elements(Tail(s)))
    BY <1>1, <2>1, <2>3 DEF Spread, Apart, Elements
  <2> QED BY <2>2, <2>3
<1> QED BY <1>0, <1>3, <1>4

(* A queue that an episode is pushed to.                                   *)
LEMMA ElementsOfAppend ==
  ASSUME NEW S, NEW s \in Seq(S), NEW x \in S
  PROVE  /\ Elements(Append(s, x)) = Elements(s) \cup {x}
         /\ Spread(s) /\ Apart({x}, Elements(s)) => Spread(Append(s, x))
<1>1. /\ DOMAIN Append(s, x) = 1 .. Len(s) + 1 /\ Len(s) \in Nat /\ DOMAIN s = 1 .. Len(s)
      /\ Append(s, x)[Len(s) + 1] = x
      /\ \A i \in 1 .. Len(s) : Append(s, x)[i] = s[i]
  BY AppendProperties, LenProperties
<1>2. \A i \in DOMAIN Append(s, x) : i = Len(s) + 1 \/ i \in DOMAIN s
  BY <1>1
<1>3. Elements(Append(s, x)) = Elements(s) \cup {x}
  BY <1>1, <1>2 DEF Elements
<1>4. ASSUME Spread(s), Apart({x}, Elements(s)) PROVE Spread(Append(s, x))
  <2>1. \A i \in DOMAIN s : NoCommon(x, s[i]) /\ NoCommon(s[i], x)
    BY <1>4 DEF Apart, Elements, NoCommon
  <2> QED BY <1>1, <1>2, <1>4, <2>1 DEF Spread
<1> QED BY <1>3, <1>4

(* A prefix of the extensions holds all that lead to episodes whose blocks *)
(* are frequent enough: the blocks come in the order of their supports.    *)
LEMMA ExtensionsAreRight ==
  ASSUME NEW ep \in Episode, NEW minsup \in Nat, NEW ext \in Extensions(ep, minsup)
  PROVE  /\ ext \in Seq(Episode) /\ Spread(ext)
         /\ \A x \in Elements(ext) : \A f \in Episode :
              <<x, f>> \in Extends => <<ep, f>> \in Extends /\ f # ep
         /\ \A x \in Elements(ext) : <<ep, x>> \in Extends
         /\ \A f \in Episode : <<ep, f>> \in Extends /\ f # ep =>
              LeastSupport[f] < minsup \/ \E x \in Elements(ext) : <<x, f>> \in Extends
<1> DEFINE c == Children[ep]
<1>1. ext \in Seq(Episode)
  BY ExtensionsAreEpisodes
<1>2. c \in Seq(Episode) /\ Len(c) \in Nat /\ DOMAIN c = 1 .. Len(c)
  BY TopKMinerAssumption, LenProperties
<1>3. PICK n \in 0 .. Len(c) :
        /\ DOMAIN ext = 1 .. n /\ \A i \in 1 .. n : ext[i] = c[i]
        /\ n = Len(c) \/ (/\ CutsExtensions /\ n < Len(c)
                          /\ ~(ExtensionSupport[c[n + 1]] >= minsup))
  <2>1. CASE CutsExtensions
    <3>1. PICK n \in 0 .. Len(c) :
            /\ ext = SubSeq(c, 1, n)
            /\ n < Len(c) => ~(ExtensionSupport[c[n + 1]] >= minsup)
      BY <2>1 DEF Extensions, ExtCounts
    <3>2. DOMAIN ext = 1 .. n /\ \A i \in 1 .. n : ext[i] = c[i]
      BY <1>2, <3>1, SubSeqProperties
    <3> QED BY <1>2, <2>1, <3>1, <3>2
  <2>2. CASE ~CutsExtensions
    BY <1>2, <2>2 DEF Extensions
  <2> QED BY <2>1, <2>2
<1>4. \A i \in DOMAIN ext : i \in DOMAIN c /\ ext[i] = c[i]
  BY <1>2, <1>3
<1>5. Spread(ext)
  <2>1. Spread(c)
    BY SearchTreeAssumption
  <2> HIDE DEF c
  <2> QED BY <1>4, <2>1 DEF Spread
<1>6. ASSUME NEW x \in Elements(ext), NEW f \in Episode, <<x, f>> \in Extends
      PROVE  <<ep, f>> \in Extends /\ f # ep
  BY <1>4, <1>6, SearchTreeAssumption DEF Elements
<1>7. ASSUME NEW x \in Elements(ext) PROVE <<ep, x>> \in Extends
  <2>1. x \in Episode
    BY <1>1, <1>4, ElementOfSeq, LenProperties DEF Elements
  <2> QED BY <1>6, <2>1, SearchTreeAssumption
<1>8. ASSUME NEW f \in Episode, <<ep, f>> \in Extends, f # ep
      PROVE  LeastSupport[f] < minsup \/ \E x \in Elements(ext) : <<x, f>> \in Extends
  <2>1. PICK i \in DOMAIN c : <<c[i], f>> \in Extends
    BY <1>8, SearchTreeAssumption
  <2>2. CASE i \in 1 .. n
    BY <1>3, <2>1, <2>2 DEF Elements
  <2>3. CASE i \notin 1 .. n
    <3>1. /\ CutsExtensions /\ n + 1 \in DOMAIN c /\ n + 1 <= i
          /\ ~(ExtensionSupport[c[n + 1]] >= minsup)
      BY <1>2, <1>3, <2>1, <2>3
    <3>2. c[i] \in Episode /\ c[n + 1] \in Episode
      BY <1>2, <2>1, <3>1, ElementOfSeq
    <3>3. ExtensionSupport[c[i]] <= ExtensionSupport[c[n + 1]]
      <4>1. ExtensionSupport[c[n + 1]] \in Nat
        BY <3>2, TopKMinerAssumption
      <4>2. n + 1 < i \/ n + 1 = i
        BY <1>2, <2>1, <3>1
      <4> QED BY <2>1, <3>1, <4>1, <4>2, SearchTreeAssumption
    <3>4. LeastSupport[f] <= LeastSupport[c[i]] /\ LeastSupport[c[i]] <= ExtensionSupport[c[i]]
      BY <2>1, <3>2, SearchTreeAssumption
    <3>5. /\ LeastSupport[f] \in Nat /\ LeastSupport[c[i]] \in Nat
          /\ ExtensionSupport[c[i]] \in Nat /\ ExtensionSupport[c[n + 1]] \in Nat
      BY <3>2, TopKMinerAssumption
    <3> QED BY <3>1, <3>3, <3>4, <3>5
  <2> QED BY <2>2, <2>3
<1> QED BY <1>1, <1>5, <1>6, <1>7, <1>8

(* What the proofs use of the search tree.                                 *)
LEMMA ExtendsFacts ==
  /\ \A e \in Episode : Support[e] \in Nat /\ LeastSupport[e] \in Nat
  /\ \A e \in Episode : LeastSupport[e] <= Support[e]
  /\ \A e, f \in Episode : <<e, f>> \in Extends => Support[f] <= Support[e]
  /\ \A e \in Episode : <<e, e>> \in Extends
  /\ \A e, f : <<e, f>> \in Extends => e \in Episode /\ f \in Episode
  /\ K \in Nat \ {0} /\ Floor \in Nat \ {0}
BY TopKMinerAssumption, SearchTreeAssumption

(* The minimal support, and what is below it.                              *)
LEMMA MinSupIsLeast ==
  ASSUME TypeInv, \A e \in top_k : Support[e] >= Floor
  PROVE  /\ MinSup \in Nat /\ MinSup >= Floor
         /\ Full => \A e \in top_k : MinSup <= Support[e]
         /\ Full => \E e \in top_k : MinSup = Support[e]
         /\ ~Full => MinSup = Floor
<1>1. /\ top_k \subseteq Episode /\ IsFiniteSet(top_k) /\ K \in Nat \ {0} /\ Floor \in Nat
  BY TopKMinerAssumption DEF TypeInv, TypeOK
<1>2. Full => top_k # {}
  BY <1>1, FS_EmptySet DEF Full
<1>3. Full => /\ Lowest(top_k) \in Nat
              /\ \E e \in top_k : Lowest(top_k) = Support[e]
              /\ \A e \in top_k : Lowest(top_k) <= Support[e]
  BY <1>1, <1>2, LowestIsLeast
<1> QED BY <1>1, <1>3 DEF MinSup

(* What extends an episode that is too rare is not wanted.                 *)
LEMMA RareIsUnwanted ==
  ASSUME TypeInv, SupportInv, NEW x \in Episode, NEW e \in Episode, <<x, e>> \in Extends,
         Support[x] < MinSup \/ (Full /\ Support[x] <= MinSup)
  PROVE  ~Wanted(e)
<1>1. MinSup \in Nat /\ ~Full => MinSup = Floor
  BY MinSupIsLeast DEF SupportInv
<1> QED BY <1>1, ExtendsFacts, MinSupIsLeast DEF SupportInv, Wanted

(* An episode with too rare a block is not wanted either.                  *)
LEMMA RareBlockIsUnwanted ==
  ASSUME TypeInv, SupportInv, NEW e \in Episode, LeastSupport[e] < MinSup
  PROVE  ~Wanted(e)
<1>1. MinSup \in Nat /\ ~Full => MinSup = Floor
  BY MinSupIsLeast DEF SupportInv
<1>2. Support[e] >= Floor => LeastSupport[e] >= Floor
  BY SearchTreeAssumption
<1> QED BY <1>1, <1>2, ExtendsFacts, MinSupIsLeast DEF SupportInv, Wanted

(* The episode tried is new, goes to both queues or is too rare, and the   *)
(* minimal support does not fall.                                          *)
LEMMA TryAddGains ==
  ASSUME TypeInv, SupportInv, TopIsTried, NEW ep \in ToBeTried, ep \in Episode, TryAdd(ep)
  PROVE  /\ MinSup' \in Nat /\ MinSup <= MinSup'
         /\ \A e \in top_k' : Support[e] >= Floor
         /\ explore \subseteq explore' /\ explore' \subseteq explore \cup {ep}
         /\ top_k' \subseteq top_k \cup {ep}
         /\ \A e \in Episode : Wanted(e)' => Wanted(e)
         /\ \A e \in top_k : Wanted(e)' => e \in top_k'
         /\ \A e \in Episode : Wanted(e)' /\ <<ep, e>> \in Extends => ep \in explore'
         /\ ep \in explore' => ep \in top_k' \/ ep \in explore
<1>0. /\ MinSup \in Nat /\ MinSup >= Floor /\ (~Full => MinSup = Floor)
      /\ Full => \A e \in top_k : MinSup <= Support[e]
      /\ Floor \in Nat /\ K \in Nat \ {0}
      /\ top_k \subseteq Episode /\ IsFiniteSet(top_k) /\ Cardinality(top_k) \in Nat
      /\ \A e \in top_k : Support[e] >= Floor
  BY MinSupIsLeast, ExtendsFacts, FS_CardinalityType DEF SupportInv, TypeInv, TypeOK
<1>1. ep \notin top_k
  BY ExtendsFacts DEF TopIsTried
<1>2. CASE UNCHANGED <<top_k, explore>>
  <2>1. MinSup' = MinSup /\ \A e \in Episode : Wanted(e)' <=> Wanted(e)
    BY <1>2 DEF MinSup, Full, Wanted
  <2>2. (IF Full THEN Support[ep] <= MinSup ELSE Support[ep] < MinSup) \/ ep \in explore
    BY <1>2 DEF TryAdd
  <2>3. ep \notin explore => \A e \in Episode : <<ep, e>> \in Extends => ~Wanted(e)
    BY <2>2, RareIsUnwanted
  <2> QED BY <1>0, <1>2, <2>1, <2>3
<1>3. CASE ~Full /\ Support[ep] >= MinSup /\ top_k' = top_k \cup {ep} /\ explore' = explore \cup {ep}
  <2>1. \A e \in top_k' : Support[e] >= Floor /\ e \in Episode
    BY <1>0, <1>3
  <2>2. IsFiniteSet(top_k')
    BY <1>0, <1>3, FS_AddElement
  <2>3. MinSup' \in Nat /\ MinSup' >= Floor
    <3>1. CASE Full'
      <4>1. top_k' # {}
        BY <1>3
      <4>2. Lowest(top_k') \in Nat /\ \E e \in top_k' : Lowest(top_k') = Support[e]
        BY <2>1, <2>2, <4>1, LowestIsLeast
      <4> QED BY <2>1, <3>1, <4>2 DEF MinSup
    <3>2. CASE ~Full'
      BY <1>0, <3>2 DEF MinSup
    <3> QED BY <3>1, <3>2
  <2>4. \A e \in Episode : Wanted(e)' => Wanted(e)
    BY <1>0, <1>3, <2>3, ExtendsFacts DEF Wanted
  <2> QED BY <1>0, <1>3, <2>1, <2>3, <2>4
<1>4. CASE /\ Full /\ Support[ep] > MinSup /\ explore' = explore \cup {ep}
           /\ \E worst \in top_k : /\ Support[worst] = MinSup
                                   /\ top_k' = (top_k \ {worst}) \cup {ep}
  <2>1. PICK worst \in top_k : /\ Support[worst] = MinSup
                               /\ top_k' = (top_k \ {worst}) \cup {ep}
    BY <1>4
  <2>2. \A e \in top_k' : Support[e] >= MinSup /\ e \in Episode
    BY <1>0, <1>4, <2>1, ExtendsFacts
  <2>3. IsFiniteSet(top_k') /\ Cardinality(top_k') = K
    <3> DEFINE rest == top_k \ {worst}
    <3>1. IsFiniteSet(rest) /\ Cardinality(rest) = Cardinality(top_k) - 1
      BY <1>0, FS_RemoveElement
    <3>2. ep \notin rest
      BY <1>1
    <3> HIDE DEF rest
    <3>3. IsFiniteSet(rest \cup {ep}) /\ Cardinality(rest \cup {ep}) = Cardinality(rest) + 1
      BY <3>1, <3>2, FS_AddElement
    <3> QED BY <1>0, <1>4, <2>1, <3>1, <3>3 DEF Full, rest
  <2>4. Full' /\ MinSup' \in Nat /\ MinSup' >= MinSup
    <3>1. Lowest(top_k') \in Nat /\ \E e \in top_k' : Lowest(top_k') = Support[e]
      BY <2>1, <2>2, <2>3, LowestIsLeast
    <3> QED BY <2>2, <2>3, <3>1 DEF MinSup, Full
  <2>5. \A e \in Episode : Wanted(e)' => Wanted(e)
    BY <1>0, <1>4, <2>4, ExtendsFacts DEF Wanted
  <2>6. ~Wanted(worst)'
    BY <1>0, <2>1, <2>4, ExtendsFacts DEF Wanted
  <2>7. \A e \in top_k' : Support[e] >= Floor
    BY <1>0, <2>2, ExtendsFacts
  <2> QED BY <1>0, <1>4, <2>1, <2>4, <2>5, <2>6, <2>7
<1> QED BY <1>2, <1>3, <1>4 DEF TryAdd

(* What lies ahead of the caller, and what the queues and the workers hold. *)
Frontier == ExploreIsFresh /\ TopIsTried /\ SupportInv /\ NothingIsLost
Places == PlacesInv /\ Spread(todo) /\ Spread(processed) /\ TasksApart /\ HandsApart

(* The inductive invariant is made of the two.                             *)
LEMMA SearchParts == /\ SearchInv <=> Frontier /\ Places
                     /\ SearchInv' <=> Frontier' /\ Places'
BY DEF SearchInv, OnceInv, Frontier, Places

(* NoEpisode extends to nothing, and NoCommon does not depend on the order. *)
LEMMA ApartFacts ==
  /\ \A b : NoCommon(NoEpisode, b) /\ NoCommon(b, NoEpisode)
  /\ \A a, b : NoCommon(a, b) => NoCommon(b, a)
  /\ \A a, b : NoCommon(a, b) => \A f : ~(<<a, f>> \in Extends /\ <<b, f>> \in Extends)
<1>1. \A f : <<NoEpisode, f>> \notin Extends
  BY TopKMinerAssumption, SearchTreeAssumption
<1>2. \A a, f : <<a, f>> \in Extends => f \in Episode
  BY SearchTreeAssumption
<1> QED BY <1>1, <1>2 DEF NoCommon

(* The episode at the head of a queue is tried.                            *)
LEMMA TryAddKeeps ==
  ASSUME TypeInv, Frontier, NEW ep \in Episode, ep \in ToBeTried, TryAdd(ep),
         ToBeTried' \subseteq ToBeTried, ToBeTried \subseteq ToBeTried' \cup {ep},
         Apart({ep}, ToBeTried')
  PROVE  /\ ExploreIsFresh' /\ TopIsTried' /\ NothingIsLost'
         /\ \A a \in explore' : Wanted(a)' => a \in top_k'
         /\ \A e \in top_k' : Support[e] >= Floor
         /\ MinSup \in Nat /\ MinSup' \in Nat /\ MinSup <= MinSup'
<1>1. /\ MinSup' \in Nat /\ MinSup <= MinSup'
      /\ \A e \in top_k' : Support[e] >= Floor
      /\ explore \subseteq explore' /\ explore' \subseteq explore \cup {ep}
      /\ top_k' \subseteq top_k \cup {ep}
      /\ \A e \in Episode : Wanted(e)' => Wanted(e)
      /\ \A e \in top_k : Wanted(e)' => e \in top_k'
      /\ \A e \in Episode : Wanted(e)' /\ <<ep, e>> \in Extends => ep \in explore'
      /\ ep \in explore' => ep \in top_k' \/ ep \in explore
  BY TryAddGains DEF Frontier
<1>2. explore \subseteq Episode /\ top_k \subseteq Episode /\ MinSup \in Nat
  BY MinSupIsNat DEF TypeInv, TypeOK
<1>3. ExploreIsFresh'
  <2>1. /\ \A a, b \in explore : a # b => NoCommon(a, b)
        /\ \A a \in explore : NoCommon(a, ep) /\ NoCommon(ep, a)
    BY ApartFacts DEF Frontier, ExploreIsFresh, Apart
  <2>2. \A a, b \in explore' : a # b => NoCommon(a, b)
    BY <1>1, <2>1
  <2>3. \A a \in explore', b \in ToBeTried' : NoCommon(a, b)
    BY <1>1 DEF Frontier, ExploreIsFresh, Apart
  <2> QED BY <2>2, <2>3 DEF ExploreIsFresh, Apart, NoCommon
<1>4. TopIsTried'
  <2>1. ASSUME NEW f \in top_k', NEW a \in ToBeTried', <<a, f>> \in Extends PROVE FALSE
    <3>1. CASE f \in top_k
      BY <2>1, <3>1 DEF Frontier, TopIsTried
    <3>2. CASE f = ep
      <4>1. NoCommon(ep, a) /\ <<ep, ep>> \in Extends
        BY ExtendsFacts DEF Apart
      <4> QED BY <2>1, <3>2, <4>1, ApartFacts
    <3> QED BY <1>1, <3>1, <3>2
  <2>2. ASSUME NEW f \in top_k', NEW a \in explore', <<a, f>> \in Extends PROVE f = a
    <3>1. CASE f \in top_k
      BY <1>1, <2>2, <3>1 DEF Frontier, TopIsTried
    <3>2. CASE f = ep /\ a \in explore
      <4>1. NoCommon(a, ep) /\ <<ep, ep>> \in Extends
        BY <3>2, ExtendsFacts DEF Frontier, ExploreIsFresh, Apart
      <4> QED BY <2>2, <3>2, <4>1, ApartFacts
    <3> QED BY <1>1, <3>1, <3>2
  <2> QED BY <2>1, <2>2 DEF TopIsTried
<1>5. NothingIsLost'
  <2>1. ASSUME NEW e \in Episode, Wanted(e)' PROVE e \in top_k' \/ Ahead(e)'
    <3>1. e \in top_k \/ \E a \in explore \cup ToBeTried : <<a, e>> \in Extends
      BY <1>1, <2>1 DEF Frontier, NothingIsLost, Ahead
    <3>2. ASSUME NEW a \in explore \cup ToBeTried, <<a, e>> \in Extends
          PROVE  \E b \in explore' \cup ToBeTried' : <<b, e>> \in Extends
      BY <1>1, <2>1, <3>2
    <3>3. Ahead(e)' <=> \E b \in explore' \cup ToBeTried' : <<b, e>> \in Extends
      BY DEF Ahead
    <3> QED BY <1>1, <2>1, <3>1, <3>2, <3>3
  <2> QED BY <2>1 DEF NothingIsLost
<1>6. ASSUME NEW a \in explore', Wanted(a)' PROVE a \in top_k'
  BY <1>1, <1>2, <1>6 DEF Frontier, SupportInv
<1> QED BY <1>1, <1>2, <1>3, <1>4, <1>5, <1>6

(* What a task is made of leaves explore, and its extensions are new.      *)
LEMMA HandOutKeeps ==
  ASSUME TypeInv, Frontier, NEW parent \in explore, NEW minsup \in Nat, minsup <= MinSup,
         NEW ext \in Extensions(parent, minsup),
         UNCHANGED <<top_k, stored, current_minsup>>, explore' = explore \ {parent},
         ToBeTried' = ToBeTried \cup Elements(ext)
  PROVE  Frontier' /\ Apart(Elements(ext), ToBeTried)
<1>1. parent \in Episode /\ explore \subseteq Episode /\ top_k \subseteq Episode
  BY DEF TypeInv, TypeOK
<1>2. /\ \A x \in Elements(ext) : \A f \in Episode :
           <<x, f>> \in Extends => <<parent, f>> \in Extends /\ f # parent
      /\ \A f \in Episode : <<parent, f>> \in Extends /\ f # parent =>
           LeastSupport[f] < minsup \/ \E x \in Elements(ext) : <<x, f>> \in Extends
  BY <1>1, ExtensionsAreRight
<1>3. Full' = Full /\ MinSup' = MinSup /\ \A e \in Episode : Wanted(e)' <=> Wanted(e)
  BY DEF MinSup, Full, Wanted
<1>4. \A b : NoCommon(parent, b) => \A x \in Elements(ext) : NoCommon(x, b) /\ NoCommon(b, x)
  BY <1>2 DEF NoCommon
<1>5. Apart(Elements(ext), ToBeTried)
  BY <1>4 DEF Frontier, ExploreIsFresh, Apart
<1>6. ExploreIsFresh'
  <2>1. \A a, b \in explore' : a # b => NoCommon(a, b)
    BY DEF Frontier, ExploreIsFresh
  <2>2. \A a \in explore' : NoCommon(parent, a)
    BY DEF Frontier, ExploreIsFresh
  <2>3. \A a \in explore', b \in ToBeTried' : NoCommon(a, b)
    BY <1>4, <2>2 DEF Frontier, ExploreIsFresh, Apart
  <2> QED BY <2>1, <2>3 DEF ExploreIsFresh, Apart, NoCommon
<1>7. TopIsTried'
  <2>1. ASSUME NEW f \in top_k, NEW x \in Elements(ext), <<x, f>> \in Extends PROVE FALSE
    BY <1>1, <1>2, <2>1 DEF Frontier, TopIsTried
  <2> QED BY <2>1 DEF Frontier, TopIsTried
<1>8. SupportInv'
  BY <1>1, <1>3 DEF Frontier, SupportInv
<1>9. NothingIsLost'
  <2>1. ASSUME NEW e \in Episode, Wanted(e), e \notin top_k
        PROVE  \E b \in explore' \cup ToBeTried' : <<b, e>> \in Extends
    <3>1. PICK a \in explore \cup ToBeTried : <<a, e>> \in Extends
      BY <2>1 DEF Frontier, NothingIsLost, Ahead
    <3>2. CASE a = parent
      <4>1. e # parent
        BY <2>1 DEF Frontier, SupportInv
      <4>2. ~(LeastSupport[e] < minsup)
        BY <2>1, RareBlockIsUnwanted, ExtendsFacts, MinSupIsNat DEF Frontier
      <4> QED BY <1>2, <3>1, <3>2, <4>1, <4>2
    <3> QED BY <3>1, <3>2
  <2> QED BY <1>3, <2>1 DEF NothingIsLost, Ahead
<1> QED BY <1>5, <1>6, <1>7, <1>8, <1>9 DEF Frontier

(* When the best episode left is too rare, all of them are.                *)
LEMMA DropAllKeeps ==
  ASSUME TypeInv, Frontier, NEW item \in explore, Best(item),
         NEW minsup \in Nat, minsup <= MinSup, Stale(item, minsup),
         UNCHANGED <<top_k, stored, current_minsup>>, explore' = {}, ToBeTried' = ToBeTried
  PROVE  Frontier'
<1>1. explore \subseteq Episode /\ top_k \subseteq Episode
  BY DEF TypeInv, TypeOK
<1>2. MinSup' = MinSup /\ \A e \in Episode : Wanted(e)' <=> Wanted(e)
  BY DEF MinSup, Full, Wanted
<1>3. ASSUME NEW a \in explore, NEW e \in Episode, <<a, e>> \in Extends PROVE ~Wanted(e)
  <2>1. Support[a] <= Support[item] /\ Support[a] \in Nat /\ Support[item] \in Nat
    BY <1>1, ExtendsFacts DEF Best
  <2>2. Support[a] < MinSup \/ (Full /\ Support[a] <= MinSup)
    BY <2>1, MinSupIsNat DEF Stale
  <2> QED BY <1>1, <1>3, <2>2, RareIsUnwanted DEF Frontier
<1>4. ExploreIsFresh' /\ TopIsTried' /\ SupportInv'
  BY <1>1, <1>2 DEF Frontier, ExploreIsFresh, TopIsTried, SupportInv, Apart
<1>5. NothingIsLost'
  BY <1>2, <1>3 DEF Frontier, NothingIsLost, Ahead
<1> QED BY <1>4, <1>5 DEF Frontier

(* A worker moves what it holds, or drops what is too rare.                *)
LEMMA WorkerKeepsFrontier ==
  ASSUME TypeInv, Frontier, UNCHANGED caller,
         ToBeTried' \subseteq ToBeTried \cup {NoEpisode},
         \A a \in ToBeTried \cap Episode : a \in ToBeTried' \/ Support[a] < MinSup
  PROVE  Frontier'
<1>1. explore \subseteq Episode /\ top_k \subseteq Episode
  BY DEF TypeInv, TypeOK
<1>2. /\ top_k' = top_k /\ explore' = explore /\ stored' = stored
      /\ current_minsup' = current_minsup
  BY DEF caller
<1>3. MinSup' = MinSup /\ \A e \in Episode : Wanted(e)' <=> Wanted(e)
  BY <1>2 DEF MinSup, Full, Wanted
<1>4. ExploreIsFresh'
  <2>1. \A a \in explore, b \in ToBeTried' : NoCommon(a, b)
    BY ApartFacts DEF Frontier, ExploreIsFresh, Apart
  <2>2. \A a, b \in explore : a # b => NoCommon(a, b)
    BY DEF Frontier, ExploreIsFresh
  <2> QED BY <1>2, <2>1, <2>2 DEF ExploreIsFresh, Apart, NoCommon
<1>5. TopIsTried'
  <2>1. \A f : <<NoEpisode, f>> \notin Extends
    BY ExtendsFacts, TopKMinerAssumption
  <2> QED BY <1>2, <2>1 DEF Frontier, TopIsTried
<1>6. SupportInv'
  BY <1>1, <1>2, <1>3 DEF Frontier, SupportInv
<1>7. NothingIsLost'
  <2>1. ASSUME NEW e \in Episode, Wanted(e), e \notin top_k
        PROVE  \E b \in explore \cup ToBeTried' : <<b, e>> \in Extends
    <3>1. PICK a \in explore \cup ToBeTried : <<a, e>> \in Extends
      BY <2>1 DEF Frontier, NothingIsLost, Ahead
    <3>2. a \in Episode /\ (Support[a] < MinSup => ~Wanted(e))
      BY <3>1, ExtendsFacts, RareIsUnwanted DEF Frontier
    <3> QED BY <2>1, <3>1, <3>2
  <2> QED BY <1>2, <1>3, <2>1 DEF NothingIsLost, Ahead
<1> QED BY <1>4, <1>5, <1>6, <1>7 DEF Frontier

(* Where an episode to be tried can be.                                    *)
TriedPlaces ==
  \A x : x \in ToBeTried <=> \/ x \in Elements(todo) \/ x \in Elements(processed)
                             \/ \E i \in DOMAIN tasks : x \in Given(i)
                             \/ \E w \in Workers : x \in Hand(w)

(* ToBeTried is what the four places hold.                                 *)
LEMMA TriedAnywhere == TriedPlaces
<1> DEFINE Out == UNION {Given(i) : i \in DOMAIN tasks}
           Held == UNION {Hand(w) : w \in Workers}
<1>1. ToBeTried = Elements(todo) \cup Elements(processed) \cup Out \cup Held
  <2>1. Out = UNION {Elements(tasks[i].extensions) : i \in DOMAIN tasks}
    BY DEF Given
  <2>2. Held = UNION {Elements(worker[w].todo) \cup {worker[w].result} : w \in Workers}
    BY DEF Hand
  <2> HIDE DEF Out, Held
  <2> QED BY <2>1, <2>2, Zenon DEF ToBeTried
<1>2. \A x : x \in Out <=> \E i \in DOMAIN tasks : x \in Given(i)
  OBVIOUS
<1>3. \A x : x \in Held <=> \E w \in Workers : x \in Hand(w)
  OBVIOUS
<1> HIDE DEF Out, Held
<1> QED BY <1>1, <1>2, <1>3 DEF TriedPlaces

(* The same after a step.                                                  *)
LEMMA TriedAnywhereNext == TriedPlaces'
BY TriedAnywhere, PTL

(* Before the parallel search only the caller has episodes to try.         *)
LEMMA NobodyElseTries ==
  ASSUME MinerInv, Places, pc \in {"Mine", "Sequential"}
  PROVE  /\ Elements(processed) = {} /\ tasks = <<>> /\ DOMAIN tasks = {}
         /\ \A w \in Workers : worker[w].todo = <<>> /\ Hand(w) = {NoEpisode}
<1>1. tasks = <<>> /\ processed = <<>>
      /\ \A w \in Workers : worker[w].at \in {"Waiting", "Woken", "Exited"}
  BY DEF MinerInv, QueueInv, Quiet, Closing
<1>2. \A w \in Workers : worker[w].todo = <<>> /\ worker[w].result = NoEpisode
  BY <1>1 DEF Places, PlacesInv
<1>3. Elements(<<>>) = {} /\ DOMAIN <<>> = {}
  BY DEF Elements
<1> QED BY <1>1, <1>2, <1>3 DEF Hand

(* What the workers hold stays apart while none of it moves.               *)
LEMMA HandsStayApart ==
  ASSUME HandsApart, tasks' = tasks, Elements(processed') \subseteq Elements(processed),
         \A w \in Workers : /\ worker'[w].todo = worker[w].todo
                            /\ worker'[w].result = worker[w].result
  PROVE  HandsApart'
<1> SUFFICES ASSUME NEW w \in Workers
             PROVE  /\ Spread(worker[w].todo)' /\ Apart({worker[w].result}, Elements(worker[w].todo))'
                    /\ Apart(Elements(processed), Hand(w))'
                    /\ \A v \in Workers : w # v => Apart(Hand(w), Hand(v))'
                    /\ \A i \in DOMAIN tasks : Apart(Given(i), Hand(w))'
  BY DEF HandsApart
<1>1. Spread(worker[w].todo)' /\ Apart({worker[w].result}, Elements(worker[w].todo))'
  BY DEF HandsApart
<1>2. Apart(Elements(processed), Hand(w))'
  BY DEF HandsApart, Hand, Apart
<1>3. \A v \in Workers : w # v => Apart(Hand(w), Hand(v))'
  BY DEF HandsApart, Hand
<1>4. \A i \in DOMAIN tasks : Apart(Given(i), Hand(w))'
  BY DEF HandsApart, Hand, Given
<1> QED BY <1>1, <1>2, <1>3, <1>4

(* Mine and ExploreSequential try the next of todo.                        *)
LEMMA TodoIsTried ==
  ASSUME MinerInv, SearchInv, pc \in {"Mine", "Sequential"}, todo # <<>>,
         TryAdd(Head(todo)), todo' = Tail(todo),
         UNCHANGED <<current_minsup, stored, pc, got_any, shared>>
  PROVE  SearchInv'
<1> USE SearchParts
<1> DEFINE ep == Head(todo)
<1>1. /\ todo' \in Seq(Episode) /\ ep \in Episode
      /\ Elements(todo) = {ep} \cup Elements(todo')
      /\ Spread(todo') /\ Apart({ep}, Elements(todo'))
  BY ElementsOfTail DEF MinerInv, TypeInv, TypeOK, Places
<1>2. UNCHANGED <<tasks, processed, worker, stored, current_minsup, pc>>
  BY DEF shared
<1>3. /\ Elements(processed) = {} /\ DOMAIN tasks = {}
      /\ \A w \in Workers : Hand(w) = {NoEpisode}
  BY NobodyElseTries
<1>4. \A x : x \in ToBeTried' => x \in Elements(todo') \/ x = NoEpisode
  <2>1. \A w \in Workers : Hand(w)' = {NoEpisode}
    BY <1>2, <1>3 DEF Hand
  <2>2. Elements(processed') = {} /\ DOMAIN tasks' = {}
    BY <1>2, <1>3
  <2> QED BY <2>1, <2>2, TriedAnywhereNext DEF TriedPlaces
<1>5. /\ ep \in ToBeTried /\ ToBeTried' \subseteq ToBeTried
      /\ ToBeTried \subseteq ToBeTried' \cup {ep}
  BY <1>1, <1>2 DEF ToBeTried
<1>6. Apart({ep}, ToBeTried')
  BY <1>1, <1>4, ApartFacts DEF Apart
<1> HIDE DEF ep
<1>7. TryAdd(ep)
  BY DEF ep
<1>8. /\ ExploreIsFresh' /\ TopIsTried' /\ NothingIsLost'
      /\ \A a \in explore' : Wanted(a)' => a \in top_k'
      /\ \A e \in top_k' : Support[e] >= Floor
      /\ MinSup \in Nat /\ MinSup' \in Nat /\ MinSup <= MinSup'
  BY <1>1, <1>5, <1>6, <1>7, TryAddKeeps DEF MinerInv
<1>9. Frontier'
  <2>1. \A minsup \in stored : minsup \in Nat
    BY DEF MinerInv, TypeInv, TypeOK
  <2>2. \A minsup \in stored' : minsup <= MinSup'
    BY <1>2, <1>8, <2>1 DEF Frontier, SupportInv
  <2> QED BY <1>2, <1>8, <2>2 DEF Frontier, SupportInv
<1>10. Places'
  <2>1. PlacesInv' /\ Spread(todo)' /\ Spread(processed)'
    BY <1>1, <1>2 DEF Places, PlacesInv
  <2>2. TasksApart'
    BY <1>2 DEF Places, TasksApart, Given
  <2>3. HandsApart'
    BY <1>2, HandsStayApart DEF Places
  <2> QED BY <2>1, <2>2, <2>3 DEF Places
<1> QED BY <1>9, <1>10

(* Drain and LastDrain try the next of processed, and store what the       *)
(* minimal support has become.                                             *)
LEMMA ProcessedIsTried ==
  ASSUME MinerInv, SearchInv, processed # <<>>,
         TryAdd(Head(processed)), StoreMinSup, processed' = Tail(processed),
         UNCHANGED <<pc, todo, tasks, worker>>
  PROVE  SearchInv'
<1> USE SearchParts
<1> DEFINE ep == Head(processed)
<1>1. /\ processed' \in Seq(Episode) /\ ep \in Episode
      /\ Elements(processed) = {ep} \cup Elements(processed')
      /\ Spread(processed') /\ Apart({ep}, Elements(processed'))
  BY ElementsOfTail DEF MinerInv, TypeInv, TypeOK, Places
<1>2. Elements(todo) = {}
  <2>1. pc \notin {"Mine", "Sequential"}
    BY DEF MinerInv, QueueInv, Closing
  <2> QED BY <2>1 DEF Places, PlacesInv, Elements
<1>3. /\ ep \in ToBeTried /\ ToBeTried' \subseteq ToBeTried
      /\ ToBeTried \subseteq ToBeTried' \cup {ep}
  BY <1>1 DEF ToBeTried
<1>4. Apart({ep}, ToBeTried')
  <2>1. ASSUME NEW x \in ToBeTried' PROVE NoCommon(ep, x)
    <3>1. \/ x \in Elements(processed')
          \/ \E i \in DOMAIN tasks : x \in Given(i)
          \/ \E w \in Workers : x \in Hand(w)
      BY <1>2, <2>1, TriedAnywhereNext DEF TriedPlaces, Given, Hand
    <3>2. ep \in Elements(processed)
      BY <1>1
    <3>3. /\ \A i \in DOMAIN tasks : Apart(Elements(processed), Given(i))
          /\ \A w \in Workers : Apart(Elements(processed), Hand(w))
      BY DEF Places, TasksApart, HandsApart
    <3> QED BY <1>1, <3>1, <3>2, <3>3 DEF Apart
  <2> QED BY <2>1 DEF Apart
<1> HIDE DEF ep
<1>5. TryAdd(ep)
  BY DEF ep
<1>6. /\ ExploreIsFresh' /\ TopIsTried' /\ NothingIsLost'
      /\ \A a \in explore' : Wanted(a)' => a \in top_k'
      /\ \A e \in top_k' : Support[e] >= Floor
      /\ MinSup \in Nat /\ MinSup' \in Nat /\ MinSup <= MinSup'
  BY <1>1, <1>3, <1>4, <1>5, TryAddKeeps DEF MinerInv
<1>7. Frontier'
  <2>1. \A minsup \in stored : minsup \in Nat /\ minsup <= MinSup'
    BY <1>6 DEF MinerInv, TypeInv, TypeOK, Frontier, SupportInv
  <2>2. current_minsup' = MinSup' \/ current_minsup' = current_minsup
    BY DEF StoreMinSup, MinSup, Full
  <2>3. current_minsup' <= MinSup'
    BY <1>6, <2>1, <2>2 DEF Frontier, SupportInv
  <2>4. stored' = stored \cup {current_minsup'}
    BY DEF StoreMinSup
  <2> QED BY <1>6, <2>1, <2>3, <2>4 DEF Frontier, SupportInv
<1>8. Places'
  <2>1. Elements(processed') \subseteq Elements(processed)
    BY <1>1
  <2>2. PlacesInv' /\ Spread(todo')
    BY DEF Places, PlacesInv
  <2>3. \A B : Apart(Elements(processed), B) => Apart(Elements(processed'), B)
    BY <2>1 DEF Apart
  <2>4. TasksApart'
    BY <2>3 DEF Places, TasksApart, Given
  <2>5. HandsApart'
    BY <2>1, HandsStayApart DEF Places
  <2> QED BY <1>1, <2>2, <2>4, <2>5 DEF Places
<1> QED BY <1>7, <1>8

(* A step that moves no episode.                                           *)
LEMMA NothingMoves ==
  ASSUME MinerInv, SearchInv, UNCHANGED <<top_k, explore, todo, tasks, processed>>,
         stored' = stored /\ current_minsup' = current_minsup,
         \A w \in Workers : /\ worker'[w].todo = worker[w].todo
                            /\ worker'[w].result = worker[w].result
                            /\ worker'[w].parent = worker[w].parent,
         PlacesInv'
  PROVE  SearchInv'
<1>1. ToBeTried' = ToBeTried
  BY DEF ToBeTried
<1>2. Frontier'
  <2>1. \A e : Wanted(e)' <=> Wanted(e)
    BY DEF Wanted, MinSup, Full
  <2>2. ExploreIsFresh' /\ TopIsTried'
    BY <1>1, SearchParts DEF Frontier, ExploreIsFresh, TopIsTried
  <2>3. SupportInv'
    BY <2>1, SearchParts DEF Frontier, SupportInv, MinSup, Full
  <2>4. NothingIsLost'
    BY <1>1, <2>1, SearchParts DEF Frontier, NothingIsLost, Ahead
  <2> QED BY <2>2, <2>3, <2>4 DEF Frontier
<1>3. Places'
  <2>1. TasksApart'
    BY SearchParts DEF Places, TasksApart, Given
  <2>2. HandsApart'
    BY SearchParts, HandsStayApart DEF Places
  <2> QED BY <2>1, <2>2, SearchParts DEF Places
<1> QED BY <1>2, <1>3, SearchParts

(* The caller hands out the best episode, or drops what is too rare.       *)
LEMMA CallerKeepsSearch == MinerInv /\ SearchInv /\ CallerStep => SearchInv'
<1> SUFFICES ASSUME MinerInv, SearchInv, CallerStep PROVE SearchInv'
  OBVIOUS
<1> USE SearchParts
<1>0. /\ TypeInv /\ explore \subseteq Episode /\ MinSup \in Nat /\ current_minsup \in Nat
      /\ current_minsup <= MinSup
      /\ todo \in Seq(Episode) /\ tasks \in Seq(Task) /\ processed \in Seq(Episode)
  BY MinSupIsNat DEF MinerInv, TypeInv, TypeOK, Frontier, SupportInv
<1>1. CASE Seed \/ AddChild
  BY <1>1, TodoIsTried DEF Seed, AddChild
<1>2. CASE Explore
  <2>1. Frontier'
    <3>1. UNCHANGED <<top_k, explore>> /\ ToBeTried' = ToBeTried
      BY <1>2 DEF Explore, shared, ToBeTried
    <3>2. MinSup' = MinSup /\ \A e : Wanted(e)' <=> Wanted(e)
      BY <3>1 DEF Wanted, MinSup, Full
    <3>3. ExploreIsFresh' /\ TopIsTried' /\ NothingIsLost'
      BY <3>1, <3>2 DEF Frontier, ExploreIsFresh, TopIsTried, NothingIsLost, Ahead
    <3>4. SupportInv'
      BY <1>0, <1>2, <3>1, <3>2 DEF Explore, Frontier, SupportInv
    <3> QED BY <3>3, <3>4 DEF Frontier
  <2>2. Places'
    <3>1. UNCHANGED <<tasks, processed, worker, todo>> /\ todo = <<>>
      BY <1>2 DEF Explore, shared
    <3>2. HandsApart'
      BY <3>1, HandsStayApart DEF Places
    <3>3. PlacesInv' /\ Spread(todo)' /\ Spread(processed)' /\ TasksApart'
      BY <3>1 DEF Places, PlacesInv, TasksApart, Given
    <3> QED BY <3>2, <3>3 DEF Places
  <2> QED BY <2>1, <2>2
<1>3. CASE TakeItem
  <2>0. pc = "Sequential" /\ todo = <<>> /\ UNCHANGED <<top_k, current_minsup, stored, pc, shared>>
    BY <1>3 DEF TakeItem
  <2>1. PICK item \in explore :
          /\ Best(item)
          /\ IF Stale(item, MinSup)
               THEN explore' = {} /\ UNCHANGED todo
               ELSE explore' = explore \ {item} /\ todo' \in Extensions(item, MinSup)
    BY <1>3 DEF TakeItem
  <2>2. CASE Stale(item, MinSup)
    <3>1. ToBeTried' = ToBeTried
      BY <2>0, <2>1, <2>2 DEF ToBeTried, shared
    <3>2. Frontier'
      BY <1>0, <2>0, <2>1, <2>2, <3>1, DropAllKeeps
    <3>3. Places'
      <4>1. HandsApart'
        BY <2>0, HandsStayApart DEF Places, shared
      <4>2. PlacesInv' /\ Spread(todo)' /\ Spread(processed)' /\ TasksApart'
        BY <2>0, <2>1, <2>2 DEF Places, PlacesInv, TasksApart, Given, shared
      <4> QED BY <4>1, <4>2 DEF Places
    <3> QED BY <3>2, <3>3
  <2>3. CASE ~Stale(item, MinSup)
    <3>1. ToBeTried' = ToBeTried \cup Elements(todo')
      <4>1. Elements(todo) = {}
        BY <2>0 DEF Elements
      <4> QED BY <2>0, <4>1 DEF ToBeTried, shared
    <3>2. Frontier'
      BY <1>0, <2>0, <2>1, <2>3, <3>1, HandOutKeeps
    <3>3. Spread(todo')
      BY <1>0, <2>1, <2>3, ExtensionsAreRight
    <3>4. Places'
      <4>1. HandsApart'
        BY <2>0, HandsStayApart DEF Places, shared
      <4>2. PlacesInv' /\ Spread(processed)' /\ TasksApart'
        BY <2>0 DEF Places, PlacesInv, TasksApart, Given, shared
      <4> QED BY <3>3, <4>1, <4>2 DEF Places
    <3> QED BY <3>2, <3>4
  <2> QED BY <2>2, <2>3
<1>4. CASE Drain \/ LastDrain
  BY <1>4, ProcessedIsTried DEF Drain, LastDrain
<1>5. CASE \/ SequentialEnd \/ DrainEnd \/ Count \/ Signal \/ DispatchEnd \/ Check
           \/ LastEnd \/ Stop \/ ReleaseAll \/ Join
  <2>1. /\ UNCHANGED <<top_k, explore, todo, tasks, processed, stored, current_minsup, worker>>
        /\ pc' \notin {"Mine", "Sequential"} /\ todo = <<>>
    BY <1>5 DEF SequentialEnd, DrainEnd, Count, Signal, DispatchEnd, Check, LastEnd,
                Stop, ReleaseAll, Join, caller, shared, Places, PlacesInv
  <2>2. PlacesInv'
    BY <2>1 DEF Places, PlacesInv
  <2> QED BY <2>1, <2>2, NothingMoves
<1>6. CASE Dispatch
  <2>0. /\ pc = "Dispatch"
        /\ UNCHANGED <<top_k, current_minsup, stored, todo, processed, worker>>
        /\ \E parent \in explore : \E ext \in Extensions(parent, current_minsup) :
             /\ Best(parent)
             /\ \/ /\ Stale(parent, current_minsup)
                   /\ explore' = {} /\ pc' = "Check" /\ UNCHANGED tasks
                \/ /\ ext = <<>>
                   /\ explore' = explore \ {parent} /\ UNCHANGED <<pc, tasks>>
                \/ pc' = "Check" /\ UNCHANGED <<explore, tasks>>
                \/ /\ explore' = explore \ {parent} /\ pc' = "Count"
                   /\ tasks' = Append(tasks, [parent |-> parent, extensions |-> ext])
    BY <1>6 DEF Dispatch
  <2>1. PICK parent \in explore : \E ext \in Extensions(parent, current_minsup) :
             /\ Best(parent)
             /\ \/ /\ Stale(parent, current_minsup)
                   /\ explore' = {} /\ pc' = "Check" /\ UNCHANGED tasks
                \/ /\ ext = <<>>
                   /\ explore' = explore \ {parent} /\ UNCHANGED <<pc, tasks>>
                \/ pc' = "Check" /\ UNCHANGED <<explore, tasks>>
                \/ /\ explore' = explore \ {parent} /\ pc' = "Count"
                   /\ tasks' = Append(tasks, [parent |-> parent, extensions |-> ext])
    BY <2>0
  <2>2. PICK ext \in Extensions(parent, current_minsup) :
             /\ Best(parent)
             /\ \/ /\ Stale(parent, current_minsup)
                   /\ explore' = {} /\ pc' = "Check" /\ UNCHANGED tasks
                \/ /\ ext = <<>>
                   /\ explore' = explore \ {parent} /\ UNCHANGED <<pc, tasks>>
                \/ pc' = "Check" /\ UNCHANGED <<explore, tasks>>
                \/ /\ explore' = explore \ {parent} /\ pc' = "Count"
                   /\ tasks' = Append(tasks, [parent |-> parent, extensions |-> ext])
    BY <2>1
  <2>3. todo = <<>> /\ pc' \notin {"Mine", "Sequential"}
    BY <2>0, <2>2 DEF Places, PlacesInv
  <2>4. ASSUME UNCHANGED tasks PROVE Places' /\ ToBeTried' = ToBeTried
    <3>1. HandsApart'
      BY <2>0, <2>4, HandsStayApart DEF Places
    <3>2. PlacesInv' /\ Spread(todo)' /\ Spread(processed)' /\ TasksApart'
      BY <2>0, <2>3, <2>4 DEF Places, PlacesInv, TasksApart, Given
    <3> QED BY <2>0, <2>4, <3>1, <3>2 DEF Places, ToBeTried
  <2>5. CASE /\ Stale(parent, current_minsup) /\ explore' = {} /\ UNCHANGED tasks
    <3>1. Frontier'
      BY <1>0, <2>0, <2>2, <2>4, <2>5, DropAllKeeps
    <3> QED BY <2>4, <2>5, <3>1
  <2>6. CASE ext = <<>> /\ explore' = explore \ {parent} /\ UNCHANGED tasks
    <3>1. ToBeTried' = ToBeTried \cup Elements(ext)
      BY <2>4, <2>6 DEF Elements
    <3>2. Frontier'
      BY <1>0, <2>0, <2>2, <2>6, <3>1, HandOutKeeps
    <3> QED BY <2>4, <2>6, <3>2
  <2>7. CASE UNCHANGED <<explore, tasks>>
    <3>1. PlacesInv'
      BY <2>4, <2>7 DEF Places
    <3> QED BY <2>0, <2>7, <3>1, NothingMoves
  <2>8. CASE /\ explore' = explore \ {parent}
             /\ tasks' = Append(tasks, [parent |-> parent, extensions |-> ext])
    <3>0. PICK n : n = Len(tasks) + 1
      OBVIOUS
    <3>1. parent \in Episode /\ ext \in Seq(Episode)
      BY <1>0, ExtensionsAreRight
    <3>2. /\ Spread(ext) /\ \A x \in Elements(ext) : <<parent, x>> \in Extends
      BY <1>0, <3>1, ExtensionsAreRight
    <3>3. /\ DOMAIN tasks' = DOMAIN tasks \cup {n} /\ n \notin DOMAIN tasks
          /\ tasks'[n].extensions = ext /\ tasks'[n].parent = parent
          /\ \A i \in DOMAIN tasks : tasks'[i] = tasks[i]
      <4> DEFINE task == [parent |-> parent, extensions |-> ext]
      <4>1. task \in Task /\ task.extensions = ext /\ task.parent = parent
        BY <3>1 DEF Task
      <4> HIDE DEF task
      <4>2. tasks' = Append(tasks, task)
        BY <2>8 DEF task
      <4>3. /\ DOMAIN Append(tasks, task) = 1 .. Len(tasks) + 1 /\ DOMAIN tasks = 1 .. Len(tasks)
            /\ Len(tasks) \in Nat /\ Append(tasks, task)[Len(tasks) + 1] = task
            /\ \A i \in 1 .. Len(tasks) : Append(tasks, task)[i] = tasks[i]
        BY <1>0, <4>1, AppendProperties, LenProperties
      <4> QED BY <3>0, <4>1, <4>2, <4>3
    <3>4. /\ \A i \in DOMAIN tasks : Given(i)' = Given(i)
          /\ Given(n)' = Elements(ext) /\ \A w \in Workers : Hand(w)' = Hand(w)
      BY <2>0, <3>3 DEF Given, Hand
    <3>5. ToBeTried' = ToBeTried \cup Elements(ext)
      <4>1. \A x : x \in ToBeTried' <=> x \in ToBeTried \/ x \in Elements(ext)
        BY <2>0, <3>3, <3>4, TriedAnywhere, TriedAnywhereNext DEF TriedPlaces
      <4> QED BY <4>1
    <3>6. Frontier' /\ Apart(Elements(ext), ToBeTried)
      BY <1>0, <2>0, <2>8, <3>5, HandOutKeeps
    <3>7. /\ Apart(Elements(processed), Elements(ext))
          /\ \A i \in DOMAIN tasks : Apart(Given(i), Elements(ext)) /\ Apart(Elements(ext), Given(i))
          /\ \A w \in Workers : Apart(Elements(ext), Hand(w))
      <4>1. ASSUME NEW B, B \subseteq ToBeTried
            PROVE  Apart(Elements(ext), B) /\ Apart(B, Elements(ext))
        BY <3>6, <4>1, ApartFacts DEF Apart
      <4>2. /\ Elements(processed) \subseteq ToBeTried
            /\ \A i \in DOMAIN tasks : Given(i) \subseteq ToBeTried
            /\ \A w \in Workers : Hand(w) \subseteq ToBeTried
        BY TriedAnywhere DEF TriedPlaces
      <4> QED BY <4>1, <4>2
    <3>8. PlacesInv'
      BY <2>0, <2>3, <3>2, <3>3 DEF Places, PlacesInv
    <3>9. TasksApart'
      <4>1. ASSUME NEW i \in DOMAIN tasks'
            PROVE  Spread(tasks[i].extensions)' /\ Apart(Elements(processed), Given(i))'
        BY <2>0, <3>2, <3>3, <3>4, <3>7 DEF Places, TasksApart
      <4>2. ASSUME NEW i \in DOMAIN tasks', NEW j \in DOMAIN tasks', i # j
            PROVE  Apart(Given(i), Given(j))'
        BY <3>3, <3>4, <3>7, <4>2 DEF Places, TasksApart
      <4> QED BY <4>1, <4>2 DEF TasksApart
    <3>10. HandsApart'
      <4>1. ASSUME NEW w \in Workers
            PROVE  /\ Spread(worker[w].todo)'
                   /\ Apart({worker[w].result}, Elements(worker[w].todo))'
                   /\ Apart(Elements(processed), Hand(w))'
                   /\ \A v \in Workers : w # v => Apart(Hand(w), Hand(v))'
        BY <2>0, <3>4 DEF Places, HandsApart
      <4>2. ASSUME NEW w \in Workers, NEW i \in DOMAIN tasks' PROVE Apart(Given(i), Hand(w))'
        BY <3>3, <3>4, <3>7 DEF Places, HandsApart
      <4> QED BY <4>1, <4>2 DEF HandsApart
    <3>11. Places'
      BY <2>0, <3>8, <3>9, <3>10 DEF Places
    <3> QED BY <3>6, <3>11
  <2> QED BY <2>2, <2>5, <2>6, <2>7, <2>8
<1> QED BY <1>1, <1>2, <1>3, <1>4, <1>5, <1>6 DEF CallerStep

(* A worker drops episodes or moves one from its list to its hand.         *)
LEMMA HandShrinks ==
  ASSUME Places, NEW w \in Workers, UNCHANGED <<caller, tasks, processed>>,
         \A v \in Workers \ {w} : worker'[v] = worker[v],
         Hand(w)' \subseteq Hand(w) \cup {NoEpisode},
         Spread(worker'[w].todo), Apart({worker'[w].result}, Elements(worker'[w].todo))
  PROVE  /\ Spread(todo)' /\ Spread(processed)' /\ TasksApart' /\ HandsApart'
         /\ ToBeTried' \subseteq ToBeTried \cup {NoEpisode}
         /\ \A a \in ToBeTried : a \in ToBeTried' \/ a \in Hand(w)
<1>1. todo' = todo
  BY DEF caller
<1>2. /\ \A v \in Workers \ {w} : Hand(v)' = Hand(v)
      /\ \A i \in DOMAIN tasks : Given(i)' = Given(i)
  BY DEF Hand, Given
<1>3. TasksApart'
  BY DEF Places, TasksApart, Given
<1>4. ASSUME NEW B, Apart(B, Hand(w)) PROVE Apart(B, Hand(w)') /\ Apart(Hand(w)', B)
  BY <1>4, ApartFacts DEF Apart
<1>5. HandsApart'
  <2>1. ASSUME NEW v \in Workers
        PROVE  /\ Spread(worker[v].todo)' /\ Apart({worker[v].result}, Elements(worker[v].todo))'
               /\ Apart(Elements(processed), Hand(v))'
    <3>1. CASE v = w
      BY <1>4, <3>1 DEF Places, HandsApart
    <3>2. CASE v # w
      BY <1>2, <3>2 DEF Places, HandsApart
    <3> QED BY <3>1, <3>2
  <2>2. ASSUME NEW v \in Workers, NEW u \in Workers, v # u PROVE Apart(Hand(v), Hand(u))'
    <3>1. CASE v = w
      <4>1. Apart(Hand(u), Hand(w)) /\ Hand(u)' = Hand(u)
        BY <1>2, <2>2, <3>1 DEF Places, HandsApart
      <4> QED BY <1>4, <3>1, <4>1
    <3>2. CASE u = w
      <4>1. Apart(Hand(v), Hand(w)) /\ Hand(v)' = Hand(v)
        BY <1>2, <2>2, <3>2 DEF Places, HandsApart
      <4> QED BY <1>4, <3>2, <4>1
    <3>3. CASE v # w /\ u # w
      <4>1. Apart(Hand(v), Hand(u)) /\ Hand(v)' = Hand(v) /\ Hand(u)' = Hand(u)
        BY <1>2, <2>2, <3>3 DEF Places, HandsApart
      <4> QED BY <4>1
    <3> QED BY <3>1, <3>2, <3>3
  <2>3. ASSUME NEW v \in Workers, NEW i \in DOMAIN tasks PROVE Apart(Given(i), Hand(v))'
    <3>1. Apart(Given(i), Hand(v)) /\ Given(i)' = Given(i)
      BY <1>2 DEF Places, HandsApart
    <3>2. CASE v = w
      BY <1>4, <3>1, <3>2
    <3>3. CASE v # w
      BY <1>2, <3>1, <3>3
    <3> QED BY <3>2, <3>3
  <2> QED BY <2>1, <2>2, <2>3 DEF HandsApart
<1>6. /\ ToBeTried' \subseteq ToBeTried \cup {NoEpisode}
      /\ \A a \in ToBeTried : a \in ToBeTried' \/ a \in Hand(w)
  <2>1. \A x \in ToBeTried' : x \in ToBeTried \cup {NoEpisode}
    BY <1>1, <1>2, TriedAnywhere, TriedAnywhereNext DEF TriedPlaces
  <2>2. \A a \in ToBeTried : a \in ToBeTried' \/ a \in Hand(w)
    BY <1>1, <1>2, TriedAnywhere, TriedAnywhereNext DEF TriedPlaces
  <2> QED BY <2>1, <2>2
<1> QED BY <1>1, <1>3, <1>5, <1>6 DEF Places

(* A worker takes a task, drops what is too rare, and pushes the rest.     *)
LEMMA WorkerKeepsSearch ==
  ASSUME MinerInv, SearchInv, NEW w \in Workers, WorkerStep(w)
  PROVE  SearchInv'
<1> USE SearchParts
<1>0. /\ UNCHANGED caller /\ TypeInv /\ MinSup \in Nat
      /\ worker \in [Workers -> WorkerState] /\ worker[w] \in WorkerState
      /\ tasks \in Seq(Task) /\ processed \in Seq(Episode) /\ worker[w].todo \in Seq(Episode)
      /\ UNCHANGED pc
  BY MinSupIsNat
     DEF WorkerStep, Acquire, ReadFlag, PopTask, CheckParent, ExtendParent, Push, Finish,
         MinerInv, TypeInv, TypeOK, WorkerState
<1>1. \A v \in Workers \ {w} : worker'[v] = worker[v]
  BY <1>0 DEF WorkerStep, Acquire, ReadFlag, PopTask, CheckParent, ExtendParent, Push, Finish
<1>2. /\ \A minsup \in stored : minsup \in Nat /\ minsup <= MinSup
      /\ UNCHANGED <<top_k, explore, todo, stored, current_minsup>>
  BY <1>0 DEF MinerInv, TypeInv, TypeOK, Frontier, SupportInv, caller
<1>3. ASSUME /\ worker'[w].at \notin {"Popped", "Extending", "Pushing"} => worker'[w].todo = <<>>
             /\ worker'[w].at # "Pushing" => worker'[w].result = NoEpisode
             /\ \A x \in Elements(worker'[w].todo) : <<worker'[w].parent, x>> \in Extends,
             \A i \in DOMAIN tasks' :
               \A x \in Elements(tasks'[i].extensions) : <<tasks'[i].parent, x>> \in Extends
      PROVE  PlacesInv'
  <2>1. ASSUME NEW v \in Workers
        PROVE  /\ worker'[v].at \notin {"Popped", "Extending", "Pushing"} => worker'[v].todo = <<>>
               /\ worker'[v].at # "Pushing" => worker'[v].result = NoEpisode
               /\ \A x \in Elements(worker'[v].todo) : <<worker'[v].parent, x>> \in Extends
    BY <1>1, <1>3 DEF Places, PlacesInv
  <2>2. pc' \notin {"Mine", "Sequential"} => todo' = <<>>
    BY <1>0, <1>2 DEF Places, PlacesInv
  <2> QED BY <1>3, <2>1, <2>2 DEF PlacesInv
<1>4. CASE Acquire(w) \/ ReadFlag(w)
  <2>1. /\ UNCHANGED <<tasks, processed>> /\ worker[w].todo = <<>> /\ worker[w].result = NoEpisode
        /\ worker'[w].at \notin {"Popped", "Extending", "Pushing"}
        /\ worker'[w].todo = worker[w].todo /\ worker'[w].result = worker[w].result
        /\ worker'[w].parent = worker[w].parent
    BY <1>0, <1>4 DEF Acquire, ReadFlag, WorkerState, Places, PlacesInv
  <2>2. PlacesInv'
    BY <1>3, <2>1 DEF Places, PlacesInv
  <2> QED BY <1>1, <1>2, <2>1, <2>2, NothingMoves
<1>5. CASE CheckParent(w)
  <2>1. PICK minsup \in stored :
          worker' = [worker EXCEPT ![w].at = "Extending",
                       ![w].todo = IF Support[worker[w].parent] >= minsup THEN @ ELSE <<>>]
    BY <1>5 DEF CheckParent
  <2>2. /\ UNCHANGED <<tasks, processed>> /\ worker[w].result = NoEpisode
        /\ worker'[w].at = "Extending" /\ worker'[w].result = NoEpisode
        /\ worker'[w].parent = worker[w].parent
        /\ \/ worker'[w].todo = worker[w].todo
           \/ worker'[w].todo = <<>> /\ ~(Support[worker[w].parent] >= minsup)
    BY <1>0, <1>5, <2>1 DEF CheckParent, WorkerState, Places, PlacesInv
  <2>3. /\ Elements(worker'[w].todo) \subseteq Elements(worker[w].todo)
        /\ Spread(worker'[w].todo) /\ Apart({worker'[w].result}, Elements(worker'[w].todo))
    <3>1. Spread(worker[w].todo)
      BY DEF Places, HandsApart
    <3>2. Elements(<<>>) = {} /\ Spread(<<>>)
      BY DEF Elements, Spread
    <3> QED BY <2>2, <3>1, <3>2, ApartFacts DEF Apart
  <2>4. PlacesInv'
    BY <1>3, <2>2, <2>3 DEF Places, PlacesInv
  <2>5. Hand(w)' \subseteq Hand(w) \cup {NoEpisode}
    BY <2>2, <2>3 DEF Hand
  <2>6. /\ Spread(todo)' /\ Spread(processed)' /\ TasksApart' /\ HandsApart'
        /\ ToBeTried' \subseteq ToBeTried \cup {NoEpisode}
        /\ \A a \in ToBeTried : a \in ToBeTried' \/ a \in Hand(w)
    BY <1>0, <1>1, <2>2, <2>3, <2>5, HandShrinks
  <2>7. ASSUME NEW a \in ToBeTried \cap Episode PROVE a \in ToBeTried' \/ Support[a] < MinSup
    <3>1. CASE a \in Hand(w) /\ worker'[w].todo = worker[w].todo
      <4>1. a \in Hand(w)'
        BY <2>2, <3>1 DEF Hand
      <4> QED BY <4>1, TriedAnywhereNext DEF TriedPlaces
    <3>2. CASE a \in Hand(w) /\ ~(Support[worker[w].parent] >= minsup)
      <4>1. a \in Elements(worker[w].todo)
        BY <2>2, <3>2, TopKMinerAssumption DEF Hand
      <4>2. <<worker[w].parent, a>> \in Extends
        BY <4>1 DEF Places, PlacesInv
      <4>3. /\ Support[a] <= Support[worker[w].parent] /\ Support[a] \in Nat
            /\ Support[worker[w].parent] \in Nat
        BY <4>2, ExtendsFacts
      <4>4. minsup \in Nat /\ minsup <= MinSup
        BY <1>2
      <4> QED BY <1>0, <3>2, <4>3, <4>4
    <3> QED BY <2>2, <2>6, <3>1, <3>2
  <2>8. Frontier'
    BY <1>0, <2>6, <2>7, WorkerKeepsFrontier
  <2> QED BY <2>4, <2>6, <2>8 DEF Places
<1>6. CASE ExtendParent(w)
  <2> DEFINE child == Head(worker[w].todo)
  <2>1. PICK minsup \in stored :
          IF Support[child] >= minsup
            THEN worker' = [worker EXCEPT ![w].at = "Pushing", ![w].result = child,
                                          ![w].todo = Tail(@)]
            ELSE worker' = [worker EXCEPT ![w].todo = Tail(@)]
    BY <1>6 DEF ExtendParent
  <2>2. /\ UNCHANGED <<tasks, processed>> /\ worker[w].result = NoEpisode
        /\ worker[w].at = "Extending" /\ worker[w].todo # <<>>
    BY <1>6 DEF ExtendParent, Places, PlacesInv
  <2>3. /\ child \in Episode /\ Elements(worker[w].todo) = {child} \cup Elements(Tail(worker[w].todo))
        /\ Spread(Tail(worker[w].todo)) /\ Apart({child}, Elements(Tail(worker[w].todo)))
    BY <1>0, <2>2, ElementsOfTail DEF Places, HandsApart
  <2> HIDE DEF child
  <2>4. /\ worker'[w].todo = Tail(worker[w].todo) /\ worker'[w].parent = worker[w].parent
        /\ \/ worker'[w].result = child /\ worker'[w].at = "Pushing"
           \/ /\ worker'[w].result = NoEpisode /\ worker'[w].at = "Extending"
              /\ ~(Support[child] >= minsup)
    BY <1>0, <2>1, <2>2 DEF WorkerState
  <2>5. Spread(worker'[w].todo) /\ Apart({worker'[w].result}, Elements(worker'[w].todo))
    BY <2>3, <2>4, ApartFacts DEF Apart
  <2>6. PlacesInv'
    BY <1>3, <2>2, <2>3, <2>4 DEF Places, PlacesInv
  <2>7. Hand(w)' \subseteq Hand(w) \cup {NoEpisode}
    BY <2>3, <2>4 DEF Hand
  <2>8. /\ Spread(todo)' /\ Spread(processed)' /\ TasksApart' /\ HandsApart'
        /\ ToBeTried' \subseteq ToBeTried \cup {NoEpisode}
        /\ \A a \in ToBeTried : a \in ToBeTried' \/ a \in Hand(w)
    BY <1>0, <1>1, <2>2, <2>5, <2>7, HandShrinks
  <2>9. ASSUME NEW a \in ToBeTried \cap Episode PROVE a \in ToBeTried' \/ Support[a] < MinSup
    <3>1. CASE a \in Hand(w)'
      BY <3>1, TriedAnywhereNext DEF TriedPlaces
    <3>2. CASE a \in Hand(w) /\ a \notin Hand(w)'
      <4>1. a = child /\ ~(Support[child] >= minsup)
        BY <2>2, <2>3, <2>4, <3>2, TopKMinerAssumption DEF Hand
      <4>2. minsup \in Nat /\ minsup <= MinSup /\ Support[a] \in Nat
        BY <1>2, ExtendsFacts
      <4> QED BY <1>0, <4>1, <4>2
    <3> QED BY <2>8, <3>1, <3>2
  <2>10. Frontier'
    BY <1>0, <2>8, <2>9, WorkerKeepsFrontier
  <2> QED BY <2>6, <2>8, <2>10 DEF Places
<1>7. CASE Finish(w)
  <2>1. /\ UNCHANGED <<tasks, processed>> /\ worker'[w] = Idle
        /\ worker[w].todo = <<>> /\ worker[w].result = NoEpisode
    BY <1>0, <1>7 DEF Finish, Places, PlacesInv
  <2>2. /\ Idle.at = "Waiting" /\ Idle.todo = <<>> /\ Idle.result = NoEpisode
        /\ Elements(<<>>) = {} /\ Spread(<<>>)
    BY DEF Idle, Elements, Spread
  <2>3. PlacesInv'
    BY <1>3, <2>1, <2>2 DEF Places, PlacesInv
  <2>4. Hand(w)' = {NoEpisode} /\ Hand(w) = {NoEpisode}
    BY <2>1, <2>2 DEF Hand
  <2>5. Spread(worker'[w].todo) /\ Apart({worker'[w].result}, Elements(worker'[w].todo))
    BY <2>1, <2>2 DEF Apart
  <2>6. /\ Spread(todo)' /\ Spread(processed)' /\ TasksApart' /\ HandsApart'
        /\ ToBeTried' \subseteq ToBeTried \cup {NoEpisode}
        /\ \A a \in ToBeTried : a \in ToBeTried' \/ a \in Hand(w)
    BY <1>0, <1>1, <2>1, <2>4, <2>5, HandShrinks
  <2>7. \A a \in ToBeTried \cap Episode : a \in ToBeTried'
    BY <2>4, <2>6, TopKMinerAssumption
  <2>8. Frontier'
    BY <1>0, <2>6, <2>7, WorkerKeepsFrontier
  <2> QED BY <2>3, <2>6, <2>8 DEF Places
<1>8. CASE Push(w)
  <2> DEFINE x == worker[w].result
  <2>1. x \in Episode /\ x \in Hand(w) /\ UNCHANGED tasks /\ processed' = Append(processed, x)
    BY <1>8 DEF Push, MinerInv, TypeInv, Hand
  <2>2. /\ worker'[w].at = "Extending" /\ worker'[w].result = NoEpisode
        /\ worker'[w].todo = worker[w].todo /\ worker'[w].parent = worker[w].parent
    BY <1>0, <1>8 DEF Push, WorkerState
  <2> HIDE DEF x
  <2>3. PlacesInv'
    BY <1>3, <2>1, <2>2 DEF Places, PlacesInv
  <2>4. /\ Elements(processed') = Elements(processed) \cup {x}
        /\ Spread(processed) /\ Apart({x}, Elements(processed)) => Spread(processed')
    BY <1>0, <2>1, ElementsOfAppend, ZenonT(30)
  <2>5. /\ \A v \in Workers \ {w} : Hand(v)' = Hand(v)
        /\ \A i \in DOMAIN tasks : Given(i)' = Given(i)
        /\ Hand(w) = Elements(worker[w].todo) \cup {x}
        /\ Hand(w)' = Elements(worker[w].todo) \cup {NoEpisode}
    BY <1>1, <2>1, <2>2 DEF Hand, Given, x
  <2>6. ASSUME NEW B, Apart(B, Hand(w)) PROVE Apart({x}, B) /\ Apart(B, Hand(w)') /\ Apart(Hand(w)', B)
    BY <2>1, <2>5, <2>6, ApartFacts DEF Apart
  <2>7. /\ Apart(Elements(processed), Hand(w)) /\ Spread(processed) /\ Spread(worker[w].todo)
        /\ Apart({x}, Elements(worker[w].todo))
    BY DEF Places, HandsApart, x
  <2>8. Spread(processed')
    BY <2>4, <2>6, <2>7
  <2>9. TasksApart'
    <3>1. ASSUME NEW i \in DOMAIN tasks PROVE Apart(Elements(processed'), Given(i))
      <4>1. Apart(Elements(processed), Given(i)) /\ Apart({x}, Given(i))
        BY <2>6 DEF Places, TasksApart, HandsApart
      <4> QED BY <2>4, <4>1 DEF Apart
    <3>2. \A i \in DOMAIN tasks : Spread(tasks[i].extensions)
                                /\ \A j \in DOMAIN tasks : i # j => Apart(Given(i), Given(j))
      BY DEF Places, TasksApart
    <3> QED BY <2>1, <2>5, <3>1, <3>2 DEF TasksApart
  <2>10. HandsApart'
    <3>1. ASSUME NEW v \in Workers
          PROVE  /\ Spread(worker[v].todo)' /\ Apart({worker[v].result}, Elements(worker[v].todo))'
                 /\ Apart(Elements(processed), Hand(v))'
      <4>1. CASE v = w
        <5>1. Apart(Elements(processed), Hand(w)')
          BY <2>6, <2>7
        <5>2. Apart({x}, Hand(w)')
          BY <2>5, <2>7, ApartFacts DEF Apart
        <5>3. Apart(Elements(processed'), Hand(w)')
          BY <2>4, <5>1, <5>2 DEF Apart
        <5>4. Apart({NoEpisode}, Elements(worker[w].todo))
          BY ApartFacts DEF Apart
        <5> QED BY <2>2, <2>7, <4>1, <5>3, <5>4
      <4>2. CASE v # w
        <5>1. Apart(Elements(processed), Hand(v)) /\ Apart({x}, Hand(v))
          BY <2>6, <4>2 DEF Places, HandsApart
        <5>2. Apart(Elements(processed'), Hand(v))
          BY <2>4, <5>1 DEF Apart
        <5> QED BY <1>1, <2>5, <4>2, <5>2 DEF Places, HandsApart
      <4> QED BY <4>1, <4>2
    <3>2. ASSUME NEW v \in Workers, NEW u \in Workers, v # u PROVE Apart(Hand(v), Hand(u))'
      <4>1. CASE v = w
        <5>1. Apart(Hand(u), Hand(w)) /\ Hand(u)' = Hand(u)
          BY <2>5, <3>2, <4>1 DEF Places, HandsApart
        <5> QED BY <2>6, <4>1, <5>1
      <4>2. CASE u = w
        <5>1. Apart(Hand(v), Hand(w)) /\ Hand(v)' = Hand(v)
          BY <2>5, <3>2, <4>2 DEF Places, HandsApart
        <5> QED BY <2>6, <4>2, <5>1
      <4>3. CASE v # w /\ u # w
        <5>1. Apart(Hand(v), Hand(u)) /\ Hand(v)' = Hand(v) /\ Hand(u)' = Hand(u)
          BY <2>5, <3>2, <4>3 DEF Places, HandsApart
        <5> QED BY <5>1
      <4> QED BY <4>1, <4>2, <4>3
    <3>3. ASSUME NEW v \in Workers, NEW i \in DOMAIN tasks PROVE Apart(Given(i), Hand(v))'
      <4>1. Apart(Given(i), Hand(v)) /\ Given(i)' = Given(i)
        BY <2>5 DEF Places, HandsApart
      <4>2. CASE v = w
        BY <2>6, <4>1, <4>2
      <4>3. CASE v # w
        BY <2>5, <4>1, <4>3
      <4> QED BY <4>2, <4>3
    <3> QED BY <2>1, <3>1, <3>2, <3>3 DEF HandsApart
  <2>11. \A a : a \in ToBeTried' <=> a \in ToBeTried \/ a = NoEpisode
    <3>1. ASSUME NEW a PROVE a \in ToBeTried' => a \in ToBeTried \cup {NoEpisode}
      BY <1>2, <2>1, <2>4, <2>5, TriedAnywhere, TriedAnywhereNext DEF TriedPlaces
    <3>2. ASSUME NEW a PROVE a \in ToBeTried \cup {NoEpisode} => a \in ToBeTried'
      BY <1>2, <2>1, <2>4, <2>5, TriedAnywhere, TriedAnywhereNext DEF TriedPlaces
    <3> QED BY <3>1, <3>2
  <2>12. Frontier'
    BY <1>0, <2>11, WorkerKeepsFrontier
  <2>13. Spread(todo)'
    BY <1>2 DEF Places
  <2> QED BY <2>3, <2>8, <2>9, <2>10, <2>12, <2>13 DEF Places
<1>9. CASE PopTask(w)
  <2>1. /\ UNCHANGED processed /\ tasks # <<>> /\ tasks' = Tail(tasks)
        /\ worker[w].result = NoEpisode /\ worker[w].todo = <<>>
    BY <1>9 DEF PopTask, Places, PlacesInv
  <2>2. /\ worker'[w].at = "Popped" /\ worker'[w].result = NoEpisode
        /\ worker'[w].todo = Head(tasks).extensions /\ worker'[w].parent = Head(tasks).parent
    BY <1>0, <1>9, <2>1 DEF PopTask, WorkerState
  <2>3. /\ Head(tasks) = tasks[1] /\ 1 \in DOMAIN tasks
        /\ \A i \in DOMAIN tasks' : /\ i + 1 \in DOMAIN tasks /\ i + 1 # 1
                                   /\ tasks'[i] = tasks[i + 1]
        /\ \A i \in DOMAIN tasks : i = 1 \/ (i - 1 \in DOMAIN tasks' /\ tasks'[i - 1] = tasks[i])
        /\ \A i, j \in DOMAIN tasks' : i # j => i + 1 # j + 1
    <3>1. /\ tasks' \in Seq(Task) /\ Len(tasks') = Len(tasks) - 1 /\ Len(tasks) \in Nat \ {0}
          /\ \A i \in 1 .. Len(tasks') : tasks'[i] = tasks[i + 1]
      BY <1>0, <2>1, HeadTailProperties, LenProperties, EmptySeq
    <3>2. DOMAIN tasks' = 1 .. Len(tasks) - 1 /\ DOMAIN tasks = 1 .. Len(tasks)
      BY <1>0, <3>1, LenProperties
    <3>3. Head(tasks) = tasks[1]
      BY <1>0, <2>1
    <3> QED BY <3>1, <3>2, <3>3
  <2>4. /\ \A v \in Workers \ {w} : Hand(v)' = Hand(v)
        /\ \A i \in DOMAIN tasks' : Given(i)' = Given(i + 1)
        /\ \A i \in DOMAIN tasks : i = 1 \/ Given(i) = Given(i - 1)'
        /\ Hand(w)' = Given(1) \cup {NoEpisode} /\ Hand(w) = {NoEpisode}
    <3>1. Elements(<<>>) = {}
      BY DEF Elements
    <3> QED BY <1>1, <2>1, <2>2, <2>3, <3>1 DEF Hand, Given
  <2>5. PlacesInv'
    BY <1>3, <2>2, <2>3 DEF Places, PlacesInv
  <2>6. TasksApart'
    <3>1. ASSUME NEW i \in DOMAIN tasks'
          PROVE  Spread(tasks'[i].extensions) /\ Apart(Elements(processed), Given(i)')
      BY <2>3, <2>4 DEF Places, TasksApart
    <3>2. ASSUME NEW i \in DOMAIN tasks', NEW j \in DOMAIN tasks', i # j
          PROVE  Apart(Given(i)', Given(j)')
      BY <2>3, <2>4, <3>2 DEF Places, TasksApart
    <3> QED BY <2>1, <3>1, <3>2 DEF TasksApart
  <2>7. ASSUME NEW B, Apart(B, Given(1)) PROVE Apart(B, Hand(w)') /\ Apart(Hand(w)', B)
    BY <2>4, <2>7, ApartFacts DEF Apart
  <2>8. HandsApart'
    <3>1. ASSUME NEW v \in Workers
          PROVE  /\ Spread(worker'[v].todo) /\ Apart({worker'[v].result}, Elements(worker'[v].todo))
                 /\ Apart(Elements(processed), Hand(v)')
      <4>1. CASE v = w
        <5>1. Spread(tasks[1].extensions) /\ Apart(Elements(processed), Given(1))
          BY <2>3 DEF Places, TasksApart
        <5>2. Apart({NoEpisode}, Elements(worker'[w].todo))
          BY ApartFacts DEF Apart
        <5> QED BY <2>2, <2>3, <2>7, <4>1, <5>1, <5>2
      <4>2. CASE v # w
        BY <1>1, <2>4, <4>2 DEF Places, HandsApart
      <4> QED BY <4>1, <4>2
    <3>2. ASSUME NEW v \in Workers, NEW u \in Workers, v # u PROVE Apart(Hand(v)', Hand(u)')
      <4>1. CASE v = w
        <5>1. Apart(Given(1), Hand(u)) /\ Hand(u)' = Hand(u)
          BY <2>3, <2>4, <3>2, <4>1 DEF Places, HandsApart
        <5>2. Apart(Hand(u), Given(1))
          BY <5>1, ApartFacts DEF Apart
        <5> QED BY <2>7, <4>1, <5>1, <5>2
      <4>2. CASE u = w
        <5>1. Apart(Given(1), Hand(v)) /\ Hand(v)' = Hand(v)
          BY <2>3, <2>4, <3>2, <4>2 DEF Places, HandsApart
        <5>2. Apart(Hand(v), Given(1))
          BY <5>1, ApartFacts DEF Apart
        <5> QED BY <2>7, <4>2, <5>1, <5>2
      <4>3. CASE v # w /\ u # w
        <5>1. Apart(Hand(v), Hand(u)) /\ Hand(v)' = Hand(v) /\ Hand(u)' = Hand(u)
          BY <2>4, <3>2, <4>3 DEF Places, HandsApart
        <5> QED BY <5>1
      <4> QED BY <4>1, <4>2, <4>3
    <3>3. ASSUME NEW v \in Workers, NEW i \in DOMAIN tasks' PROVE Apart(Given(i)', Hand(v)')
      <4>1. Given(i)' = Given(i + 1) /\ i + 1 \in DOMAIN tasks /\ i + 1 # 1
        BY <2>3, <2>4
      <4>2. CASE v = w
        <5>1. Apart(Given(i + 1), Given(1))
          BY <2>3, <4>1 DEF Places, TasksApart
        <5> QED BY <2>7, <4>1, <4>2, <5>1
      <4>3. CASE v # w
        BY <2>4, <4>1, <4>3 DEF Places, HandsApart
      <4> QED BY <4>2, <4>3
    <3> QED BY <2>1, <3>1, <3>2, <3>3 DEF HandsApart
  <2>9. /\ \A a : a \in ToBeTried' => a \in ToBeTried \cup {NoEpisode}
        /\ \A a : a \in ToBeTried => a \in ToBeTried'
    <3>1. ASSUME NEW a PROVE a \in ToBeTried' => a \in ToBeTried \cup {NoEpisode}
      BY <1>2, <2>1, <2>3, <2>4, TriedAnywhere, TriedAnywhereNext DEF TriedPlaces
    <3>2. ASSUME NEW a PROVE a \in ToBeTried => a \in ToBeTried'
      BY <1>2, <2>1, <2>3, <2>4, TriedAnywhere, TriedAnywhereNext DEF TriedPlaces
    <3> QED BY <3>1, <3>2
  <2>10. Frontier'
    BY <1>0, <2>9, WorkerKeepsFrontier
  <2>11. Spread(todo)' /\ Spread(processed)'
    BY <1>2, <2>1 DEF Places
  <2> QED BY <2>5, <2>6, <2>8, <2>10, <2>11 DEF Places
<1> QED BY <1>4, <1>5, <1>6, <1>7, <1>8, <1>9 DEF WorkerStep

(* The seeds are still to be tried, and every episode extends one.         *)
LEMMA InitEstablishesSearch == TopKMinerInit => SearchInv
<1> SUFFICES ASSUME TopKMinerInit PROVE SearchInv
  OBVIOUS
<1>1. /\ top_k = {} /\ explore = {} /\ todo = Seeds /\ pc = "Mine" /\ stored = {Floor}
      /\ current_minsup = Floor /\ tasks = <<>> /\ processed = <<>> /\ DOMAIN tasks = {}
      /\ \A w \in Workers : worker[w] = Idle
  BY DEF TopKMinerInit
<1>2. Idle.todo = <<>> /\ Idle.result = NoEpisode /\ Idle.at = "Waiting"
  BY DEF Idle
<1>3. Elements(<<>>) = {} /\ Spread(<<>>)
  BY DEF Elements, Spread
<1>4. MinSup = Floor /\ Floor \in Nat /\ ~Full
  BY <1>1, FS_EmptySet, TopKMinerAssumption DEF MinSup, Full
<1>5. PlacesInv
  BY <1>1, <1>2, <1>3 DEF PlacesInv
<1>6. \A w \in Workers : Hand(w) = {NoEpisode}
  BY <1>1, <1>2, <1>3 DEF Hand
<1>7. TasksApart /\ HandsApart
  BY <1>1, <1>2, <1>3, <1>6, ApartFacts DEF TasksApart, HandsApart, Apart
<1>8. Places
  BY <1>1, <1>3, <1>5, <1>7, SearchTreeAssumption DEF Places
<1>9. ExploreIsFresh /\ TopIsTried /\ SupportInv
  BY <1>1, <1>4 DEF ExploreIsFresh, TopIsTried, SupportInv, Apart
<1>10. NothingIsLost
  <2>1. ASSUME NEW e \in Episode PROVE \E a \in ToBeTried : <<a, e>> \in Extends
    <3>1. PICK i \in DOMAIN Seeds : <<Seeds[i], e>> \in Extends
      BY SearchTreeAssumption
    <3>2. Seeds[i] \in Elements(todo)
      BY <1>1 DEF Elements
    <3> QED BY <3>1, <3>2, TriedAnywhere DEF TriedPlaces
  <2> QED BY <2>1 DEF NothingIsLost, Ahead
<1> QED BY <1>8, <1>9, <1>10, SearchParts DEF Frontier

(* SearchInv is inductive, given MinerInv.                                 *)
LEMMA StepKeepsSearch == MinerInv /\ SearchInv /\ [Next]_vars => SearchInv'
<1> SUFFICES ASSUME MinerInv, SearchInv, [Next]_vars PROVE SearchInv'
  OBVIOUS
<1>1. CASE CallerStep
  BY <1>1, CallerKeepsSearch
<1>2. ASSUME NEW w \in Workers, WorkerStep(w) PROVE SearchInv'
  BY <1>2, WorkerKeepsSearch
<1>3. CASE UNCHANGED vars
  <2>1. UNCHANGED <<top_k, explore, todo, tasks, processed, stored, current_minsup, pc, worker>>
    BY <1>3 DEF vars, caller
  <2>2. PlacesInv'
    BY <2>1, SearchParts DEF Places, PlacesInv
  <2> QED BY <2>1, <2>2, NothingMoves
<1> QED BY <1>1, <1>2, <1>3 DEF Next, Returned

(* The inductive invariant of the search holds always.                     *)
THEOREM SearchInvariant == TopKMinerSpec => []SearchInv
BY InitEstablishesSearch, StepKeepsSearch, MinerInvariant, PTL DEF TopKMinerSpec

(* When Mine returns nothing is to be tried any more.                      *)
LEMMA NothingIsAheadAtTheEnd ==
  ASSUME MinerInv, SearchInv, pc = "Done", NEW e \in Episode
  PROVE  ~Ahead(e)
<1>1. /\ todo = <<>> /\ tasks = <<>> /\ processed = <<>> /\ explore = {}
      /\ \A w \in Workers : worker[w].todo = <<>> /\ worker[w].result = NoEpisode
  <2>1. \A w \in Workers : worker[w].at \in {"Waiting", "Woken", "Exited"}
    BY DEF MinerInv, QueueInv, Quiet
  <2> QED BY <2>1, SearchParts DEF MinerInv, QueueInv, Quiet, Closing, Places, PlacesInv
<1>2. Elements(<<>>) = {} /\ DOMAIN <<>> = {}
  BY DEF Elements
<1>3. \A w \in Workers : Hand(w) = {NoEpisode}
  BY <1>1, <1>2 DEF Hand
<1>4. \A a \in ToBeTried : a = NoEpisode
  BY <1>1, <1>2, <1>3, TriedAnywhere DEF TriedPlaces
<1> QED BY <1>1, <1>4, ApartFacts, ExtendsFacts, TopKMinerAssumption DEF Ahead

(* Whatever old minimal supports the workers read, no episode the answer   *)
(* needs is dropped.                                                       *)
THEOREM NothingIsEverLost == TopKMinerSpec => []NothingIsLost
<1>1. SearchInv => NothingIsLost
  BY DEF SearchInv
<1> QED BY <1>1, SearchInvariant, PTL

(* Mine returns the K most frequent episodes, or all there are.            *)
THEOREM TopKIsAlwaysRight == TopKMinerSpec => []TopKIsRight
<1>1. MinerInv /\ SearchInv => TopKIsRight
  <2> SUFFICES ASSUME MinerInv, SearchInv, pc = "Done"
               PROVE  /\ Cardinality(top_k) < K => top_k = {e \in Episode : Support[e] >= Floor}
                      /\ \A e \in top_k, f \in Episode \ top_k :
                           Support[f] >= Floor => LeastSupport[f] <= Support[e]
    BY DEF TopKIsRight
  <2>1. \A e \in Episode : Wanted(e) => e \in top_k
    BY NothingIsAheadAtTheEnd DEF SearchInv, NothingIsLost
  <2>2. /\ top_k \subseteq Episode /\ Cardinality(top_k) \in Nat /\ K \in Nat
        /\ \A e \in top_k : Support[e] >= Floor
    BY FS_CardinalityType, TopKMinerAssumption DEF MinerInv, TypeInv, TypeOK, SearchInv, SupportInv
  <2>3. Cardinality(top_k) < K => top_k = {e \in Episode : Support[e] >= Floor}
    BY <2>1, <2>2 DEF Wanted, Full
  <2>4. ASSUME NEW e \in top_k, NEW f \in Episode \ top_k, Support[f] >= Floor
        PROVE  LeastSupport[f] <= Support[e]
    <3>1. ~Wanted(f)
      BY <2>1
    <3>2. Full /\ ~(LeastSupport[f] > MinSup)
      BY <2>4, <3>1 DEF Wanted
    <3>3. MinSup \in Nat /\ MinSup <= Support[e]
      BY <2>2, <3>2, MinSupIsLeast DEF MinerInv
    <3> QED BY <2>2, <3>2, <3>3, ExtendsFacts
  <2> QED BY <2>3, <2>4
<1> QED BY <1>1, MinerInvariant, SearchInvariant, PTL

(* When Mine returns its answer is right, and nothing is left of the       *)
(* search that another thread would still touch.                           *)
THEOREM MineIsAlwaysRight == TopKMinerSpec => []MineIsRight
<1>1. TopKIsRight /\ NothingIsLeft => MineIsRight
  BY DEF MineIsRight
<1> QED BY <1>1, TopKIsAlwaysRight, NothingIsEverLeft, PTL

(* The episodes a search chooses from.                                     *)
Choice == {e \in Episode : Support[e] >= Floor}

(* What Tke takes for the answer of a miner is what a miner answers,       *)
(* whatever its search tree, its threads and its queues: so the theorem    *)
(* about Tke below holds of a TKE that runs the miners.                    *)
THEOREM MinersAnswer ==
  IsFiniteSet(Choice) /\ TopKMinerSpec
    => [](pc = "Done" => top_k \in Answers(Choice, K, Support, LeastSupport))
<1> SUFFICES ASSUME IsFiniteSet(Choice)
             PROVE  TopKMinerSpec => [](pc = "Done" => top_k \in Answers(Choice, K, Support, LeastSupport))
  OBVIOUS
<1>1. MinerInv /\ SearchInv /\ TopKIsRight
        => (pc = "Done" => top_k \in Answers(Choice, K, Support, LeastSupport))
  <2> SUFFICES ASSUME MinerInv, SearchInv, TopKIsRight, pc = "Done"
               PROVE  top_k \in Answers(Choice, K, Support, LeastSupport)
    OBVIOUS
  <2>1. top_k \subseteq Choice /\ IsFiniteSet(top_k) /\ K \in Nat
        /\ Cardinality(top_k) \in Nat /\ Cardinality(top_k) <= K
    BY FS_CardinalityType, TopKMinerAssumption
    DEF MinerInv, TypeInv, TypeOK, SearchInv, SupportInv, Choice
  <2>2. Cardinality(Choice) \in Nat /\ Cardinality(top_k) <= Cardinality(Choice)
        /\ (Cardinality(top_k) = Cardinality(Choice) => top_k = Choice)
    BY <2>1, FS_Subset, FS_CardinalityType
  <2>3. Cardinality(top_k) < K => top_k = Choice
    BY DEF TopKIsRight, Choice
  <2>4. CASE Cardinality(Choice) <= K
    <3>1. top_k = Choice
      BY <2>1, <2>2, <2>3, <2>4
    <3> QED BY <2>4, <3>1 DEF Answers
  <2>5. CASE ~(Cardinality(Choice) <= K)
    <3>1. Cardinality(top_k) = K
      BY <2>1, <2>2, <2>3, <2>5
    <3>2. \A e \in top_k, f \in Choice \ top_k : LeastSupport[f] <= Support[e]
      BY DEF TopKIsRight, Choice
    <3>3. top_k \in kSubset(K, Choice)
      BY <2>1, <3>1 DEF kSubset
    <3> QED BY <2>5, <3>2, <3>3 DEF Answers
  <2> QED BY <2>4, <2>5
<1> QED BY <1>1, MinerInvariant, SearchInvariant, TopKIsAlwaysRight, PTL
-----------------------------------------------------------------------------
(* Induction over the numbers, for what holds as a set of numbers.         *)
LEMMA CountingUp ==
  ASSUME NEW P, 0 \in P, \A n \in Nat : n \in P => n + 1 \in P
  PROVE  \A n \in Nat : n \in P
<1> SUFFICES ASSUME NEW m \in Nat, m \notin P PROVE FALSE
  OBVIOUS
<1> DEFINE R == OpToRel(LAMBDA x, y : x < y, Nat)
           T == {n \in Nat : n \notin P}
<1>1. T \subseteq Nat /\ T # {}
  OBVIOUS
<1>2. IsWellFoundedOn(R, Nat)
  BY NatLessThanWellFounded, Zenon
<1>3. PICK x \in T : \A y \in T : ~(<<y, x>> \in R)
  <2> HIDE DEF R, T
  <2> QED BY <1>1, <1>2, WFMin
<1>4. x # 0 /\ x - 1 \in Nat
  OBVIOUS
<1>5. x - 1 \in T
  BY <1>4
<1>6. <<x - 1, x>> \in R
  BY <1>4 DEF OpToRel
<1> QED BY <1>3, <1>5, <1>6

(* Induction over a rank.                                                  *)
LEMMA ByRank ==
  ASSUME NEW D, NEW rank, \A d \in D : rank[d] \in Nat, NEW P,
         \A d \in D : (\A e \in D : rank[e] < rank[d] => e \in P) => d \in P
  PROVE  \A d \in D : d \in P
<1> DEFINE Q == {n \in Nat : \A d \in D : rank[d] < n => d \in P}
<1>1. 0 \in Q
  OBVIOUS
<1>2. ASSUME NEW n \in Nat, n \in Q PROVE n + 1 \in Q
  <2> SUFFICES ASSUME NEW d \in D, rank[d] < n + 1 PROVE d \in P
    OBVIOUS
  <2>1. \A e \in D : rank[e] < rank[d] => e \in P
    BY <1>2
  <2> QED BY <2>1
<1>3. \A n \in Nat : n \in Q
  <2> HIDE DEF Q
  <2> QED BY <1>1, <1>2, CountingUp
<1> SUFFICES ASSUME NEW d \in D PROVE d \in P
  OBVIOUS
<1>4. rank[d] + 1 \in Q
  BY <1>3
<1> QED BY <1>4

(* Induction over the subsets of a finite set.                             *)
LEMMA BySubsets ==
  ASSUME NEW S, IsFiniteSet(S), NEW P,
         \A T \in SUBSET S : (\A x \in T : T \ {x} \in P) => T \in P
  PROVE  \A T \in SUBSET S : T \in P
<1> DEFINE D == SUBSET S
           rank == [T \in D |-> Cardinality(T)]
<1>1. \A T \in D : IsFiniteSet(T) /\ rank[T] \in Nat
  BY FS_Subset, FS_CardinalityType
<1>2. ASSUME NEW T \in D, \A U \in D : rank[U] < rank[T] => U \in P PROVE T \in P
  <2>1. ASSUME NEW x \in T PROVE T \ {x} \in P
    <3>1. T \ {x} \in D /\ Cardinality(T \ {x}) = Cardinality(T) - 1
      BY <1>1, FS_RemoveElement
    <3>2. Cardinality(T) \in Nat
      BY <1>1
    <3>3. rank[T \ {x}] < rank[T]
      BY <3>1, <3>2
    <3> HIDE DEF rank
    <3> QED BY <1>2, <3>1, <3>3
  <2> HIDE DEF rank
  <2> QED BY <1>2, <2>1
<1> HIDE DEF D, rank
<1>3. \A T \in D : T \in P
  BY <1>1, <1>2, ByRank
<1> QED BY <1>3 DEF D

(* A recursive definition over a finite set that goes down in rank defines *)
(* something.                                                              *)
GoesDown(D, Y, stop, start, next, step, rank) ==
  /\ \A d \in D : rank[d] \in Nat
  /\ \A d \in D : d \in stop => start[d] \in Y
  /\ \A d \in D : d \notin stop => /\ next[d] \in D /\ rank[next[d]] < rank[d]
                                   /\ \A y \in Y : step[<<d, y>>] \in Y

Solves(F, D, stop, start, next, step) ==
  \A d \in D : F[d] = IF d \in stop THEN start[d] ELSE step[<<d, F[next[d]]>>]

(* A function with such a recursive definition exists.                     *)
LEMMA RecursionWorks ==
  ASSUME NEW D, IsFiniteSet(D), NEW Y, NEW stop, NEW start, NEW next, NEW step, NEW rank,
         GoesDown(D, Y, stop, start, next, step, rank)
  PROVE  \E F \in [D -> Y] : Solves(F, D, stop, start, next, step)
<1>0. /\ \A d \in D : rank[d] \in Nat
      /\ \A d \in D : d \in stop => start[d] \in Y
      /\ \A d \in D : d \notin stop => /\ next[d] \in D /\ rank[next[d]] < rank[d]
                                       /\ \A y \in Y : step[<<d, y>>] \in Y
  BY DEF GoesDown
<1> DEFINE Right(C, F) ==
             /\ \A d \in C : d \notin stop => next[d] \in C
             /\ \A d \in C : F[d] = IF d \in stop THEN start[d] ELSE step[<<d, F[next[d]]>>]
           Open == {U \in SUBSET D : \E F \in [D \ U -> Y] : Right(D \ U, F)}
<1>1. D \in Open
  <2>1. [d \in D \ D |-> 0] \in [D \ D -> Y]
    OBVIOUS
  <2>2. Right(D \ D, [d \in D \ D |-> 0])
    OBVIOUS
  <2> QED BY <2>1, <2>2
<1>2. PICK U \in Open : \A V \in Open : ~(V \subseteq U /\ V # U)
  <2>1. IsWellFoundedOn(StrictSubsetOrdering(D), FiniteSubsetsOf(D))
    BY FS_StrictSubsetOrderingWellFounded
  <2>2. Open \subseteq FiniteSubsetsOf(D) /\ \A V \in Open : V \in SUBSET D
    BY FS_FiniteSubsetsOfFinite
  <2> HIDE DEF Open
  <2>3. PICK U \in Open : \A V \in Open : ~(<<V, U>> \in StrictSubsetOrdering(D))
    BY <1>1, <2>1, <2>2, WFMin
  <2> QED BY <2>2, <2>3 DEF StrictSubsetOrdering
<1>3. PICK F \in [D \ U -> Y] : Right(D \ U, F)
  BY <1>2
<1>4. CASE U = {}
  BY <1>3, <1>4 DEF Solves
<1>5. CASE U # {}
  <2>0. U \subseteq D
    BY <1>2
  <2>1. PICK d \in U : \A e \in U : ~(rank[e] < rank[d])
    <3> DEFINE N == {rank[e] : e \in U}
               R == OpToRel(LAMBDA x, y : x < y, Nat)
    <3>1. N \subseteq Nat /\ N # {}
      BY <1>0, <1>5, <2>0
    <3>2. IsWellFoundedOn(R, Nat)
      BY NatLessThanWellFounded, Zenon
    <3>3. PICK n \in N : \A m \in N : ~(<<m, n>> \in R)
      <4> HIDE DEF N, R
      <4> QED BY <3>1, <3>2, WFMin
    <3>4. \A m \in N : ~(m < n)
      BY <3>1, <3>3 DEF OpToRel
    <3> QED BY <3>4
  <2> DEFINE value == IF d \in stop THEN start[d] ELSE step[<<d, F[next[d]]>>]
             V == U \ {d}
             G == [e \in D \ V |-> IF e = d THEN value ELSE F[e]]
  <2>2. d \notin stop => next[d] \in D \ U /\ next[d] # d
    BY <1>0, <2>0, <2>1
  <2>3. value \in Y
    BY <1>0, <1>3, <2>0, <2>2
  <2>4. D \ V = (D \ U) \cup {d} /\ d \notin D \ U
    BY <2>0
  <2>5. G \in [D \ V -> Y]
    <3> HIDE DEF value
    <3> QED BY <1>3, <2>3, <2>4
  <2>6. ASSUME NEW e \in D \ V PROVE /\ e \notin stop => next[e] \in D \ V
                                    /\ G[e] = IF e \in stop THEN start[e] ELSE step[<<e, G[next[e]]>>]
    <3>1. CASE e = d
      <4>1. d \notin stop => G[next[d]] = F[next[d]]
        BY <2>2, <2>4
      <4>2. G[d] = value
        BY <2>4
      <4> QED BY <2>2, <2>4, <3>1, <4>1, <4>2
    <3>2. CASE e # d
      <4>1. e \in D \ U
        BY <2>4, <3>2
      <4>2. e \notin stop => next[e] \in D \ U
        BY <1>3, <4>1
      <4>3. e \notin stop => G[next[e]] = F[next[e]]
        BY <2>4, <4>2
      <4>4. G[e] = F[e]
        BY <3>2
      <4>5. F[e] = IF e \in stop THEN start[e] ELSE step[<<e, F[next[e]]>>]
        BY <1>3, <4>1
      <4> QED BY <2>4, <4>2, <4>3, <4>4, <4>5
    <3> QED BY <3>1, <3>2
  <2>7. V \in Open
    <3> HIDE DEF V, G
    <3>1. Right(D \ V, G)
      BY <2>6
    <3>2. V \in SUBSET D
      BY <2>0 DEF V
    <3> QED BY <2>5, <3>1, <3>2
  <2> QED BY <1>2, <2>7
<1> QED BY <1>4, <1>5
-----------------------------------------------------------------------------
(* The least member of a set of numbers.                                   *)
LEMMA MinIsLeast ==
  ASSUME NEW S, S \subseteq Nat, S # {}
  PROVE  Min(S) \in S /\ \A n \in S : Min(S) <= n
<1>1. PICK m \in S : \A n \in S : ~ (<<n, m>> \in OpToRel(<, Nat))
  BY NatLessThanWellFounded, WFMin
<1>2. ASSUME NEW n \in S PROVE m <= n
  <2>1. ~ (<<n, m>> \in {ss \in Nat \X Nat : ss[1] < ss[2]})
    BY <1>1 DEF OpToRel
  <2> QED BY <2>1
<1> QED BY <1>2 DEF Min
(* A sequence that goes through a set of numbers from the least.           *)
IsAscending(q, S) ==
  /\ q \in [1 .. Cardinality(S) -> S]
  /\ \A i, j \in 1 .. Cardinality(S) : i < j => q[i] < q[j]


(* It comes first, and then the others.                                    *)
LEMMA AscendingFrom ==
  ASSUME NEW S, S \subseteq Nat, IsFiniteSet(S), NEW m \in S, \A n \in S : m <= n,
         NEW q, IsAscending(q, S \ {m})
  PROVE  IsAscending(<<m>> \o q, S)
<1> DEFINE n == Cardinality(S)
<1>1. n \in Nat /\ n > 0 /\ Cardinality(S \ {m}) = n - 1
  <2>1. n \in Nat
    BY FS_CardinalityType
  <2>2. n # 0
    BY FS_EmptySet
  <2>3. Cardinality(S \ {m}) = n - 1
    BY FS_RemoveElement
  <2> HIDE DEF n
  <2> QED BY <2>1, <2>2, <2>3
<1> HIDE DEF n
<1>2. q \in [1 .. n - 1 -> S \ {m}] /\ \A i, j \in 1 .. n - 1 : i < j => q[i] < q[j]
  BY <1>1 DEF IsAscending
<1>3. q \in Seq(S) /\ Len(q) = n - 1 /\ <<m>> \in Seq(S) /\ Len(<<m>>) = 1
  BY <1>1, <1>2
<1>4. <<m>> \o q \in Seq(S) /\ Len(<<m>> \o q) = n
  BY <1>1, <1>3
<1>5. \A i \in 1 .. n : (<<m>> \o q)[i] = IF i = 1 THEN m ELSE q[i - 1]
  BY <1>1, <1>3
<1>6. <<m>> \o q \in [1 .. n -> S]
  BY <1>4, LenProperties
<1>7. ASSUME NEW i \in 1 .. n, NEW j \in 1 .. n, i < j PROVE (<<m>> \o q)[i] < (<<m>> \o q)[j]
  <2>1. (<<m>> \o q)[j] = q[j - 1] /\ q[j - 1] \in S \ {m}
    BY <1>1, <1>2, <1>5, <1>7
  <2>2. CASE i = 1
    <3>1. (<<m>> \o q)[i] = m
      BY <1>5, <2>2
    <3>2. m < q[j - 1]
      <4> DEFINE e == q[j - 1]
      <4>1. e \in S \ {m}
        BY <2>1
      <4> HIDE DEF e
      <4>2. m <= e /\ m # e /\ m \in Nat /\ e \in Nat
        BY <4>1
      <4>3. m < e
        BY <4>2
      <4> QED BY <4>3 DEF e
    <3> QED BY <2>1, <3>1, <3>2
  <2>3. CASE i # 1
    <3>1. (<<m>> \o q)[i] = q[i - 1]
      BY <1>5, <2>3
    <3>2. i - 1 \in 1 .. n - 1 /\ j - 1 \in 1 .. n - 1 /\ i - 1 < j - 1
      BY <1>1, <1>7, <2>3
    <3> QED BY <1>2, <2>1, <3>1, <3>2
  <2> QED BY <2>2, <2>3
<1> QED BY <1>6, <1>7 DEF IsAscending, n

(* There is one.                                                           *)
LEMMA AscendingExists ==
  ASSUME NEW S, S \subseteq Nat, IsFiniteSet(S)
  PROVE  \E q : IsAscending(q, S)
<1> DEFINE P == {T \in SUBSET S : \E q : IsAscending(q, T)}
<1>1. ASSUME NEW T \in SUBSET S, \A x \in T : T \ {x} \in P PROVE T \in P
  <2>1. CASE T = {}
    <3>1. Cardinality(T) = 0
      BY <2>1, FS_EmptySet
    <3>2. IsAscending(<<>>, T)
      BY <2>1, <3>1 DEF IsAscending
    <3> QED BY <3>2
  <2>2. CASE T # {}
    <3>1. Min(T) \in T /\ \A n \in T : Min(T) <= n
      BY <2>2, MinIsLeast
    <3>2. PICK q : IsAscending(q, T \ {Min(T)})
      BY <1>1, <3>1
    <3>3. IsFiniteSet(T)
      BY FS_Subset
    <3>4. IsAscending(<<Min(T)>> \o q, T)
      BY <3>1, <3>2, <3>3, AscendingFrom
    <3> QED BY <3>4
  <2> QED BY <2>1, <2>2
<1> HIDE DEF P
<1>2. \A T \in SUBSET S : T \in P
  BY <1>1, BySubsets
<1> QED BY <1>2 DEF P

(* It leaves nothing out.                                                  *)
LEMMA AscendingIsOnto ==
  ASSUME NEW S, S \subseteq Nat, IsFiniteSet(S), NEW q, IsAscending(q, S)
  PROVE  q \in Surjection(1 .. Cardinality(S), S)
<1> DEFINE n == Cardinality(S)
<1>1. n \in Nat
  BY FS_CardinalityType
<1>2. IsFiniteSet(1 .. n) /\ Cardinality(1 .. n) = n
  BY <1>1, FS_Interval
<1>3. \A i, j \in 1 .. n : q[i] = q[j] => i = j
  <2> SUFFICES ASSUME NEW i \in 1 .. n, NEW j \in 1 .. n, q[i] = q[j], i # j PROVE FALSE
    OBVIOUS
  <2>1. q[i] \in Nat
    BY DEF IsAscending
  <2>2. i < j \/ j < i
    BY <1>1
  <2> QED BY <2>1, <2>2 DEF IsAscending
<1>4. q \in Injection(1 .. n, S)
  BY <1>3 DEF IsAscending, Injection, IsInjective
<1> HIDE DEF n
<1>5. Cardinality(1 .. n) = Cardinality(S)
  BY <1>2 DEF n
<1>6. q \in Surjection(1 .. n, S)
  BY <1>4, <1>5, FS_Injection
<1> QED BY <1>6 DEF n

(* There is no other.                                                      *)
LEMMA AscendingIsOne ==
  ASSUME NEW S, S \subseteq Nat, IsFiniteSet(S),
         NEW p, IsAscending(p, S), NEW q, IsAscending(q, S)
  PROVE  p = q
<1> DEFINE n == Cardinality(S)
           P == {i \in 1 .. n : p[i] = q[i]}
           rank == [i \in 1 .. n |-> i]
<1>1. n \in Nat
  BY FS_CardinalityType
<1>2. ASSUME NEW i \in 1 .. n, \A j \in 1 .. n : rank[j] < rank[i] => j \in P,
             NEW r, IsAscending(r, S), NEW s, IsAscending(s, S),
             \A j \in P : r[j] = s[j]
      PROVE  ~(r[i] < s[i])
  <2> SUFFICES ASSUME r[i] < s[i] PROVE FALSE
    OBVIOUS
  <2>1. r[i] \in S /\ s[i] \in S
    BY <1>2 DEF IsAscending
  <2>2. PICK k \in 1 .. n : s[k] = r[i]
    <3>1. IsAscending(s, S)
      BY <1>2
    <3>2. s \in Surjection(1 .. Cardinality(S), S)
      BY <3>1, AscendingIsOnto
    <3> QED BY <2>1, <3>2 DEF Surjection
  <2>3. r[i] \in Nat /\ s[i] \in Nat /\ s[k] \in Nat
    BY <2>1, <2>2
  <2>4. k < i
    <3>1. ~(i < k)
      <4> SUFFICES ASSUME i < k PROVE FALSE
        OBVIOUS
      <4>1. s[i] < s[k]
        BY <1>2 DEF IsAscending
      <4> QED BY <2>2, <2>3, <4>1
    <3>2. i # k
      BY <2>2, <2>3
    <3> QED BY <1>1, <3>1, <3>2
  <2>5. k \in P
    BY <1>2, <2>4
  <2>6. r[k] = s[k] /\ r[k] < r[i]
    BY <1>2, <2>4, <2>5 DEF IsAscending
  <2> QED BY <2>2, <2>3, <2>6
<1>3. ASSUME NEW i \in 1 .. n, \A j \in 1 .. n : rank[j] < rank[i] => j \in P PROVE i \in P
  <2>1. ~(p[i] < q[i]) /\ ~(q[i] < p[i])
    <3>1. \A j \in P : p[j] = q[j] /\ q[j] = p[j]
      OBVIOUS
    <3> HIDE DEF P, rank, n
    <3> QED BY <1>2, <1>3, <3>1
  <2>2. p[i] \in Nat /\ q[i] \in Nat
    BY DEF IsAscending
  <2> QED BY <2>1, <2>2
<1>4. \A i \in 1 .. n : rank[i] \in Nat
  OBVIOUS
<1>5. \A i \in 1 .. n : i \in P
  <2> DEFINE D == 1 .. n
  <2>1. \A i \in D : (\A j \in D : rank[j] < rank[i] => j \in P) => i \in P
    BY <1>3
  <2>2. \A i \in D : rank[i] \in Nat
    BY <1>4
  <2> HIDE DEF P, rank, n, D
  <2>3. \A i \in D : i \in P
    BY <2>1, <2>2, ByRank
  <2> QED BY <2>3 DEF D
<1>6. \A i \in 1 .. Cardinality(S) : p[i] = q[i]
  BY <1>5
<1>7. /\ p \in [1 .. Cardinality(S) -> S]
      /\ q \in [1 .. Cardinality(S) -> S]
  BY DEF IsAscending
<1> HIDE DEF P, rank, n
<1> DEFINE D == 1 .. Cardinality(S)
<1>8. p = [i \in D |-> p[i]] /\ q = [i \in D |-> q[i]]
  BY <1>7
<1>9. [i \in D |-> p[i]] = [i \in D |-> q[i]]
  BY <1>6
<1> QED BY <1>8, <1>9


(* The numbers below the i-th are those before it.                         *)
LEMMA BelowInOrder ==
  ASSUME NEW S, S \subseteq Nat, IsFiniteSet(S), NEW q, IsAscending(q, S),
         NEW i \in 1 .. Cardinality(S)
  PROVE  Cardinality({u \in S : u < q[i]}) = i - 1
<1> DEFINE n == Cardinality(S)
           f == [k \in 1 .. i - 1 |-> q[k]]
           B == {u \in S : u < q[i]}
<1>1. n \in Nat
  BY FS_CardinalityType
<1>2. q \in [1 .. n -> S] /\ \A j, k \in 1 .. n : j < k => q[j] < q[k]
  BY DEF IsAscending
<1>3. q \in Surjection(1 .. n, S)
  BY AscendingIsOnto
<1> HIDE DEF n
<1>3a. i \in 1 .. n
  BY DEF n
<1>4. ASSUME NEW u \in S, u < q[i] PROVE \E k \in 1 .. i - 1 : q[k] = u
  <2>1. PICK k \in 1 .. n : q[k] = u
    BY <1>3 DEF Surjection
  <2>2. q[k] \in Nat /\ q[i] \in Nat
    BY <1>2, <1>3a
  <2>3. ~(i < k) /\ i # k
    BY <1>2, <1>3a, <1>4, <2>1, <2>2
  <2> QED BY <1>1, <1>3a, <2>1, <2>3
<1>5. \A k \in 1 .. i - 1 : k \in 1 .. n /\ q[k] \in S /\ q[k] < q[i]
  BY <1>1, <1>2, <1>3a
<1>6. \A j, k \in 1 .. i - 1 : q[j] = q[k] => j = k
  <2> SUFFICES ASSUME NEW j \in 1 .. i - 1, NEW k \in 1 .. i - 1, q[j] = q[k], j # k PROVE FALSE
    OBVIOUS
  <2>1. j \in 1 .. n /\ k \in 1 .. n /\ q[j] \in Nat /\ q[k] \in Nat
    BY <1>5
  <2>2. j < k \/ k < j
    BY <1>1, <1>3a
  <2> QED BY <1>2, <2>1, <2>2
<1>7. f \in Bijection(1 .. i - 1, B)
  BY <1>4, <1>5, <1>6 DEF Bijection, Injection, IsInjective, Surjection
<1>8. ExistsBijection(1 .. i - 1, B)
  <2> HIDE DEF f, B
  <2> QED BY <1>7 DEF ExistsBijection
<1>9. i - 1 \in Nat
  BY <1>1, <1>3a
<1> DEFINE m == i - 1
<1>10. Cardinality(B) = m
  <2>1. m \in Nat /\ ExistsBijection(1 .. m, B)
    BY <1>8, <1>9
  <2> HIDE DEF m, B
  <2> QED BY <2>1, FS_CountingElements
<1> QED BY <1>10

(* So Sorted gives them in order.                                          *)
LEMMA SortedIs ==
  ASSUME NEW S, S \subseteq Nat, IsFiniteSet(S)
  PROVE  /\ IsAscending(Sorted(S), S)
         /\ \A q : IsAscending(q, S) => Sorted(S) = q
<1>1. PICK q : IsAscending(q, S)
  BY AscendingExists
<1> DEFINE n == Cardinality(S)
           Below(t) == Cardinality({u \in S : u < t})
<1>2. n \in Nat /\ q \in [1 .. n -> S]
  BY <1>1, FS_CardinalityType DEF IsAscending
<1>3. \A i \in 1 .. n : Below(q[i]) = i - 1
  BY <1>1, BelowInOrder
<1>4. q \in Surjection(1 .. n, S)
  BY <1>1, AscendingIsOnto
<1>5. ASSUME NEW i \in 1 .. n PROVE (CHOOSE t \in S : Below(t) = i - 1) = q[i]
  <2>1. \A t \in S : Below(t) = i - 1 => t = q[i]
    <3> HIDE DEF Below, n
    <3> SUFFICES ASSUME NEW t \in S, Below(t) = i - 1 PROVE t = q[i]
      OBVIOUS
    <3>1. PICK k \in 1 .. n : q[k] = t
      BY <1>4 DEF Surjection
    <3>2. Below(t) = k - 1
      BY <1>3, <3>1
    <3>3. k = i
      BY <1>2, <3>2
    <3> QED BY <3>1, <3>3
  <2>2. q[i] \in S /\ Below(q[i]) = i - 1
    BY <1>2, <1>3
  <2> HIDE DEF Below
  <2> QED BY <2>1, <2>2
<1>6. Sorted(S) = [i \in 1 .. n |-> CHOOSE t \in S : Below(t) = i - 1]
  BY Zenon DEF Sorted
<1>7. Sorted(S) = [i \in 1 .. n |-> q[i]]
  <2> HIDE DEF Below, n
  <2> QED BY <1>5, <1>6
<1>8. Sorted(S) = q
  <2> HIDE DEF n
  <2> QED BY <1>2, <1>7
<1>9. \A r : IsAscending(r, S) => r = q
  BY <1>1, AscendingIsOne
<1> QED BY <1>1, <1>8, <1>9
-----------------------------------------------------------------------------
(* A bound list: by start, and no later one ends earlier.                  *)
IsBoundList(bounds) ==
  /\ bounds \in Seq(Bound)
  /\ \A i, j \in DOMAIN bounds : i < j => /\ bounds[i].start < bounds[j].start
                                          /\ bounds[i].end <= bounds[j].end

(* The recursion of Walk.                                                  *)
Positions(bounds, locs, max_misses) ==
  (1 .. Len(bounds) + 1) \X (1 .. Len(locs) + 1) \X (0 .. max_misses)
IsWalk(F, D, bounds, locs, max_misses, window_length) ==
  F = [at \in D |->
        LET i == at[1]  j == at[2]  misses == at[3] IN
        IF i > Len(bounds) \/ j > Len(locs) THEN <<>>
        ELSE IF locs[j] <= bounds[i].end THEN F[<<i, j + 1, misses>>]
        ELSE IF locs[j] - bounds[i].start < window_length
          THEN Prefixed([start |-> bounds[i].start, end |-> locs[j]], F[<<i + 1, j, misses>>])
        ELSE IF misses + 1 > max_misses THEN None
        ELSE F[<<i + 1, j, misses + 1>>]]

WalkInputs(bounds, locs, max_misses, window_length) ==
  /\ IsBoundList(bounds) /\ locs \in Seq(Nat) /\ max_misses \in Nat /\ window_length \in Nat

(* Something satisfies it: the places advance.                             *)
LEMMA WalkWorks ==
  ASSUME NEW bounds, NEW locs, NEW max_misses, NEW window_length,
         WalkInputs(bounds, locs, max_misses, window_length)
  PROVE  \E F : IsWalk(F, Positions(bounds, locs, max_misses), bounds, locs, max_misses, window_length)
<1> DEFINE n == Len(bounds)
           m == Len(locs)
           D == Positions(bounds, locs, max_misses)
           Over(d) == d[1] > n \/ d[2] > m
           Passed(d) == locs[d[2]] <= bounds[d[1]].end
           Inside(d) == locs[d[2]] - bounds[d[1]].start < window_length
           Gone(d) == d[3] + 1 > max_misses
           bound(d) == [start |-> bounds[d[1]].start, end |-> locs[d[2]]]
           stop == {d \in D : Over(d) \/ (~Passed(d) /\ ~Inside(d) /\ Gone(d))}
           start == [d \in D |-> IF Over(d) THEN <<>> ELSE None]
           next == [d \in D |-> IF Passed(d) THEN <<d[1], d[2] + 1, d[3]>>
                                ELSE IF Inside(d) THEN <<d[1] + 1, d[2], d[3]>>
                                ELSE <<d[1] + 1, d[2], d[3] + 1>>]
           Y == Seq(Bound) \cup {None}
           step == [p \in D \X Y |-> IF ~Passed(p[1]) /\ Inside(p[1]) THEN Prefixed(bound(p[1]), p[2]) ELSE p[2]]
           rank == [d \in D |-> (n + 1 - d[1]) + (m + 1 - d[2])]
<1>1. /\ n \in Nat /\ m \in Nat /\ max_misses \in Nat /\ window_length \in Nat
      /\ bounds \in Seq(Bound) /\ locs \in Seq(Nat)
  BY DEF WalkInputs, IsBoundList
<1>2. D = (1 .. n + 1) \X (1 .. m + 1) \X (0 .. max_misses)
  BY DEF Positions
<1>3. IsFiniteSet(D)
  <2>1. IsFiniteSet(1 .. n + 1) /\ IsFiniteSet(1 .. m + 1) /\ IsFiniteSet(0 .. max_misses)
    BY <1>1, FS_Interval
  <2> DEFINE A == 1 .. n + 1
             B == 1 .. m + 1
             C == 0 .. max_misses
             T == A \X B \X C
             f == [x \in (A \X B) \X C |-> <<x[1][1], x[1][2], x[2]>>]
  <2>2. IsFiniteSet((A \X B) \X C)
    <3>1. IsFiniteSet(A) /\ IsFiniteSet(B) /\ IsFiniteSet(C)
      BY <2>1
    <3> HIDE DEF A, B, C
    <3>2. IsFiniteSet(A \X B)
      BY <3>1, FS_Product
    <3> QED BY <3>1, <3>2, FS_Product
  <2>3. f \in Surjection((A \X B) \X C, T)
    <3> HIDE DEF A, B, C
    <3>1. f \in [(A \X B) \X C -> T]
      OBVIOUS
    <3>2. ASSUME NEW t \in T PROVE \E x \in (A \X B) \X C : f[x] = t
      <4>1. t = <<t[1], t[2], t[3]>> /\ t[1] \in A /\ t[2] \in B /\ t[3] \in C
        OBVIOUS
      <4>2. <<<<t[1], t[2]>>, t[3]>> \in (A \X B) \X C
        BY <4>1
      <4>3. f[<<<<t[1], t[2]>>, t[3]>>] = t
        BY <4>1, <4>2
      <4> QED BY <4>2, <4>3
    <3> QED BY <3>1, <3>2 DEF Surjection
  <2>4. IsFiniteSet(T)
    <3> HIDE DEF f, T
    <3> DEFINE Z == (A \X B) \X C
    <3>1. IsFiniteSet(Z) /\ f \in Surjection(Z, T)
      BY <2>2, <2>3
    <3> HIDE DEF Z
    <3> QED BY <3>1, FS_Surjection DEF ExistsSurjection
  <2> QED BY <1>2, <2>4
<1>4. ASSUME NEW d \in D
      PROVE  /\ d[1] \in 1 .. n + 1 /\ d[2] \in 1 .. m + 1 /\ d[3] \in 0 .. max_misses
             /\ d = <<d[1], d[2], d[3]>>
  BY <1>2
<1>5. ASSUME NEW d \in D PROVE rank[d] \in Nat
  BY <1>1, <1>4
<1>6. ASSUME NEW d \in D, ~Over(d)
      PROVE  /\ d[1] \in 1 .. n /\ d[2] \in 1 .. m
             /\ locs[d[2]] \in Nat /\ bounds[d[1]] \in Bound
  BY <1>1, <1>4, <1>6
<1>7. ASSUME NEW d \in D, d \notin stop PROVE next[d] \in D /\ rank[next[d]] < rank[d]
  <2>1. ~Over(d) /\ (Passed(d) \/ Inside(d) \/ ~Gone(d))
    BY <1>7
  <2>2. d[1] \in 1 .. n /\ d[2] \in 1 .. m
    BY <1>6, <2>1
  <2> DEFINE e == next[d]
  <2>3. \/ e = <<d[1], d[2] + 1, d[3]>>
        \/ e = <<d[1] + 1, d[2], d[3]>>
        \/ ~Gone(d) /\ e = <<d[1] + 1, d[2], d[3] + 1>>
    <3> HIDE DEF Passed, Inside, D
    <3> QED BY <2>1
  <2>4. e \in D
    <3>1. d[3] \in 0 .. max_misses /\ (~Gone(d) => d[3] + 1 \in 0 .. max_misses)
      BY <1>1, <1>4
    <3>2. d[1] \in 1 .. n + 1 /\ d[1] + 1 \in 1 .. n + 1 /\ d[2] \in 1 .. m + 1 /\ d[2] + 1 \in 1 .. m + 1
      BY <1>1, <2>2, SMTT(30)
    <3> DEFINE i == d[1]
               j == d[2]
               k == d[3]
    <3> HIDE DEF next, rank, D, n, m
    <3> DEFINE A == 1 .. n + 1
               B == 1 .. m + 1
               C == 0 .. max_misses
    <3>3. i \in A /\ i + 1 \in A /\ j \in B /\ j + 1 \in B /\ k \in C /\ (~Gone(d) => k + 1 \in C)
      <4>1. i \in A /\ i + 1 \in A /\ j \in B /\ j + 1 \in B
        BY <3>2
      <4>2. k \in C /\ (~Gone(d) => k + 1 \in C)
        <5> HIDE DEF Gone
        <5> QED BY <3>1
      <4> QED BY <4>1, <4>2
    <3>4. \/ e = <<i, j + 1, k>>
          \/ e = <<i + 1, j, k>>
          \/ ~Gone(d) /\ e = <<i + 1, j, k + 1>>
      BY <2>3
    <3>5. D = A \X B \X C
      BY <1>2
    <3> HIDE DEF A, B, C, i, j, k, e
    <3>6. e \in A \X B \X C
      BY <3>3, <3>4
    <3> QED BY <3>5, <3>6
  <2>5. (e[1] = d[1] /\ e[2] = d[2] + 1) \/ (e[1] = d[1] + 1 /\ e[2] = d[2])
    BY <2>3
  <2>6. rank[e] = (n + 1 - e[1]) + (m + 1 - e[2]) /\ rank[d] = (n + 1 - d[1]) + (m + 1 - d[2])
    <3> HIDE DEF next, D
    <3> QED BY <2>4
  <2>7. rank[e] < rank[d]
    <3>1. n \in Nat /\ m \in Nat /\ d[1] \in 1 .. n /\ d[2] \in 1 .. m
      BY <1>1, <2>2
    <3> DEFINE i == d[1]
               j == d[2]
               x == e[1]
               y == e[2]
               p == rank[e]
               q == rank[d]
    <3>2. p = (n + 1 - x) + (m + 1 - y) /\ q = (n + 1 - i) + (m + 1 - j)
      BY <2>6
    <3>3. (x = i /\ y = j + 1) \/ (x = i + 1 /\ y = j)
      BY <2>5
    <3>4. i \in 1 .. n /\ j \in 1 .. m
      BY <3>1
    <3> HIDE DEF i, j, x, y, p, q, n, m
    <3>5. p < q
      BY <3>1, <3>2, <3>3, <3>4
    <3> QED BY <3>5 DEF p, q
  <2> QED BY <2>4, <2>7
<1>8. ASSUME NEW d \in D, d \notin stop, NEW y \in Y PROVE step[<<d, y>>] \in Y
  <2>1. ~Over(d)
    BY <1>8
  <2>2. bound(d) \in Bound
    BY <1>6, <2>1 DEF Bound
  <2>3. Prefixed(bound(d), y) \in Y
    <3> HIDE DEF bound, D
    <3>1. CASE y = None
      BY <3>1 DEF Prefixed
    <3>2. CASE y # None
      <4>1. y \in Seq(Bound) /\ <<bound(d)>> \in Seq(Bound)
        BY <2>2, <3>2
      <4>2. <<bound(d)>> \o y \in Seq(Bound)
        BY <4>1
      <4> QED BY <3>2, <4>2 DEF Prefixed
    <3> QED BY <3>1, <3>2
  <2>4. step[<<d, y>>] = IF ~Passed(d) /\ Inside(d) THEN Prefixed(bound(d), y) ELSE y
    <3> HIDE DEF Passed, Inside, bound, D, Y
    <3>1. <<d, y>> \in D \X Y /\ <<d, y>>[1] = d /\ <<d, y>>[2] = y
      OBVIOUS
    <3> QED BY <3>1
  <2> HIDE DEF step, bound, Passed, Inside, Y
  <2> QED BY <2>3, <2>4
<1>9. \A d \in D : d \in stop => start[d] \in Y
  <2> HIDE DEF D
  <2> QED OBVIOUS
<1>10. \E F \in [D -> Y] : Solves(F, D, stop, start, next, step)
  <2>1. \A d \in D : d \notin stop => /\ next[d] \in D /\ rank[next[d]] < rank[d]
                                      /\ \A y \in Y : step[<<d, y>>] \in Y
    BY <1>7, <1>8
  <2>2. \A d \in D : rank[d] \in Nat
    BY <1>5
  <2> HIDE DEF D, stop, next, Y, rank, start, step
  <2>3. GoesDown(D, Y, stop, start, next, step, rank)
    BY <1>9, <2>1, <2>2 DEF GoesDown
  <2> QED BY <1>3, <2>3, RecursionWorks
<1>11. PICK F \in [D -> Y] : Solves(F, D, stop, start, next, step)
  BY <1>10
<1>12. ASSUME NEW d \in D
       PROVE  F[d] = IF Over(d) THEN <<>>
                     ELSE IF Passed(d) THEN F[<<d[1], d[2] + 1, d[3]>>]
                     ELSE IF Inside(d) THEN Prefixed(bound(d), F[<<d[1] + 1, d[2], d[3]>>])
                     ELSE IF Gone(d) THEN None
                     ELSE F[<<d[1] + 1, d[2], d[3] + 1>>]
  <2>1. F[d] = IF d \in stop THEN start[d] ELSE step[<<d, F[next[d]]>>]
    <3> HIDE DEF D, stop, next, step, start
    <3> QED BY <1>11 DEF Solves
  <2>2. d \in stop <=> Over(d) \/ (~Passed(d) /\ ~Inside(d) /\ Gone(d))
    OBVIOUS
  <2>3. start[d] = IF Over(d) THEN <<>> ELSE None
    OBVIOUS
  <2>4. next[d] = IF Passed(d) THEN <<d[1], d[2] + 1, d[3]>>
                  ELSE IF Inside(d) THEN <<d[1] + 1, d[2], d[3]>>
                  ELSE <<d[1] + 1, d[2], d[3] + 1>>
    OBVIOUS
  <2>5. d \notin stop =>
          step[<<d, F[next[d]]>>] = IF ~Passed(d) /\ Inside(d) THEN Prefixed(bound(d), F[next[d]]) ELSE F[next[d]]
    <3> SUFFICES ASSUME d \notin stop
                 PROVE  step[<<d, F[next[d]]>>] = IF ~Passed(d) /\ Inside(d) THEN Prefixed(bound(d), F[next[d]]) ELSE F[next[d]]
      OBVIOUS
    <3>1. next[d] \in D
      BY <1>7
    <3> HIDE DEF next, D, Y, Passed, Inside, bound
    <3>2. F[next[d]] \in Y
      BY <3>1
    <3> DEFINE y == F[next[d]]
    <3>3. <<d, y>> \in D \X Y /\ <<d, y>>[1] = d /\ <<d, y>>[2] = y
      BY <3>2
    <3> HIDE DEF y
    <3>4. step[<<d, y>>] = IF ~Passed(d) /\ Inside(d) THEN Prefixed(bound(d), y) ELSE y
      BY <3>3
    <3> QED BY <3>4 DEF y
  <2> HIDE DEF D, stop, next, step, start, Over, Passed, Inside, Gone, bound
  <2> QED BY <2>1, <2>2, <2>3, <2>4, <2>5
<1>13. IsWalk(F, D, bounds, locs, max_misses, window_length)
  <2>1. F = [d \in D |-> F[d]]
    OBVIOUS
  <2>2. \A d \in D : F[d] = LET i == d[1]  j == d[2]  misses == d[3] IN
          IF i > Len(bounds) \/ j > Len(locs) THEN <<>>
          ELSE IF locs[j] <= bounds[i].end THEN F[<<i, j + 1, misses>>]
          ELSE IF locs[j] - bounds[i].start < window_length
            THEN Prefixed([start |-> bounds[i].start, end |-> locs[j]], F[<<i + 1, j, misses>>])
          ELSE IF misses + 1 > max_misses THEN None
          ELSE F[<<i + 1, j, misses + 1>>]
    BY <1>12
  <2> HIDE DEF D
  <2> QED BY <2>1, <2>2, Zenon DEF IsWalk
<1> QED BY <1>13
-----------------------------------------------------------------------------
(* The first of some locations after another, the bounds that continue in  *)
(* them, and their continuations.                                          *)
FirstAfter(locations, end) == Min({t \in locations : t > end})
Continues(bounds, locations, window_length, from) ==
  {i \in DOMAIN bounds :
     i >= from /\ \E t \in locations : t > bounds[i].end /\ t - bounds[i].start < window_length}
Continued(bounds, locations, q) ==
  [x \in DOMAIN q |->
     [start |-> bounds[q[x]].start, end |-> FirstAfter(locations, bounds[q[x]].end)]]

(* What Walk has to give from a bound on, after some misses.               *)
IsWalked(walked, bounds, locations, max_misses, window_length, from, misses) ==
  IF walked = None
    THEN Cardinality(Continues(bounds, locations, window_length, from)) + max_misses
           < misses + (Len(bounds) + 1 - from)
    ELSE \E q : /\ IsAscending(q, Continues(bounds, locations, window_length, from))
                /\ walked = Continued(bounds, locations, q)

Located(bounds, locations, window_length) ==
  /\ IsBoundList(bounds) /\ window_length \in Nat
  /\ locations \subseteq Nat /\ IsFiniteSet(locations)

(* They are some of the bounds.                                            *)
LEMMA ContinuesAre ==
  ASSUME NEW bounds, NEW locations, NEW window_length, Located(bounds, locations, window_length),
         NEW i \in 1 .. Len(bounds) + 1
  PROVE  LET C == Continues(bounds, locations, window_length, i) IN
         /\ C \subseteq i .. Len(bounds) /\ C \subseteq Nat /\ IsFiniteSet(C)
         /\ Cardinality(C) \in Nat /\ Cardinality(C) <= Len(bounds) + 1 - i
<1> DEFINE C == Continues(bounds, locations, window_length, i)
<1>1. bounds \in Seq(Bound) /\ Len(bounds) \in Nat /\ DOMAIN bounds = 1 .. Len(bounds)
  BY DEF Located, IsBoundList
<1>2. C \subseteq i .. Len(bounds)
  BY <1>1 DEF Continues
<1> HIDE DEF C
<1> DEFINE n == Len(bounds)
<1>3. IsFiniteSet(i .. n) /\ Cardinality(i .. n) <= n + 1 - i
  <2>1. i \in Int /\ n \in Int
    BY <1>1
  <2>2. IsFiniteSet(i .. n) /\ Cardinality(i .. n) = IF i > n THEN 0 ELSE n - i + 1
    BY <2>1, FS_Interval
  <2> QED BY <1>1, <2>2
<1>4. IsFiniteSet(C) /\ Cardinality(C) <= Cardinality(i .. n)
  BY <1>2, <1>3, FS_Subset
<1>5. Cardinality(C) \in Nat /\ Cardinality(i .. n) \in Nat
  BY <1>3, <1>4, FS_CardinalityType
<1>6. Cardinality(C) <= n + 1 - i
  <2> DEFINE x == Cardinality(C)
             y == Cardinality(i .. n)
  <2>1. x \in Nat /\ y \in Nat /\ x <= y /\ y <= n + 1 - i /\ n \in Nat
    BY <1>1, <1>3, <1>4, <1>5
  <2> HIDE DEF x, y, n
  <2>2. x <= n + 1 - i
    BY <2>1
  <2> QED BY <2>2 DEF x
<1> QED BY <1>2, <1>4, <1>5, <1>6 DEF C

(* Of no bounds.                                                           *)
LEMMA NothingWalked ==
  ASSUME NEW bounds, NEW locations, NEW window_length, NEW max_misses, NEW i, NEW misses,
         Continues(bounds, locations, window_length, i) = {}
  PROVE  IsWalked(<<>>, bounds, locations, max_misses, window_length, i, misses)
<1>1. Cardinality({}) = 0
  BY FS_EmptySet
<1>2. IsAscending(<<>>, {})
  BY <1>1 DEF IsAscending
<1>3. <<>> = Continued(bounds, locations, <<>>)
  BY DEF Continued
<1>4. <<>> # None
  <2>1. <<>> \in Seq(Bound)
    OBVIOUS
  <2> QED BY <2>1, SizeAssumption
<1> QED BY <1>2, <1>3, <1>4 DEF IsWalked

(* A bound more, which continues at a location.                            *)
LEMMA OneMoreWalked ==
  ASSUME NEW bounds, NEW locations, NEW window_length, Located(bounds, locations, window_length),
         NEW max_misses \in Nat, NEW i \in 1 .. Len(bounds), NEW misses \in Nat,
         NEW t \in locations, t > bounds[i].end, t - bounds[i].start < window_length,
         \A u \in locations : u > bounds[i].end => t <= u,
         NEW y, IsWalked(y, bounds, locations, max_misses, window_length, i + 1, misses)
  PROVE  IsWalked(Prefixed([start |-> bounds[i].start, end |-> t], y),
                  bounds, locations, max_misses, window_length, i, misses)
<1> DEFINE C == Continues(bounds, locations, window_length, i)
           D == Continues(bounds, locations, window_length, i + 1)
           b == [start |-> bounds[i].start, end |-> t]
           n == Len(bounds)
<1>1. bounds \in Seq(Bound) /\ n \in Nat /\ DOMAIN bounds = 1 .. n /\ locations \subseteq Nat
  BY DEF Located, IsBoundList
<1>2. i \in C /\ D = C \ {i}
  <2>1. i \in DOMAIN bounds /\ i >= i
    BY <1>1
  <2>2. i \in C
    BY <2>1 DEF Continues
  <2>3. \A k \in 1 .. n : k >= i + 1 <=> k >= i /\ k # i
    BY <1>1
  <2> HIDE DEF n
  <2>4. D = C \ {i}
    BY <1>1, <2>3 DEF Continues
  <2> QED BY <2>2, <2>4
<1>3. /\ C \subseteq Nat /\ IsFiniteSet(C) /\ Cardinality(C) \in Nat /\ C \subseteq i .. n
      /\ Cardinality(D) = Cardinality(C) - 1 /\ D \subseteq Nat /\ D \subseteq (i + 1) .. n
  <2>1. i \in 1 .. Len(bounds) + 1 /\ i + 1 \in 1 .. Len(bounds) + 1
    BY <1>1
  <2>2. C \subseteq Nat /\ IsFiniteSet(C) /\ Cardinality(C) \in Nat /\ C \subseteq i .. n
    BY <2>1, ContinuesAre
  <2>3. D \subseteq Nat /\ D \subseteq (i + 1) .. n
    BY <2>1, ContinuesAre
  <2> HIDE DEF C, D
  <2>4. Cardinality(C \ {i}) = Cardinality(C) - 1
    BY <1>2, <2>2, FS_RemoveElement
  <2> QED BY <1>2, <2>2, <2>3, <2>4
<1>4. FirstAfter(locations, bounds[i].end) = t
  <2> DEFINE A == {u \in locations : u > bounds[i].end}
  <2>1. A \subseteq Nat /\ A # {} /\ t \in A /\ \A u \in A : t <= u
    BY <1>1
  <2> HIDE DEF A
  <2>2. Min(A) \in A /\ \A u \in A : Min(A) <= u
    BY <2>1, MinIsLeast
  <2>3. Min(A) = t
    <3>1. Min(A) \in Nat /\ t \in Nat /\ t <= Min(A) /\ Min(A) <= t
      BY <2>1, <2>2
    <3> QED BY <3>1
  <2> QED BY <2>3 DEF FirstAfter, A
<1>5. CASE y = None
  <2>1. Cardinality(D) + max_misses < misses + (n + 1 - (i + 1))
    BY <1>5 DEF IsWalked
  <2>2. Prefixed(b, y) = None
    BY <1>5 DEF Prefixed
  <2> HIDE DEF C, D, b, n
  <2>3. Cardinality(C) + max_misses < misses + (n + 1 - i)
    BY <1>1, <1>3, <2>1
  <2> QED BY <2>2, <2>3 DEF IsWalked, C, D, b, n
<1>6. CASE y # None
  <2>1. PICK q : IsAscending(q, D) /\ y = Continued(bounds, locations, q)
    BY <1>6 DEF IsWalked
  <2>2. IsAscending(<<i>> \o q, C)
    <3>1. \A x \in C : i <= x
      BY <1>3
    <3>2. IsAscending(q, C \ {i})
      BY <1>2, <2>1
    <3> HIDE DEF C, D
    <3> QED BY <1>2, <1>3, <3>1, <3>2, AscendingFrom
  <2>3. q \in Seq(D)
    <3>1. Cardinality(D) \in Nat
      BY <1>2, <1>3, FS_RemoveElement, FS_CardinalityType
    <3>2. q \in [1 .. Cardinality(D) -> D]
      BY <2>1 DEF IsAscending
    <3> HIDE DEF D
    <3> QED BY <3>1, <3>2
  <2>4. y \in Seq(Bound) /\ Len(y) = Len(q)
    <3>1. \A x \in DOMAIN q : q[x] \in D
      <4> HIDE DEF D
      <4> QED BY <2>3
    <3>2. ASSUME NEW x \in DOMAIN q PROVE FirstAfter(locations, bounds[q[x]].end) \in Nat /\ bounds[q[x]].start \in Nat
      <4>1. q[x] \in D /\ q[x] \in 1 .. n
        BY <1>1, <3>1 DEF Continues
      <4> DEFINE A == {u \in locations : u > bounds[q[x]].end}
      <4>2. A \subseteq Nat /\ A # {}
        BY <1>1, <4>1 DEF Continues
      <4> HIDE DEF A
      <4>3. Min(A) \in A
        BY <4>2, MinIsLeast
      <4>4. bounds[q[x]] \in Bound
        BY <1>1, <4>1
      <4> QED BY <4>2, <4>3, <4>4 DEF A, FirstAfter, Bound
    <3>3. DOMAIN q = 1 .. Len(q) /\ Len(q) \in Nat
      <4> HIDE DEF D
      <4> QED BY <2>3
    <3>4. y \in [1 .. Len(q) -> Bound]
      BY <2>1, <3>2, <3>3 DEF Continued, Bound
    <3> QED BY <3>3, <3>4
  <2>5. b \in Bound
    <3>1. bounds[i] \in Bound
      BY <1>1
    <3> QED BY <1>1, <3>1 DEF Bound
  <2>6. <<b>> \o y = Continued(bounds, locations, <<i>> \o q)
    <3> DEFINE p == <<i>> \o q
               r == Continued(bounds, locations, p)
               k == Len(q)
    <3>1. q \in Seq(Nat) /\ k \in Nat
      <4>1. D \subseteq Nat
        BY <1>3
      <4> HIDE DEF D
      <4>2. k \in Nat /\ q = [x \in 1 .. k |-> q[x]] /\ \A x \in 1 .. k : q[x] \in D
        BY <2>3
      <4>3. \A x \in 1 .. k : q[x] \in Nat
        BY <4>1, <4>2
      <4> QED BY <4>2, <4>3
    <3>2. DOMAIN p = 1 .. k + 1 /\ p[1] = i /\ \A x \in 2 .. k + 1 : p[x] = q[x - 1]
      BY <3>1
    <3>3. <<b>> \o y \in Seq(Bound) /\ DOMAIN (<<b>> \o y) = 1 .. k + 1 /\ (<<b>> \o y)[1] = b
          /\ \A x \in 2 .. k + 1 : (<<b>> \o y)[x] = y[x - 1]
      <4> HIDE DEF b
      <4> QED BY <2>4, <2>5, <3>1
    <3> HIDE DEF p, k
    <3>4. DOMAIN r = 1 .. k + 1
      BY <3>2 DEF Continued
    <3>5. r[1] = b
      BY <1>4, <3>1, <3>2 DEF Continued
    <3>6. ASSUME NEW x \in 2 .. k + 1 PROVE r[x] = y[x - 1]
      <4>1. x - 1 \in DOMAIN q /\ x \in DOMAIN p
        BY <3>1, <3>2 DEF k
      <4> QED BY <2>1, <3>2, <4>1 DEF Continued
    <3>7. r = [x \in DOMAIN r |-> r[x]]
      BY DEF Continued
    <3> HIDE DEF r, b
    <3>8. \A x \in 1 .. k + 1 : r[x] = (<<b>> \o y)[x]
      <4> SUFFICES ASSUME NEW x \in 1 .. k + 1 PROVE r[x] = (<<b>> \o y)[x]
        OBVIOUS
      <4>1. CASE x = 1
        BY <3>3, <3>5, <4>1
      <4>2. CASE x # 1
        <5>1. x \in 2 .. k + 1
          BY <3>1, <4>2 DEF k
        <5> QED BY <3>3, <3>6, <5>1
      <4> QED BY <4>1, <4>2
    <3>9. <<b>> \o y = [x \in 1 .. k + 1 |-> (<<b>> \o y)[x]]
      <4> DEFINE z == <<b>> \o y
      <4>1. z \in Seq(Bound) /\ DOMAIN z = 1 .. k + 1
        BY <3>3
      <4> HIDE DEF z
      <4>2. z = [x \in 1 .. k + 1 |-> z[x]]
        BY <4>1
      <4> QED BY <4>2 DEF z
    <3>10. r = [x \in 1 .. k + 1 |-> r[x]]
      BY <3>4, <3>7
    <3> QED BY <3>8, <3>9, <3>10 DEF r, p
  <2>7. Prefixed(b, y) = <<b>> \o y /\ <<b>> \o y # None
    <3> HIDE DEF b
    <3>1. <<b>> \o y \in Seq(Bound)
      BY <2>4, <2>5
    <3> QED BY <1>6, <3>1, SizeAssumption DEF Prefixed
  <2> HIDE DEF b, D
  <2> QED BY <2>2, <2>6, <2>7 DEF IsWalked, b, C
<1> QED BY <1>5, <1>6

(* A bound more, which does not continue.                                  *)
LEMMA OneMissed ==
  ASSUME NEW bounds, NEW locations, NEW window_length, Located(bounds, locations, window_length),
         NEW max_misses \in Nat, NEW i \in 1 .. Len(bounds), NEW misses \in Nat,
         i \notin Continues(bounds, locations, window_length, i)
  PROVE  /\ misses + 1 > max_misses =>
              IsWalked(None, bounds, locations, max_misses, window_length, i, misses)
         /\ \A y : IsWalked(y, bounds, locations, max_misses, window_length, i + 1, misses + 1)
                   => IsWalked(y, bounds, locations, max_misses, window_length, i, misses)
<1> DEFINE C == Continues(bounds, locations, window_length, i)
           D == Continues(bounds, locations, window_length, i + 1)
           n == Len(bounds)
<1>1. n \in Nat /\ DOMAIN bounds = 1 .. n
  BY DEF Located, IsBoundList
<1>2. C = D
  BY <1>1 DEF Continues
<1>3. Cardinality(D) \in Nat /\ Cardinality(D) <= n + 1 - (i + 1)
  <2>1. i + 1 \in 1 .. Len(bounds) + 1
    BY <1>1
  <2> QED BY <2>1, ContinuesAre
<1> DEFINE c == Cardinality(D)
<1>4. c \in Nat /\ c <= n + 1 - (i + 1)
  BY <1>3
<1>5. ASSUME misses + 1 > max_misses
      PROVE  IsWalked(None, bounds, locations, max_misses, window_length, i, misses)
  <2> HIDE DEF c, n, C, D
  <2>1. c + max_misses < misses + (n + 1 - i)
    BY <1>1, <1>4, <1>5
  <2>2. Cardinality(C) + max_misses < misses + (n + 1 - i)
    BY <1>2, <2>1 DEF c
  <2> QED BY <2>2 DEF IsWalked, C, n
<1>6. ASSUME NEW y, IsWalked(y, bounds, locations, max_misses, window_length, i + 1, misses + 1)
      PROVE  IsWalked(y, bounds, locations, max_misses, window_length, i, misses)
  <2>1. CASE y = None
    <3>1. c + max_misses < misses + 1 + (n + 1 - (i + 1))
      BY <1>6, <2>1 DEF IsWalked
    <3> HIDE DEF c, n, C, D
    <3>2. c + max_misses < misses + (n + 1 - i)
      BY <1>1, <1>4, <3>1
    <3>3. Cardinality(C) + max_misses < misses + (n + 1 - i)
      BY <1>2, <3>2 DEF c
    <3> QED BY <2>1, <3>3 DEF IsWalked, C, n
  <2>2. CASE y # None
    <3>1. \E q : IsAscending(q, D) /\ y = Continued(bounds, locations, q)
      BY <1>6, <2>2 DEF IsWalked
    <3> HIDE DEF C, D
    <3>2. \E q : IsAscending(q, C) /\ y = Continued(bounds, locations, q)
      BY <1>2, <3>1
    <3> QED BY <2>2, <3>2 DEF IsWalked, C
  <2> QED BY <2>1, <2>2
<1> QED BY <1>5, <1>6
-----------------------------------------------------------------------------
(* The locations passed are not after the bound at hand.                   *)
Ready(bounds, locs, i, j) ==
  i <= Len(bounds) => \A x \in 1 .. j - 1 : locs[x] <= bounds[i].end

(* A step of the walk.                                                     *)
LEMMA WalkStep ==
  ASSUME NEW bounds, NEW locations, NEW window_length, Located(bounds, locations, window_length),
         NEW locs, IsAscending(locs, locations), NEW max_misses \in Nat, NEW F,
         IsWalk(F, Positions(bounds, locs, max_misses), bounds, locs, max_misses, window_length),
         NEW i \in 1 .. Len(bounds) + 1, NEW j \in 1 .. Len(locs) + 1, NEW k \in 0 .. max_misses,
         Ready(bounds, locs, i, j),
         i <= Len(bounds) /\ j <= Len(locs) =>
           /\ Ready(bounds, locs, i, j + 1) =>
                IsWalked(F[<<i, j + 1, k>>], bounds, locations, max_misses, window_length, i, k)
           /\ Ready(bounds, locs, i + 1, j) =>
                IsWalked(F[<<i + 1, j, k>>], bounds, locations, max_misses, window_length, i + 1, k)
           /\ k + 1 <= max_misses /\ Ready(bounds, locs, i + 1, j) =>
                IsWalked(F[<<i + 1, j, k + 1>>], bounds, locations, max_misses, window_length, i + 1, k + 1)
  PROVE  IsWalked(F[<<i, j, k>>], bounds, locations, max_misses, window_length, i, k)
<1> DEFINE n == Len(bounds)
           m == Len(locs)
           b == [start |-> bounds[i].start, end |-> locs[j]]
<1>1. bounds \in Seq(Bound) /\ n \in Nat /\ DOMAIN bounds = 1 .. n /\ locations \subseteq Nat /\ IsFiniteSet(locations)
  BY DEF Located, IsBoundList
<1>1a. \A x \in 1 .. n : bounds[x] \in Bound /\ bounds[x].end \in Nat /\ bounds[x].start \in Nat
  <2>1. \A x \in 1 .. n : bounds[x] \in Bound
    BY <1>1
  <2>2. \A c \in Bound : c.end \in Nat /\ c.start \in Nat
    BY DEF Bound
  <2> QED BY <2>1, <2>2
<1>2. m \in Nat /\ m = Cardinality(locations) /\ locs \in [1 .. m -> locations]
      /\ \A x, y \in 1 .. m : x < y => locs[x] < locs[y]
  <2>1. Cardinality(locations) \in Nat
    BY <1>1, FS_CardinalityType
  <2>2. locs \in [1 .. Cardinality(locations) -> locations]
    BY DEF IsAscending
  <2>3. m = Cardinality(locations)
    BY <2>1, <2>2
  <2> HIDE DEF m
  <2> QED BY <2>1, <2>2, <2>3 DEF IsAscending
<1>3. \A t \in locations : \E x \in 1 .. m : locs[x] = t
  <2>1. locs \in Surjection(1 .. Cardinality(locations), locations)
    BY <1>1, AscendingIsOnto
  <2> HIDE DEF m
  <2> QED BY <1>2, <2>1 DEF Surjection
<1>4. <<i, j, k>> \in Positions(bounds, locs, max_misses)
  BY DEF Positions
<1>5. F[<<i, j, k>>] = IF i > n \/ j > m THEN <<>>
        ELSE IF locs[j] <= bounds[i].end THEN F[<<i, j + 1, k>>]
        ELSE IF locs[j] - bounds[i].start < window_length
          THEN Prefixed(b, F[<<i + 1, j, k>>])
        ELSE IF k + 1 > max_misses THEN None
        ELSE F[<<i + 1, j, k + 1>>]
  <2>1. <<i, j, k>>[1] = i /\ <<i, j, k>>[2] = j /\ <<i, j, k>>[3] = k
    OBVIOUS
  <2> DEFINE at == <<i, j, k>>
  <2> HIDE DEF at
  <2>2. at \in Positions(bounds, locs, max_misses) /\ at[1] = i /\ at[2] = j /\ at[3] = k
    BY <1>4, <2>1 DEF at
  <2>3. F[at] = IF i > Len(bounds) \/ j > Len(locs) THEN <<>>
        ELSE IF locs[j] <= bounds[i].end THEN F[<<i, j + 1, k>>]
        ELSE IF locs[j] - bounds[i].start < window_length
          THEN Prefixed([start |-> bounds[i].start, end |-> locs[j]], F[<<i + 1, j, k>>])
        ELSE IF k + 1 > max_misses THEN None
        ELSE F[<<i + 1, j, k + 1>>]
    BY <2>2 DEF IsWalk
  <2> QED BY <2>3 DEF at
<1> HIDE DEF b
<1>6. CASE i > n
  <2>1. Continues(bounds, locations, window_length, i) = {}
    BY <1>1, <1>6 DEF Continues
  <2>2. F[<<i, j, k>>] = <<>>
    BY <1>5, <1>6
  <2> QED BY <2>1, <2>2, NothingWalked
<1>7. CASE i <= n /\ j > m
  <2>1. \A t \in locations : t <= bounds[i].end
    <3> SUFFICES ASSUME NEW t \in locations PROVE t <= bounds[i].end
      OBVIOUS
    <3>1. PICK x \in 1 .. m : locs[x] = t
      BY <1>3
    <3>2. x \in 1 .. j - 1
      BY <1>2, <1>7
    <3> QED BY <1>7, <3>1, <3>2 DEF Ready
  <2>2. ASSUME NEW x \in i .. n, NEW t \in locations PROVE t <= bounds[x].end
    <3>1. bounds[i].end <= bounds[x].end
      <4>1. CASE x = i
        <5>1. bounds[x].end \in Nat
          BY <1>1, <1>1a, <1>7, <4>1
        <5> QED BY <4>1, <5>1
      <4>2. CASE x # i
        <5>1. i < x /\ i \in DOMAIN bounds /\ x \in DOMAIN bounds
          BY <1>1, <1>7, <4>2
        <5> QED BY <5>1 DEF Located, IsBoundList
      <4> QED BY <4>1, <4>2
    <3>2. bounds[i].end \in Nat /\ bounds[x].end \in Nat /\ t \in Nat
      <4>1. i \in 1 .. n /\ x \in 1 .. n
        BY <1>1, <1>7
      <4> QED BY <1>1, <1>1a, <4>1
    <3>3. t <= bounds[i].end
      BY <2>1
    <3> QED BY <3>1, <3>2, <3>3, SMTT(30)
  <2>3. Continues(bounds, locations, window_length, i) = {}
    <3> SUFFICES ASSUME NEW x \in Continues(bounds, locations, window_length, i) PROVE FALSE
      OBVIOUS
    <3>1. x \in i .. n /\ \E t \in locations : t > bounds[x].end
      BY <1>1 DEF Continues
    <3>2. PICK t \in locations : t > bounds[x].end
      BY <3>1
    <3>3. t <= bounds[x].end /\ t \in Nat /\ bounds[x].end \in Nat
      <4>1. x \in 1 .. n
        BY <1>1, <3>1
      <4> QED BY <1>1, <1>1a, <2>2, <3>1, <4>1
    <3> QED BY <3>2, <3>3
  <2>4. F[<<i, j, k>>] = <<>>
    BY <1>5, <1>7
  <2> QED BY <2>3, <2>4, NothingWalked
<1>8. CASE i <= n /\ j <= m
  <2>1. /\ locs[j] \in locations /\ locs[j] \in Nat /\ bounds[i] \in Bound
        /\ bounds[i].end \in Nat /\ bounds[i].start \in Nat /\ window_length \in Nat
        /\ i \in 1 .. n /\ j \in 1 .. m
    <3>1. i \in 1 .. n /\ j \in 1 .. m
      BY <1>1, <1>2, <1>8
    <3>2. locs[j] \in locations
      BY <1>2, <3>1
    <3> QED BY <1>1, <1>1a, <3>1, <3>2 DEF Located
  <2>2. CASE locs[j] <= bounds[i].end
    <3>1. Ready(bounds, locs, i, j + 1)
      <4> SUFFICES ASSUME i <= Len(bounds), NEW x \in 1 .. j PROVE locs[x] <= bounds[i].end
        BY <1>2 DEF Ready
      <4>1. CASE x = j
        BY <2>2, <4>1
      <4>2. CASE x # j
        <5>1. x \in 1 .. j - 1
          BY <4>2
        <5> QED BY <5>1 DEF Ready
      <4> QED BY <4>1, <4>2
    <3>2. F[<<i, j, k>>] = F[<<i, j + 1, k>>]
      BY <1>1, <1>2, <1>5, <1>8, <2>2
    <3> QED BY <1>8, <3>1, <3>2
  <2>3. CASE ~(locs[j] <= bounds[i].end)
    <3>1. \A u \in locations : u > bounds[i].end => locs[j] <= u
      <4> SUFFICES ASSUME NEW u \in locations, u > bounds[i].end PROVE locs[j] <= u
        OBVIOUS
      <4>1. PICK x \in 1 .. m : locs[x] = u
        BY <1>3
      <4>2. ~(x \in 1 .. j - 1)
        <5> SUFFICES ASSUME x \in 1 .. j - 1 PROVE FALSE
          OBVIOUS
        <5>1. locs[x] <= bounds[i].end /\ u \in Nat
          BY <1>1, <1>8 DEF Ready
        <5> QED BY <2>1, <4>1, <5>1, SMTT(30)
      <4>3. x = j \/ j < x
        BY <1>2, <2>1, <4>2
      <4>4. u \in Nat
        BY <1>1
      <4> QED BY <1>2, <2>1, <4>1, <4>3, <4>4
    <3>2. Ready(bounds, locs, i + 1, j)
      <4> SUFFICES ASSUME i + 1 <= n, NEW x \in 1 .. j - 1 PROVE locs[x] <= bounds[i + 1].end
        BY DEF Ready
      <4>1. locs[x] <= bounds[i].end
        <5>1. i <= Len(bounds)
          BY <1>8
        <5> QED BY <5>1 DEF Ready
      <4>2. i \in DOMAIN bounds /\ i + 1 \in DOMAIN bounds /\ i < i + 1
        <5>1. i \in 1 .. n /\ i + 1 \in 1 .. n /\ i < i + 1
          <6> HIDE DEF n
          <6> QED BY <1>1, <2>1
        <5> QED BY <1>1, <5>1
      <4>3. bounds[i].end <= bounds[i + 1].end
        BY <4>2 DEF Located, IsBoundList
      <4>4. locs[x] \in Nat /\ bounds[i].end \in Nat /\ bounds[i + 1].end \in Nat
        <5>1. x \in 1 .. m /\ i + 1 \in 1 .. n
          BY <1>1, <1>2, <2>1, <4>2
        <5>2. locs[x] \in locations
          BY <1>2, <5>1
        <5> QED BY <1>1, <1>1a, <2>1, <5>1, <5>2
      <4> QED BY <4>1, <4>3, <4>4, SMTT(30)
    <3>3. CASE locs[j] - bounds[i].start < window_length
      <4>1. F[<<i, j, k>>] = Prefixed(b, F[<<i + 1, j, k>>])
        BY <1>1, <1>2, <1>5, <1>8, <2>3, <3>3
      <4>2. IsWalked(F[<<i + 1, j, k>>], bounds, locations, max_misses, window_length, i + 1, k)
        BY <1>8, <3>2
      <4>3. locs[j] > bounds[i].end
        BY <2>1, <2>3, SMTT(30)
      <4> DEFINE t == locs[j]
                 y == F[<<i + 1, j, k>>]
      <4>4. /\ t \in locations /\ t > bounds[i].end /\ t - bounds[i].start < window_length
            /\ \A u \in locations : u > bounds[i].end => t <= u
            /\ IsWalked(y, bounds, locations, max_misses, window_length, i + 1, k)
            /\ k \in Nat /\ i \in 1 .. Len(bounds)
            /\ b = [start |-> bounds[i].start, end |-> t]
        BY <2>1, <3>1, <3>3, <4>2, <4>3 DEF b
      <4> HIDE DEF t, y
      <4>5. IsWalked(Prefixed(b, y), bounds, locations, max_misses, window_length, i, k)
        <5>1. IsWalked(Prefixed([start |-> bounds[i].start, end |-> t], y), bounds, locations, max_misses, window_length, i, k)
          BY <4>4, OneMoreWalked
        <5> QED BY <4>4, <5>1
      <4> QED BY <4>1, <4>5 DEF y
    <3>4. CASE ~(locs[j] - bounds[i].start < window_length)
      <4>1. i \notin Continues(bounds, locations, window_length, i)
        <5> SUFFICES ASSUME i \in Continues(bounds, locations, window_length, i) PROVE FALSE
          OBVIOUS
        <5>1. PICK t \in locations : t > bounds[i].end /\ t - bounds[i].start < window_length
          BY DEF Continues
        <5>2. locs[j] <= t /\ t \in Nat
          BY <1>1, <3>1, <5>1
        <5> QED BY <2>1, <3>4, <5>1, <5>2, SMTT(30)
      <4>2. /\ k + 1 > max_misses =>
                 IsWalked(None, bounds, locations, max_misses, window_length, i, k)
            /\ \A y : IsWalked(y, bounds, locations, max_misses, window_length, i + 1, k + 1)
                        => IsWalked(y, bounds, locations, max_misses, window_length, i, k)
        <5>1. k \in Nat /\ i \in 1 .. Len(bounds)
          BY <2>1
        <5> QED BY <4>1, <5>1, OneMissed
      <4>3. F[<<i, j, k>>] = IF k + 1 > max_misses THEN None ELSE F[<<i + 1, j, k + 1>>]
        BY <1>1, <1>2, <1>5, <1>8, <2>3, <3>4
      <4>4. CASE k + 1 > max_misses
        BY <4>2, <4>3, <4>4
      <4>5. CASE ~(k + 1 > max_misses)
        <5>1. k + 1 <= max_misses
          BY <4>5
        <5>2. IsWalked(F[<<i + 1, j, k + 1>>], bounds, locations, max_misses, window_length, i + 1, k + 1)
          BY <1>8, <3>2, <5>1
        <5> QED BY <4>2, <4>3, <4>5, <5>2
      <4> QED BY <4>4, <4>5
    <3> QED BY <3>3, <3>4
  <2> QED BY <2>2, <2>3
<1> QED BY <1>1, <1>2, <1>6, <1>7, <1>8

(* The walk finds the bounds that continue, unless they are too few.       *)
LEMMA WalkIs ==
  ASSUME NEW bounds, NEW locations, NEW window_length, Located(bounds, locations, window_length),
         NEW locs, IsAscending(locs, locations), NEW max_misses \in Nat
  PROVE  IsWalked(Walk(bounds, locs, max_misses, window_length),
                  bounds, locations, max_misses, window_length, 1, 0)
<1> DEFINE D == Positions(bounds, locs, max_misses)
           F == CHOOSE f : IsWalk(f, D, bounds, locs, max_misses, window_length)
           n == Len(bounds)
           m == Len(locs)
           rank == [d \in D |-> (n + 1 - d[1]) + (m + 1 - d[2])]
           P == {d \in D : Ready(bounds, locs, d[1], d[2]) =>
                   IsWalked(F[d], bounds, locations, max_misses, window_length, d[1], d[3])}
<1>1. n \in Nat /\ m \in Nat /\ locs \in Seq(Nat) /\ D = (1 .. n + 1) \X (1 .. m + 1) \X (0 .. max_misses)
  <2>1. Cardinality(locations) \in Nat /\ locations \subseteq Nat
    BY FS_CardinalityType DEF Located
  <2>2. locs \in [1 .. Cardinality(locations) -> Nat]
    BY <2>1 DEF IsAscending
  <2>3. locs \in Seq(Nat)
    BY <2>1, <2>2
  <2> QED BY <2>3 DEF Located, IsBoundList, Positions
<1>2. IsWalk(F, D, bounds, locs, max_misses, window_length)
  <2>1. WalkInputs(bounds, locs, max_misses, window_length)
    BY <1>1 DEF WalkInputs, Located
  <2>2. \E f : IsWalk(f, D, bounds, locs, max_misses, window_length)
    BY <2>1, WalkWorks
  <2> HIDE DEF D
  <2> QED BY <2>2, Zenon
<1>3. Walk(bounds, locs, max_misses, window_length) = F[<<1, 1, 0>>]
  BY Zenon DEF Walk, IsWalk, Positions
<1> HIDE DEF F
<1>4. \A d \in D : rank[d] \in Nat
  BY <1>1
<1>5. ASSUME NEW d \in D, \A e \in D : rank[e] < rank[d] => e \in P PROVE d \in P
  <2> SUFFICES ASSUME Ready(bounds, locs, d[1], d[2])
               PROVE  IsWalked(F[d], bounds, locations, max_misses, window_length, d[1], d[3])
    OBVIOUS
  <2>1. PICK i \in 1 .. n + 1, j \in 1 .. m + 1, k \in 0 .. max_misses : d = <<i, j, k>>
    BY <1>1
  <2>2. Ready(bounds, locs, i, j) /\ d[1] = i /\ d[2] = j /\ d[3] = k
    BY <2>1
  <2>3. ASSUME NEW x \in 1 .. n + 1, NEW y \in 1 .. m + 1, NEW z \in 0 .. max_misses,
               (n + 1 - x) + (m + 1 - y) < (n + 1 - i) + (m + 1 - j), Ready(bounds, locs, x, y)
        PROVE  IsWalked(F[<<x, y, z>>], bounds, locations, max_misses, window_length, x, z)
    <3>1. <<x, y, z>> \in D
      BY <1>1
    <3>2. rank[<<x, y, z>>] = (n + 1 - x) + (m + 1 - y) /\ rank[d] = (n + 1 - i) + (m + 1 - j)
      <4> HIDE DEF D
      <4> QED BY <2>2, <3>1
    <3>3. <<x, y, z>> \in P
      <4> HIDE DEF D, rank, P
      <4> QED BY <1>5, <2>3, <3>1, <3>2
    <3> QED BY <2>3, <3>3
  <2> HIDE DEF D, rank, P
  <2>4. ASSUME i <= n, j <= m
        PROVE  /\ Ready(bounds, locs, i, j + 1) =>
                    IsWalked(F[<<i, j + 1, k>>], bounds, locations, max_misses, window_length, i, k)
               /\ Ready(bounds, locs, i + 1, j) =>
                    IsWalked(F[<<i + 1, j, k>>], bounds, locations, max_misses, window_length, i + 1, k)
               /\ k + 1 <= max_misses /\ Ready(bounds, locs, i + 1, j) =>
                    IsWalked(F[<<i + 1, j, k + 1>>], bounds, locations, max_misses, window_length, i + 1, k + 1)
    <3>1. /\ i + 1 \in 1 .. n + 1 /\ j + 1 \in 1 .. m + 1
          /\ (n + 1 - i) + (m + 1 - (j + 1)) < (n + 1 - i) + (m + 1 - j)
          /\ (n + 1 - (i + 1)) + (m + 1 - j) < (n + 1 - i) + (m + 1 - j)
      <4> HIDE DEF n, m
      <4> QED BY <1>1, <2>4
    <3>2. k + 1 <= max_misses => k + 1 \in 0 .. max_misses
      OBVIOUS
    <3> QED BY <2>3, <3>1, <3>2
  <2>5. IsWalked(F[<<i, j, k>>], bounds, locations, max_misses, window_length, i, k)
    <3>1. IsWalk(F, Positions(bounds, locs, max_misses), bounds, locs, max_misses, window_length)
      BY <1>2 DEF D
    <3>2. i \in 1 .. Len(bounds) + 1 /\ j \in 1 .. Len(locs) + 1
      OBVIOUS
    <3> QED BY <2>2, <2>4, <3>1, <3>2, WalkStep
  <2> QED BY <2>1, <2>2, <2>5
<1>6. \A d \in D : d \in P
  <2> HIDE DEF D, P, rank
  <2> QED BY <1>4, <1>5, ByRank
<1>7. <<1, 1, 0>> \in D
  BY <1>1
<1>8. Ready(bounds, locs, 1, 1)
  BY DEF Ready
<1>9. IsWalked(F[<<1, 1, 0>>], bounds, locations, max_misses, window_length, 1, 0)
  <2> DEFINE d == <<1, 1, 0>>
  <2>1. d \in P /\ d[1] = 1 /\ d[2] = 1 /\ d[3] = 0
    BY <1>6, <1>7
  <2> HIDE DEF d
  <2>2. IsWalked(F[d], bounds, locations, max_misses, window_length, d[1], d[3])
    BY <1>8, <2>1
  <2>3. IsWalked(F[d], bounds, locations, max_misses, window_length, 1, 0)
    BY <2>1, <2>2
  <2> QED BY <2>3 DEF d
<1> QED BY <1>3, <1>9
-----------------------------------------------------------------------------
(* The wrap around of the misses.                                          *)
LEMMA MissesAre ==
  ASSUME NEW n \in Nat, NEW min_support \in Nat \ {0}, n <= SizeLimit
  PROVE  /\ (n - min_support) % SizeLimit \in Nat
         /\ n >= min_support => (n - min_support) % SizeLimit = n - min_support
<1> DEFINE a == n - min_support
           s == SizeLimit
<1>1. a \in Int /\ s \in Nat \ {0} /\ (n >= min_support => a \in 0 .. s - 1)
  BY SizeAssumption
<1> HIDE DEF a, s
<1>2. a % s \in 0 .. s - 1
  BY <1>1
<1>3. a \in 0 .. s - 1 => a % s = a
  BY <1>1
<1>4. a % s \in Nat /\ (n >= min_support => a % s = a)
  BY <1>1, <1>2, <1>3
<1> QED BY <1>4 DEF a, s

(* What is refused has too few continuations, the others are all found.    *)
IsExtended(extended, bounds, locations, min_support, window_length) ==
  IF extended = None
    THEN Cardinality(Continues(bounds, locations, window_length, 1)) < min_support
    ELSE \E q : /\ IsAscending(q, Continues(bounds, locations, window_length, 1))
                /\ extended = Continued(bounds, locations, q)

(* What Extend returns: nothing only when too few bounds of the parent     *)
(* continue, or else the continued bounds.                                 *)
LEMMA ExtendIs ==
  ASSUME NEW bounds, NEW locations, NEW window_length, Located(bounds, locations, window_length),
         Len(bounds) <= SizeLimit, NEW min_support \in Nat \ {0}
  PROVE  IsExtended(Extend(bounds, locations, min_support, window_length),
                    bounds, locations, min_support, window_length)
<1> DEFINE n == Len(bounds)
           M == MaxMisses(bounds, min_support)
           C == Continues(bounds, locations, window_length, 1)
           walked == Walk(bounds, Sorted(locations), M, window_length)
           e == Extend(bounds, locations, min_support, window_length)
<1>1. n \in Nat /\ locations \subseteq Nat /\ IsFiniteSet(locations)
  BY DEF Located, IsBoundList
<1>2. M \in Nat /\ (n >= min_support => M = n - min_support)
  BY <1>1, MissesAre DEF MaxMisses
<1>3. IsAscending(Sorted(locations), locations)
  BY <1>1, SortedIs
<1>4. IsWalked(walked, bounds, locations, M, window_length, 1, 0)
  <2> HIDE DEF M
  <2> QED BY <1>2, <1>3, WalkIs
<1>5. Cardinality(C) \in Nat /\ Cardinality(C) <= n
  <2>1. 1 \in 1 .. Len(bounds) + 1
    BY <1>1
  <2>2. Cardinality(C) \in Nat /\ Cardinality(C) <= n + 1 - 1
    BY <2>1, ContinuesAre
  <2> HIDE DEF C, n
  <2> QED BY <1>1, <2>2
<1>6. e = IF walked = None THEN None ELSE IF Len(walked) < min_support THEN None ELSE walked
  BY DEF Extend
<1>7. CASE walked = None
  <2>1. Cardinality(C) + M < 0 + (n + 1 - 1)
    BY <1>4, <1>7 DEF IsWalked
  <2>2. Cardinality(C) < min_support
    <3> HIDE DEF C, n, M
    <3> QED BY <1>1, <1>2, <1>5, <2>1
  <2>3. e = None
    BY <1>6, <1>7
  <2> HIDE DEF e, C
  <2> QED BY <2>2, <2>3 DEF IsExtended, e, C
<1>8. CASE walked # None
  <2>1. PICK q : IsAscending(q, C) /\ walked = Continued(bounds, locations, q)
    BY <1>4, <1>8 DEF IsWalked
  <2>2. Len(walked) = Cardinality(C)
    <3>1. DOMAIN q = 1 .. Cardinality(C)
      BY <2>1 DEF IsAscending
    <3>2. DOMAIN walked = 1 .. Cardinality(C) /\ walked = [x \in 1 .. Cardinality(C) |-> walked[x]]
      <4> HIDE DEF walked, C
      <4> QED BY <2>1, <3>1 DEF Continued
    <3> HIDE DEF walked, C
    <3> DEFINE c == Cardinality(C)
    <3>3. c \in Nat /\ walked = [x \in 1 .. c |-> walked[x]]
      BY <1>5, <3>2
    <3> HIDE DEF c
    <3>4. Len(walked) = c
      BY <3>3
    <3> QED BY <3>4 DEF c
  <2>3. CASE Len(walked) < min_support
    <3>1. e = None
      BY <1>6, <1>8, <2>3
    <3>2. Cardinality(C) < min_support
      BY <2>2, <2>3
    <3> HIDE DEF e, C
    <3> QED BY <3>1, <3>2 DEF IsExtended, e, C
  <2>4. CASE ~(Len(walked) < min_support)
    <3>1. e = walked /\ e # None
      BY <1>6, <1>8, <2>4
    <3> HIDE DEF e, C, walked
    <3> QED BY <2>1, <3>1 DEF IsExtended, e, C
  <2> QED BY <2>3, <2>4
<1> QED BY <1>7, <1>8

(* Continuations are a bound list again.                                   *)
LEMMA FirstAfterIs ==
  ASSUME NEW locations, locations \subseteq Nat, NEW end, NEW t \in locations, t > end
  PROVE  /\ FirstAfter(locations, end) \in locations /\ FirstAfter(locations, end) > end
         /\ \A u \in locations : u > end => FirstAfter(locations, end) <= u
<1> DEFINE A == {u \in locations : u > end}
<1>1. A \subseteq Nat /\ A # {}
  OBVIOUS
<1> HIDE DEF A
<1>2. Min(A) \in A /\ \A u \in A : Min(A) <= u
  BY <1>1, MinIsLeast
<1> QED BY <1>2 DEF A, FirstAfter

(* The bounds of a bound list are numbers.                                 *)
LEMMA BoundsAre ==
  ASSUME NEW bounds, IsBoundList(bounds)
  PROVE  /\ Len(bounds) \in Nat /\ DOMAIN bounds = 1 .. Len(bounds)
         /\ \A x \in DOMAIN bounds : bounds[x].start \in Nat /\ bounds[x].end \in Nat
<1>1. \A x \in DOMAIN bounds : bounds[x] \in Bound
  BY DEF IsBoundList
<1>2. \A c \in Bound : c.end \in Nat /\ c.start \in Nat
  BY DEF Bound
<1> QED BY <1>1, <1>2 DEF IsBoundList

(* The continued bounds are a bound list again: the same starts in the     *)
(* same order, each with the first location after its end.                 *)
LEMMA ContinuedAre ==
  ASSUME NEW bounds, NEW locations, NEW window_length, Located(bounds, locations, window_length),
         NEW q, IsAscending(q, Continues(bounds, locations, window_length, 1))
  PROVE  /\ IsBoundList(Continued(bounds, locations, q))
         /\ DOMAIN Continued(bounds, locations, q) = DOMAIN q
         /\ \A x \in DOMAIN q :
              /\ q[x] \in Continues(bounds, locations, window_length, 1)
              /\ Continued(bounds, locations, q)[x]
                   = [start |-> bounds[q[x]].start, end |-> FirstAfter(locations, bounds[q[x]].end)]
              /\ FirstAfter(locations, bounds[q[x]].end) \in locations
              /\ FirstAfter(locations, bounds[q[x]].end) > bounds[q[x]].end
              /\ \A u \in locations : u > bounds[q[x]].end => FirstAfter(locations, bounds[q[x]].end) <= u
         /\ \A i \in Continues(bounds, locations, window_length, 1) : \E x \in DOMAIN q : q[x] = i
         /\ Len(Continued(bounds, locations, q)) = Cardinality(Continues(bounds, locations, window_length, 1))
<1> DEFINE C == Continues(bounds, locations, window_length, 1)
           c == Cardinality(C)
           r == Continued(bounds, locations, q)
<1>1. IsBoundList(bounds) /\ locations \subseteq Nat
  BY DEF Located
<1>2. /\ Len(bounds) \in Nat /\ DOMAIN bounds = 1 .. Len(bounds)
      /\ \A x \in DOMAIN bounds : bounds[x].start \in Nat /\ bounds[x].end \in Nat
  BY <1>1, BoundsAre
<1>3. c \in Nat /\ C \subseteq DOMAIN bounds /\ C \subseteq Nat /\ IsFiniteSet(C)
  <2>1. 1 \in 1 .. Len(bounds) + 1
    BY <1>2
  <2>2. C \subseteq 1 .. Len(bounds) /\ C \subseteq Nat /\ IsFiniteSet(C) /\ c \in Nat
    BY <2>1, ContinuesAre
  <2> HIDE DEF C
  <2> QED BY <1>2, <2>2
<1>4. q \in [1 .. c -> C] /\ \A x, y \in 1 .. c : x < y => q[x] < q[y]
  BY DEF IsAscending
<1>5. \A i \in C : \E x \in 1 .. c : q[x] = i
  <2>1. q \in Surjection(1 .. c, C)
    <3> HIDE DEF C
    <3> QED BY <1>3, AscendingIsOnto DEF C
  <2> HIDE DEF C
  <2> QED BY <2>1 DEF Surjection
<1>6. \A i \in C : \E t \in locations : t > bounds[i].end
  BY DEF Continues
<1> HIDE DEF C
<1>7. ASSUME NEW i \in C
      PROVE  /\ FirstAfter(locations, bounds[i].end) \in locations
             /\ FirstAfter(locations, bounds[i].end) > bounds[i].end
             /\ \A u \in locations : u > bounds[i].end => FirstAfter(locations, bounds[i].end) <= u
  <2>1. PICK t \in locations : t > bounds[i].end
    BY <1>6
  <2> QED BY <1>1, <2>1, FirstAfterIs
<1> HIDE DEF c
<1>8. DOMAIN q = 1 .. c /\ DOMAIN r = 1 .. c /\ r = [x \in 1 .. c |-> r[x]]
  BY <1>4 DEF Continued
<1>9. \A x \in 1 .. c : r[x] = [start |-> bounds[q[x]].start, end |-> FirstAfter(locations, bounds[q[x]].end)]
  BY <1>4 DEF Continued
<1> HIDE DEF r
<1>10. \A x \in 1 .. c : r[x] \in Bound
  <2> SUFFICES ASSUME NEW x \in 1 .. c PROVE r[x] \in Bound
    OBVIOUS
  <2>1. q[x] \in C
    BY <1>4
  <2>2. bounds[q[x]].start \in Nat
    BY <1>2, <1>3, <2>1
  <2>3. FirstAfter(locations, bounds[q[x]].end) \in Nat
    BY <1>1, <1>7, <2>1
  <2> DEFINE a == bounds[q[x]].start
             b == FirstAfter(locations, bounds[q[x]].end)
  <2>4. r[x] = [start |-> a, end |-> b] /\ a \in Nat /\ b \in Nat
    BY <1>9, <2>2, <2>3
  <2> HIDE DEF a, b
  <2>5. [start |-> a, end |-> b] \in Bound
    BY <2>4 DEF Bound
  <2> QED BY <2>4, <2>5
<1>11. r \in Seq(Bound) /\ Len(r) = c
  BY <1>3, <1>8, <1>10
<1>12. ASSUME NEW x \in 1 .. c, NEW y \in 1 .. c, x < y
       PROVE  r[x].start < r[y].start /\ r[x].end <= r[y].end
  <2>1. q[x] \in C /\ q[y] \in C /\ q[x] < q[y]
    BY <1>4, <1>12
  <2>2. bounds[q[x]].start < bounds[q[y]].start /\ bounds[q[x]].end <= bounds[q[y]].end
    <3>1. q[x] \in DOMAIN bounds /\ q[y] \in DOMAIN bounds
      BY <1>3, <2>1
    <3> QED BY <1>1, <2>1, <3>1 DEF IsBoundList
  <2>3. r[x].start = bounds[q[x]].start /\ r[y].start = bounds[q[y]].start
        /\ r[x].end = FirstAfter(locations, bounds[q[x]].end) /\ r[y].end = FirstAfter(locations, bounds[q[y]].end)
    <3>1. ASSUME NEW z \in 1 .. c
          PROVE  r[z].start = bounds[q[z]].start /\ r[z].end = FirstAfter(locations, bounds[q[z]].end)
      <4> DEFINE a == bounds[q[z]].start
                 b == FirstAfter(locations, bounds[q[z]].end)
      <4>1. r[z] = [start |-> a, end |-> b]
        BY <1>9
      <4> HIDE DEF a, b
      <4>2. r[z].start = a /\ r[z].end = b
        BY <4>1
      <4> QED BY <4>2 DEF a, b
    <3> QED BY <3>1
  <2> DEFINE f == FirstAfter(locations, bounds[q[y]].end)
             g == FirstAfter(locations, bounds[q[x]].end)
             ex == bounds[q[x]].end
             ey == bounds[q[y]].end
  <2>4. f \in locations /\ f > ey /\ \A u \in locations : u > ex => g <= u
    BY <1>7, <2>1
  <2>5. ex \in Nat /\ ey \in Nat /\ ex <= ey
    BY <1>2, <1>3, <2>1, <2>2
  <2> HIDE DEF f, g, ex, ey
  <2>6. f \in Nat
    BY <1>1, <2>4
  <2>7. g <= f
    BY <2>4, <2>5, <2>6
  <2> QED BY <2>2, <2>3, <2>7 DEF f, g
<1>13. IsBoundList(r)
  BY <1>8, <1>11, <1>12 DEF IsBoundList
<1>14. \A x \in 1 .. c : q[x] \in C
  BY <1>4
<1> QED BY <1>5, <1>7, <1>8, <1>9, <1>11, <1>13, <1>14 DEF C, c, r
-----------------------------------------------------------------------------
(* Sequences of blocks over some timestamps.                               *)
AreBlocks(blocks, times) ==
  /\ times \subseteq Nat /\ blocks \in Seq(SUBSET times) /\ Len(blocks) # 0
IsOccurrence(o, blocks, times, window_length) ==
  /\ o \in [1 .. Len(blocks) -> times]
  /\ \A i \in 1 .. Len(blocks) : o[i] \in blocks[i]
  /\ \A i \in 1 .. Len(blocks) - 1 : o[i] < o[i + 1]
  /\ Len(blocks) = 1 \/ o[Len(blocks)] - o[1] < window_length

(* The occurrences of blocks, by what they satisfy.                        *)
LEMMA OccurrencesAre ==
  ASSUME NEW blocks, NEW times, NEW window_length
  PROVE  \A o : o \in Occurrences(blocks, times, window_length)
                  <=> IsOccurrence(o, blocks, times, window_length)
BY DEF Occurrences, IsOccurrence

(* Where they begin and end, for each begin.                               *)
Ends(blocks, times, window_length, start) ==
  {o[Len(blocks)] : o \in {p \in Occurrences(blocks, times, window_length) : p[1] = start}}

(* They go upwards.                                                        *)
LEMMA OccurrencesGoUp ==
  ASSUME NEW blocks, NEW times, AreBlocks(blocks, times), NEW window_length,
         NEW o, IsOccurrence(o, blocks, times, window_length)
  PROVE  /\ Len(blocks) \in Nat \ {0}
         /\ \A i \in 1 .. Len(blocks) : o[i] \in Nat /\ o[1] <= o[i]
<1> DEFINE n == Len(blocks)
           P == {i \in Nat : i + 1 <= n => o[1] <= o[i + 1]}
<1>1. n \in Nat \ {0}
  BY DEF AreBlocks
<1>2. \A i \in 1 .. n : o[i] \in Nat
  BY DEF IsOccurrence, AreBlocks
<1> HIDE DEF n
<1>3. 0 \in P
  BY <1>1, <1>2
<1>4. ASSUME NEW i \in Nat, i \in P PROVE i + 1 \in P
  <2> SUFFICES ASSUME i + 2 <= n PROVE o[1] <= o[i + 2]
    BY <1>1
  <2>1. o[1] <= o[i + 1]
    BY <1>1, <1>4
  <2>2. i + 1 \in 1 .. n - 1 /\ i + 1 \in 1 .. n /\ i + 2 \in 1 .. n /\ 1 \in 1 .. n /\ i + 1 + 1 = i + 2
    BY <1>1
  <2>3. o[i + 1] < o[i + 2]
    BY <2>2 DEF IsOccurrence, n
  <2>4. o[1] \in Nat /\ o[i + 1] \in Nat /\ o[i + 2] \in Nat
    BY <1>2, <2>2
  <2> DEFINE x == o[1]
             y == o[i + 1]
             z == o[i + 2]
  <2>5. x \in Nat /\ y \in Nat /\ z \in Nat /\ x <= y /\ y < z
    BY <2>1, <2>3, <2>4
  <2> HIDE DEF x, y, z
  <2>6. x <= z
    BY <2>5
  <2> QED BY <2>6 DEF x, z
<1>5. \A i \in Nat : i \in P
  <2> HIDE DEF P
  <2> QED BY <1>3, <1>4, CountingUp
<1>6. ASSUME NEW i \in 1 .. n PROVE o[1] <= o[i]
  <2>1. i - 1 \in P /\ i - 1 + 1 = i /\ i <= n
    BY <1>1, <1>5
  <2> QED BY <2>1
<1> QED BY <1>1, <1>2, <1>6 DEF n

(* An occurrence of a longer sequence begins with one of the shorter.      *)
Shortened(o, n) == [i \in 1 .. n |-> o[i]]
Lengthened(o, n, t) == [i \in 1 .. n + 1 |-> IF i <= n THEN o[i] ELSE t]

(* An occurrence of the longer episode, without its last timestamp, is one *)
(* of the episode.                                                         *)
LEMMA OccurrenceShortened ==
  ASSUME NEW blocks, NEW times, AreBlocks(blocks, times), NEW window_length \in Nat,
         NEW ext, ext \subseteq times,
         NEW o, IsOccurrence(o, Append(blocks, ext), times, window_length)
  PROVE  LET n == Len(blocks)
             p == Shortened(o, n) IN
         /\ IsOccurrence(p, blocks, times, window_length)
         /\ n \in Nat \ {0} /\ p[1] = o[1] /\ p[n] = o[n]
         /\ o[n + 1] \in ext /\ o[n + 1] > p[n] /\ o[n + 1] - p[1] < window_length
         /\ o[1] \in Nat /\ o[n] \in Nat /\ o[n + 1] \in Nat
<1> DEFINE n == Len(blocks)
           more == Append(blocks, ext)
           p == Shortened(o, n)
<1>1. /\ n \in Nat \ {0} /\ times \subseteq Nat /\ blocks \in Seq(SUBSET times)
      /\ Len(more) = n + 1 /\ more[n + 1] = ext /\ \A i \in 1 .. n : more[i] = blocks[i]
  BY DEF AreBlocks
<1> HIDE DEF n, more
<1>2. /\ o \in [1 .. n + 1 -> times]
      /\ \A i \in 1 .. n + 1 : o[i] \in more[i]
      /\ \A i \in 1 .. n : o[i] < o[i + 1]
      /\ o[n + 1] - o[1] < window_length
  <2>1. IsOccurrence(o, more, times, window_length)
    BY DEF more
  <2>2. n + 1 # 1 /\ n + 1 - 1 = n
    BY <1>1
  <2> QED BY <1>1, <2>1, <2>2 DEF IsOccurrence
<1>3. \A i \in 1 .. n : i \in 1 .. n + 1 /\ p[i] = o[i]
  BY <1>1 DEF Shortened
<1>4. 1 \in 1 .. n /\ n \in 1 .. n /\ n + 1 \in 1 .. n + 1
  BY <1>1
<1>5. p \in [1 .. n -> times]
  BY <1>2, <1>3 DEF Shortened
<1>6. \A i \in 1 .. n : p[i] \in blocks[i]
  BY <1>1, <1>2, <1>3
<1>7. \A i \in 1 .. n - 1 : p[i] < p[i + 1]
  <2> SUFFICES ASSUME NEW i \in 1 .. n - 1 PROVE p[i] < p[i + 1]
    OBVIOUS
  <2>1. i \in 1 .. n /\ i + 1 \in 1 .. n
    BY <1>1
  <2> QED BY <1>2, <1>3, <2>1
<1>8. o[1] \in Nat /\ o[n] \in Nat /\ o[n + 1] \in Nat /\ o[n] < o[n + 1] /\ o[n + 1] \in ext
  BY <1>1, <1>2, <1>3, <1>4
<1>9. p[1] = o[1] /\ p[n] = o[n]
  BY <1>3, <1>4
<1> HIDE DEF p
<1>10. p[n] - p[1] < window_length
  <2> DEFINE x == o[1]
             y == o[n]
             z == o[n + 1]
  <2>1. x \in Nat /\ y \in Nat /\ z \in Nat /\ y < z /\ z - x < window_length
    BY <1>2, <1>8
  <2> HIDE DEF x, y, z
  <2>2. y - x < window_length
    BY <2>1
  <2> QED BY <1>9, <2>2 DEF x, y
<1>11. IsOccurrence(p, blocks, times, window_length)
  BY <1>5, <1>6, <1>7, <1>10 DEF IsOccurrence, n
<1>12. o[n + 1] > p[n] /\ o[n + 1] - p[1] < window_length
  BY <1>2, <1>8, <1>9
<1> QED BY <1>1, <1>8, <1>9, <1>11, <1>12 DEF n, p

(* A later timestamp of the new block, within the window, makes an         *)
(* occurrence of an episode one of the longer episode.                     *)
LEMMA OccurrenceLengthened ==
  ASSUME NEW blocks, NEW times, AreBlocks(blocks, times), NEW window_length \in Nat,
         NEW ext, ext \subseteq times,
         NEW p, IsOccurrence(p, blocks, times, window_length),
         NEW t \in ext, t > p[Len(blocks)], t - p[1] < window_length
  PROVE  LET n == Len(blocks)
             o == Lengthened(p, n, t) IN
         /\ IsOccurrence(o, Append(blocks, ext), times, window_length)
         /\ o[1] = p[1] /\ o[n + 1] = t /\ Len(Append(blocks, ext)) = n + 1
<1> DEFINE n == Len(blocks)
           more == Append(blocks, ext)
           o == Lengthened(p, n, t)
<1>1. /\ n \in Nat \ {0} /\ times \subseteq Nat /\ blocks \in Seq(SUBSET times)
      /\ Len(more) = n + 1 /\ more[n + 1] = ext /\ \A i \in 1 .. n : more[i] = blocks[i]
  BY DEF AreBlocks
<1>2. /\ p \in [1 .. n -> times]
      /\ \A i \in 1 .. n : p[i] \in blocks[i]
      /\ \A i \in 1 .. n - 1 : p[i] < p[i + 1]
  BY DEF IsOccurrence
<1>3. t > p[n]
  OBVIOUS
<1> HIDE DEF n, more
<1>4. o[n + 1] = t /\ (\A i \in 1 .. n : o[i] = p[i]) /\ DOMAIN o = 1 .. n + 1
  <2>1. n + 1 \in 1 .. n + 1 /\ ~(n + 1 <= n) /\ \A i \in 1 .. n : i \in 1 .. n + 1 /\ i <= n
    BY <1>1
  <2> QED BY <2>1 DEF Lengthened
<1>5. \A i \in 1 .. n + 1 : i \in 1 .. n \/ i = n + 1
  BY <1>1
<1>6. o \in [1 .. n + 1 -> times]
  <2>1. \A i \in 1 .. n + 1 : o[i] \in times
    BY <1>2, <1>4, <1>5
  <2>2. o = [i \in 1 .. n + 1 |-> o[i]]
    BY DEF Lengthened
  <2> HIDE DEF o
  <2> QED BY <2>1, <2>2
<1> HIDE DEF o
<1>7. \A i \in 1 .. n + 1 : o[i] \in more[i]
  BY <1>1, <1>2, <1>4, <1>5
<1>8. \A i \in 1 .. n : o[i] < o[i + 1]
  <2> SUFFICES ASSUME NEW i \in 1 .. n PROVE o[i] < o[i + 1]
    OBVIOUS
  <2>1. CASE i = n
    <3>1. p[n] \in Nat /\ t \in Nat /\ t > p[n]
      <4>1. n \in 1 .. n
        BY <1>1
      <4>2. p[n] \in times /\ t \in times
        BY <1>2, <4>1
      <4> QED BY <1>1, <1>3, <4>2
    <3>2. o[i] = p[n] /\ o[i + 1] = t
      BY <1>4, <2>1
    <3> QED BY <3>1, <3>2
  <2>2. CASE i # n
    <3>1. i \in 1 .. n - 1 /\ i + 1 \in 1 .. n
      BY <1>1, <2>2
    <3> QED BY <1>2, <1>4, <3>1
  <2> QED BY <2>1, <2>2
<1>9. o[1] = p[1]
  BY <1>1, <1>4
<1>10. IsOccurrence(o, more, times, window_length)
  <2>1. n + 1 - 1 = n /\ o[n + 1] - o[1] < window_length
    BY <1>1, <1>4, <1>9
  <2> QED BY <1>1, <1>6, <1>7, <1>8, <2>1 DEF IsOccurrence
<1> QED BY <1>1, <1>4, <1>9, <1>10 DEF n, more, o
-----------------------------------------------------------------------------
(* A bound list holds the starts of a sequence, each with its first end.   *)
Represents(bounds, blocks, times, window_length) ==
  /\ IsBoundList(bounds)
  /\ \A s : s \in Starts(blocks, times, window_length)
              <=> \E i \in DOMAIN bounds : bounds[i].start = s
  /\ \A i \in DOMAIN bounds :
       /\ bounds[i].end \in Ends(blocks, times, window_length, bounds[i].start)
       /\ \A e \in Ends(blocks, times, window_length, bounds[i].start) : bounds[i].end <= e

(* In terms of occurrences.                                                *)
LEMMA RepresentedAre ==
  ASSUME NEW bounds, NEW blocks, NEW times, NEW window_length
  PROVE  Represents(bounds, blocks, times, window_length) <=>
           /\ IsBoundList(bounds)
           /\ \A o : IsOccurrence(o, blocks, times, window_length) =>
                \E i \in DOMAIN bounds : bounds[i].start = o[1]
           /\ \A i \in DOMAIN bounds :
                /\ \E o : /\ IsOccurrence(o, blocks, times, window_length)
                          /\ o[1] = bounds[i].start /\ o[Len(blocks)] = bounds[i].end
                /\ \A o : IsOccurrence(o, blocks, times, window_length) /\ o[1] = bounds[i].start
                            => bounds[i].end <= o[Len(blocks)]
<1>1. \A o : o \in Occurrences(blocks, times, window_length)
               <=> IsOccurrence(o, blocks, times, window_length)
  BY OccurrencesAre
<1>2. \A s : s \in Starts(blocks, times, window_length)
               <=> \E o : IsOccurrence(o, blocks, times, window_length) /\ o[1] = s
  BY <1>1 DEF Starts
<1>3. \A s, e : e \in Ends(blocks, times, window_length, s)
               <=> \E o : IsOccurrence(o, blocks, times, window_length) /\ o[1] = s /\ o[Len(blocks)] = e
  BY <1>1 DEF Ends
<1>4. ASSUME Represents(bounds, blocks, times, window_length)
      PROVE  /\ IsBoundList(bounds)
             /\ \A o : IsOccurrence(o, blocks, times, window_length) =>
                  \E i \in DOMAIN bounds : bounds[i].start = o[1]
             /\ \A i \in DOMAIN bounds :
                  /\ \E o : /\ IsOccurrence(o, blocks, times, window_length)
                            /\ o[1] = bounds[i].start /\ o[Len(blocks)] = bounds[i].end
                  /\ \A o : IsOccurrence(o, blocks, times, window_length) /\ o[1] = bounds[i].start
                              => bounds[i].end <= o[Len(blocks)]
  <2>1. IsBoundList(bounds)
    BY <1>4 DEF Represents
  <2>2. ASSUME NEW o, IsOccurrence(o, blocks, times, window_length)
        PROVE  \E i \in DOMAIN bounds : bounds[i].start = o[1]
    <3>1. o[1] \in Starts(blocks, times, window_length)
      BY <1>2, <2>2
    <3> QED BY <1>4, <3>1 DEF Represents
  <2>3. ASSUME NEW i \in DOMAIN bounds
        PROVE  /\ bounds[i].end \in Ends(blocks, times, window_length, bounds[i].start)
               /\ \A e \in Ends(blocks, times, window_length, bounds[i].start) : bounds[i].end <= e
    BY <1>4 DEF Represents
  <2>4. ASSUME NEW i \in DOMAIN bounds
        PROVE  /\ \E o : /\ IsOccurrence(o, blocks, times, window_length)
                         /\ o[1] = bounds[i].start /\ o[Len(blocks)] = bounds[i].end
               /\ \A o : IsOccurrence(o, blocks, times, window_length) /\ o[1] = bounds[i].start
                           => bounds[i].end <= o[Len(blocks)]
    BY <1>3, <2>3
  <2> QED BY <2>1, <2>2, <2>4
<1>5. ASSUME /\ IsBoundList(bounds)
             /\ \A o : IsOccurrence(o, blocks, times, window_length) =>
                  \E i \in DOMAIN bounds : bounds[i].start = o[1]
             /\ \A i \in DOMAIN bounds :
                  /\ \E o : /\ IsOccurrence(o, blocks, times, window_length)
                            /\ o[1] = bounds[i].start /\ o[Len(blocks)] = bounds[i].end
                  /\ \A o : IsOccurrence(o, blocks, times, window_length) /\ o[1] = bounds[i].start
                              => bounds[i].end <= o[Len(blocks)]
      PROVE  Represents(bounds, blocks, times, window_length)
  <2>1. \A s : s \in Starts(blocks, times, window_length)
              <=> \E i \in DOMAIN bounds : bounds[i].start = s
    BY <1>2, <1>5
  <2>2. ASSUME NEW i \in DOMAIN bounds
        PROVE  /\ bounds[i].end \in Ends(blocks, times, window_length, bounds[i].start)
               /\ \A e \in Ends(blocks, times, window_length, bounds[i].start) : bounds[i].end <= e
    BY <1>3, <1>5
  <2> QED BY <1>5, <2>1, <2>2 DEF Represents
<1> QED BY <1>4, <1>5

(* A single block.                                                         *)
LEMMA SeedIsRepresented ==
  ASSUME NEW times, times \subseteq Nat, NEW locations, locations \subseteq times,
         IsFiniteSet(locations), NEW window_length
  PROVE  Represents(BoundListOf(locations), <<locations>>, times, window_length)
<1> DEFINE S == Sorted(locations)
           n == Cardinality(locations)
           b == BoundListOf(locations)
<1>1. locations \subseteq Nat /\ n \in Nat
  BY FS_CardinalityType
<1>2. S \in [1 .. n -> locations] /\ \A i, j \in 1 .. n : i < j => S[i] < S[j]
  <2>1. IsAscending(S, locations)
    BY <1>1, SortedIs
  <2> QED BY <2>1 DEF IsAscending
<1>3. \A t \in locations : \E i \in 1 .. n : S[i] = t
  <2>1. IsAscending(S, locations)
    BY <1>1, SortedIs
  <2>2. S \in Surjection(1 .. n, locations)
    BY <1>1, <2>1, AscendingIsOnto
  <2> QED BY <2>2 DEF Surjection
<1>4. b = [i \in 1 .. n |-> [start |-> S[i], end |-> S[i]]]
  BY DEF BoundListOf
<1> HIDE DEF S, n, b
<1>5. DOMAIN b = 1 .. n /\ \A i \in 1 .. n : b[i].start = S[i] /\ b[i].end = S[i]
  BY <1>4
<1>6. IsBoundList(b)
  <2>1. \A i \in 1 .. n : b[i] \in Bound
    <3> SUFFICES ASSUME NEW i \in 1 .. n PROVE b[i] \in Bound
      OBVIOUS
    <3>1. S[i] \in Nat
      BY <1>1, <1>2
    <3> QED BY <1>4, <3>1 DEF Bound
  <2>2. b \in [1 .. n -> Bound]
    BY <1>4, <2>1
  <2>3. b \in Seq(Bound)
    BY <1>1, <2>2
  <2>4. ASSUME NEW i \in 1 .. n, NEW j \in 1 .. n, i < j
        PROVE  b[i].start < b[j].start /\ b[i].end <= b[j].end
    <3>1. S[i] < S[j] /\ S[i] \in Nat /\ S[j] \in Nat
      BY <1>1, <1>2, <2>4
    <3> QED BY <1>5, <3>1
  <2> QED BY <1>5, <2>3, <2>4 DEF IsBoundList
<1>7. \A o : IsOccurrence(o, <<locations>>, times, window_length)
               <=> o \in [1 .. 1 -> times] /\ o[1] \in locations
  <2>1. Len(<<locations>>) = 1 /\ <<locations>>[1] = locations /\ 1 - 1 = 0
    OBVIOUS
  <2>2. \A i : i \in 1 .. 1 <=> i = 1
    OBVIOUS
  <2>3. 1 .. 0 = {}
    OBVIOUS
  <2> QED BY <2>1, <2>2, <2>3 DEF IsOccurrence
<1>8. ASSUME NEW o, IsOccurrence(o, <<locations>>, times, window_length)
      PROVE  \E i \in DOMAIN b : b[i].start = o[1]
  <2>1. o[1] \in locations
    BY <1>7, <1>8
  <2>2. PICK k \in 1 .. n : S[k] = o[1]
    BY <1>3, <2>1
  <2>3. k \in DOMAIN b /\ b[k].start = o[1]
    BY <1>5, <2>2
  <2> QED BY <2>3
<1>9. ASSUME NEW i \in DOMAIN b
      PROVE  /\ \E o : /\ IsOccurrence(o, <<locations>>, times, window_length)
                       /\ o[1] = b[i].start /\ o[1] = b[i].end
             /\ \A o : IsOccurrence(o, <<locations>>, times, window_length) /\ o[1] = b[i].start
                         => b[i].end <= o[1]
  <2>1. S[i] \in locations /\ S[i] \in times /\ S[i] \in Nat
    BY <1>1, <1>2, <1>5
  <2> DEFINE o == [k \in 1 .. 1 |-> S[i]]
  <2>2. o \in [1 .. 1 -> times] /\ o[1] = S[i]
    BY <2>1
  <2> HIDE DEF o
  <2>3. IsOccurrence(o, <<locations>>, times, window_length)
    BY <1>7, <2>1, <2>2
  <2>4. b[i].start = S[i] /\ b[i].end = S[i]
    BY <1>5
  <2>5. \A w : w[1] = b[i].start => b[i].end <= w[1]
    BY <2>1, <2>4
  <2> QED BY <2>2, <2>3, <2>4, <2>5
<1>10. Len(<<locations>>) = 1
  OBVIOUS
<1>11. Represents(b, <<locations>>, times, window_length)
  BY <1>6, <1>8, <1>9, <1>10, RepresentedAre
<1> QED BY <1>11 DEF b

(* An extension.                                                           *)
LEMMA ExtensionIsRepresented ==
  ASSUME NEW blocks, NEW times, AreBlocks(blocks, times), NEW window_length \in Nat,
         NEW ext, ext \subseteq times, IsFiniteSet(ext),
         NEW bounds, Represents(bounds, blocks, times, window_length),
         NEW q, IsAscending(q, Continues(bounds, ext, window_length, 1))
  PROVE  Represents(Continued(bounds, ext, q), Append(blocks, ext), times, window_length)
<1> DEFINE C == Continues(bounds, ext, window_length, 1)
           r == Continued(bounds, ext, q)
           n == Len(blocks)
           more == Append(blocks, ext)
           first(i) == FirstAfter(ext, bounds[i].end)
<1>1. /\ n \in Nat \ {0} /\ times \subseteq Nat /\ ext \subseteq Nat /\ Len(more) = n + 1
  BY DEF AreBlocks
<1>2. /\ IsBoundList(bounds)
      /\ \A o : IsOccurrence(o, blocks, times, window_length) =>
           \E i \in DOMAIN bounds : bounds[i].start = o[1]
      /\ \A i \in DOMAIN bounds :
           /\ \E o : /\ IsOccurrence(o, blocks, times, window_length)
                     /\ o[1] = bounds[i].start /\ o[n] = bounds[i].end
           /\ \A o : IsOccurrence(o, blocks, times, window_length) /\ o[1] = bounds[i].start
                       => bounds[i].end <= o[n]
  BY RepresentedAre
<1>3. Located(bounds, ext, window_length)
  BY <1>1, <1>2 DEF Located
<1>4. /\ IsBoundList(r) /\ DOMAIN r = DOMAIN q
      /\ \A x \in DOMAIN q :
           /\ q[x] \in C
           /\ r[x] = [start |-> bounds[q[x]].start, end |-> first(q[x])]
           /\ first(q[x]) \in ext
           /\ first(q[x]) > bounds[q[x]].end
           /\ \A u \in ext : u > bounds[q[x]].end => first(q[x]) <= u
      /\ \A i \in C : \E x \in DOMAIN q : q[x] = i
  BY <1>3, ContinuedAre
<1>5. /\ DOMAIN bounds = 1 .. Len(bounds)
      /\ \A x \in DOMAIN bounds : bounds[x].start \in Nat /\ bounds[x].end \in Nat
  BY <1>2, BoundsAre
<1>6. \A i : i \in C <=> /\ i \in DOMAIN bounds /\ \E t \in ext : t > bounds[i].end /\ t - bounds[i].start < window_length
  BY <1>5 DEF Continues
<1> HIDE DEF C, r, n, more
<1>7. ASSUME NEW x \in DOMAIN q PROVE r[x].start = bounds[q[x]].start /\ r[x].end = first(q[x])
  <2> DEFINE a == bounds[q[x]].start
             b == first(q[x])
  <2>1. r[x] = [start |-> a, end |-> b]
    BY <1>4
  <2> HIDE DEF a, b
  <2>2. r[x].start = a /\ r[x].end = b
    BY <2>1
  <2> QED BY <2>2 DEF a, b
<1> HIDE DEF first
<1>8. ASSUME NEW o, IsOccurrence(o, more, times, window_length)
      PROVE  /\ \E i \in C : bounds[i].start = o[1]
             /\ \A i \in DOMAIN bounds : bounds[i].start = o[1] =>
                  o[n + 1] \in ext /\ o[n + 1] > bounds[i].end
  <2> DEFINE p == Shortened(o, n)
  <2>1. /\ IsOccurrence(p, blocks, times, window_length)
        /\ p[1] = o[1] /\ p[n] = o[n]
        /\ o[n + 1] \in ext /\ o[n + 1] > p[n] /\ o[n + 1] - p[1] < window_length
        /\ o[1] \in Nat /\ o[n] \in Nat /\ o[n + 1] \in Nat
    <3>1. IsOccurrence(o, Append(blocks, ext), times, window_length)
      BY <1>8 DEF more
    <3> QED BY <3>1, OccurrenceShortened DEF n
  <2> HIDE DEF p
  <2>2. \A i \in DOMAIN bounds : bounds[i].start = o[1] => bounds[i].end <= o[n] /\ bounds[i].end \in Nat
    BY <1>2, <1>5, <2>1
  <2>3. ASSUME NEW i \in DOMAIN bounds, bounds[i].start = o[1]
        PROVE  o[n + 1] > bounds[i].end /\ o[n + 1] - bounds[i].start < window_length
    <3> DEFINE x == bounds[i].end
               y == o[n]
               z == o[n + 1]
    <3>1. x \in Nat /\ y \in Nat /\ z \in Nat /\ x <= y /\ z > y
      BY <2>1, <2>2, <2>3
    <3>2. z - bounds[i].start < window_length
      BY <2>1, <2>3
    <3> HIDE DEF x, y, z
    <3>3. z > x
      BY <3>1
    <3> QED BY <3>2, <3>3 DEF x, z
  <2>4. PICK i \in DOMAIN bounds : bounds[i].start = p[1]
    BY <1>2, <2>1
  <2>5. i \in C
    <3>1. o[n + 1] \in ext /\ o[n + 1] > bounds[i].end /\ o[n + 1] - bounds[i].start < window_length
      BY <2>1, <2>3, <2>4
    <3> QED BY <1>6, <3>1
  <2> QED BY <2>1, <2>3, <2>4, <2>5
<1>9. ASSUME NEW o, IsOccurrence(o, more, times, window_length)
      PROVE  \E x \in DOMAIN r : r[x].start = o[1]
  <2>1. PICK i \in C : bounds[i].start = o[1]
    BY <1>8, <1>9
  <2>2. PICK x \in DOMAIN q : q[x] = i
    BY <1>4
  <2> QED BY <1>4, <1>7, <2>1, <2>2
<1>10. ASSUME NEW x \in DOMAIN r
       PROVE  /\ \E o : /\ IsOccurrence(o, more, times, window_length)
                        /\ o[1] = r[x].start /\ o[n + 1] = r[x].end
              /\ \A o : IsOccurrence(o, more, times, window_length) /\ o[1] = r[x].start
                          => r[x].end <= o[n + 1]
  <2> DEFINE i == q[x]
             t == first(i)
  <2>1. /\ x \in DOMAIN q /\ i \in C /\ t \in ext /\ t > bounds[i].end
        /\ \A u \in ext : u > bounds[i].end => t <= u
    BY <1>4
  <2>2. r[x].start = bounds[i].start /\ r[x].end = t
    BY <1>7, <2>1
  <2> HIDE DEF i, t
  <2>3. i \in DOMAIN bounds /\ \E u \in ext : u > bounds[i].end /\ u - bounds[i].start < window_length
    BY <1>6, <2>1
  <2>4. t - bounds[i].start < window_length
    <3>1. PICK u \in ext : u > bounds[i].end /\ u - bounds[i].start < window_length
      BY <2>3
    <3> DEFINE s == bounds[i].start
    <3>2. t \in Nat /\ u \in Nat /\ s \in Nat /\ t <= u /\ u - s < window_length
      BY <1>1, <1>5, <2>1, <2>3, <3>1
    <3> HIDE DEF s
    <3>3. t - s < window_length
      BY <3>2
    <3> QED BY <3>3 DEF s
  <2>5. PICK p : /\ IsOccurrence(p, blocks, times, window_length)
                 /\ p[1] = bounds[i].start /\ p[n] = bounds[i].end
    BY <1>2, <2>3
  <2> DEFINE o == Lengthened(p, n, t)
  <2>6. IsOccurrence(o, more, times, window_length) /\ o[1] = p[1] /\ o[n + 1] = t
    <3>1. t > p[Len(blocks)] /\ t - p[1] < window_length
      BY <2>1, <2>4, <2>5 DEF n
    <3> QED BY <2>1, <2>5, <3>1, OccurrenceLengthened DEF n, more
  <2>7. ASSUME NEW w, IsOccurrence(w, more, times, window_length), w[1] = r[x].start
        PROVE  r[x].end <= w[n + 1]
    <3>1. w[n + 1] \in ext /\ w[n + 1] > bounds[i].end
      BY <1>8, <2>2, <2>3, <2>7
    <3> QED BY <2>1, <2>2, <3>1
  <2> HIDE DEF o
  <2> QED BY <2>2, <2>5, <2>6, <2>7
<1>11. Represents(r, more, times, window_length)
  BY <1>1, <1>4, <1>9, <1>10, RepresentedAre
<1> QED BY <1>11 DEF r, more
-----------------------------------------------------------------------------
(* What represents a sequence is the list of its starts, in order, each    *)
(* with its first end.                                                     *)
LEMMA RepresentedIsRight ==
  ASSUME NEW blocks, NEW times, AreBlocks(blocks, times), IsFiniteSet(times),
         NEW window_length, NEW bounds, Represents(bounds, blocks, times, window_length)
  PROVE  LET S == Starts(blocks, times, window_length)
             ends(s) == Ends(blocks, times, window_length, s) IN
         /\ S \subseteq times /\ IsFiniteSet(S) /\ Len(bounds) = Cardinality(S)
         /\ bounds = [i \in 1 .. Len(Sorted(S)) |-> [start |-> Sorted(S)[i], end |-> Min(ends(Sorted(S)[i]))]]
<1> DEFINE S == Starts(blocks, times, window_length)
           ends(s) == Ends(blocks, times, window_length, s)
           n == Len(bounds)
           q == [i \in 1 .. n |-> bounds[i].start]
<1>1. IsBoundList(bounds) /\ times \subseteq Nat
  BY DEF Represents, AreBlocks
<1>2. /\ n \in Nat /\ DOMAIN bounds = 1 .. n
      /\ \A x \in DOMAIN bounds : bounds[x].start \in Nat /\ bounds[x].end \in Nat
  BY <1>1, BoundsAre
<1>3. S \subseteq times
  <2>1. \A o : o \in Occurrences(blocks, times, window_length) => o[1] \in times
    <3>1. \A o : o \in Occurrences(blocks, times, window_length) => o \in [1 .. Len(blocks) -> times]
      BY DEF Occurrences
    <3>2. 1 \in 1 .. Len(blocks)
      BY DEF AreBlocks
    <3> QED BY <3>1, <3>2
  <2> QED BY <2>1 DEF Starts
<1>4. IsFiniteSet(S) /\ S \subseteq Nat
  BY <1>1, <1>3, FS_Subset
<1>5. \A s : s \in S <=> \E i \in 1 .. n : bounds[i].start = s
  BY <1>2 DEF Represents
<1>6. ASSUME NEW i \in 1 .. n PROVE bounds[i].end \in ends(bounds[i].start) /\ \A e \in ends(bounds[i].start) : bounds[i].end <= e
  BY <1>2 DEF Represents
<1>7. \A i, j \in 1 .. n : i < j => bounds[i].start < bounds[j].start
  BY <1>1, <1>2 DEF IsBoundList
<1>8. ASSUME NEW s PROVE ends(s) \subseteq Nat
  <2>1. ASSUME NEW o, o \in Occurrences(blocks, times, window_length) PROVE o[Len(blocks)] \in times
    <3>1. o \in [1 .. Len(blocks) -> times]
      BY <2>1 DEF Occurrences
    <3>2. Len(blocks) \in 1 .. Len(blocks)
      BY DEF AreBlocks
    <3> QED BY <3>1, <3>2
  <2> QED BY <1>1, <2>1 DEF Ends
<1> HIDE DEF S, ends, n
<1>9. q \in [1 .. n -> S] /\ (\A i, j \in 1 .. n : i < j => q[i] < q[j]) /\ \A s \in S : \E i \in 1 .. n : q[i] = s
  BY <1>5, <1>7
<1>10. Cardinality(S) = n
  <2>1. \A i, j \in 1 .. n : q[i] = q[j] => i = j
    <3> SUFFICES ASSUME NEW i \in 1 .. n, NEW j \in 1 .. n, q[i] = q[j], i # j PROVE FALSE
      OBVIOUS
    <3>1. q[i] \in Nat /\ q[j] \in Nat /\ (i < j \/ j < i)
      BY <1>2, <1>4, <1>9
    <3> HIDE DEF q
    <3> QED BY <1>9, <3>1
  <2> HIDE DEF q
  <2>2. q \in Bijection(1 .. n, S)
    BY <1>9, <2>1 DEF Bijection, Injection, IsInjective, Surjection
  <2>3. ExistsBijection(1 .. n, S)
    BY <2>2 DEF ExistsBijection
  <2> QED BY <1>2, <2>3, FS_CountingElements
<1>11. IsAscending(q, S)
  <2> HIDE DEF q
  <2> QED BY <1>9, <1>10 DEF IsAscending
<1>12. Sorted(S) = q
  <2> HIDE DEF q
  <2> QED BY <1>4, <1>11, SortedIs
<1>13. Len(Sorted(S)) = n
  <2>1. DOMAIN q = 1 .. n /\ q \in [1 .. n -> S]
    BY <1>9
  <2> HIDE DEF q
  <2>2. Len(q) = n
    BY <1>2, <2>1
  <2> QED BY <1>12, <2>2
<1>14. ASSUME NEW i \in 1 .. n
       PROVE  bounds[i] = [start |-> q[i], end |-> Min(ends(q[i]))]
  <2>1. q[i] = bounds[i].start
    OBVIOUS
  <2> HIDE DEF q
  <2> DEFINE E == ends(q[i])
  <2>2. E \subseteq Nat /\ bounds[i].end \in E /\ \A e \in E : bounds[i].end <= e
    BY <1>6, <1>8, <2>1
  <2> HIDE DEF E
  <2>3. Min(E) \in E /\ \A e \in E : Min(E) <= e
    BY <2>2, MinIsLeast
  <2>4. Min(E) = bounds[i].end
    <3> DEFINE x == Min(E)
               y == bounds[i].end
    <3>1. x \in Nat /\ y \in Nat /\ x <= y /\ y <= x
      BY <2>2, <2>3
    <3> HIDE DEF x, y
    <3>2. x = y
      BY <3>1
    <3> QED BY <3>2 DEF x, y
  <2>5. bounds[i] \in Bound
    BY <1>1, <1>2 DEF IsBoundList
  <2>6. bounds[i] = [start |-> bounds[i].start, end |-> bounds[i].end]
    <3> DEFINE b == bounds[i]
    <3>1. b \in Bound
      BY <2>5
    <3> HIDE DEF b
    <3>2. b = [start |-> b.start, end |-> b.end]
      BY <3>1 DEF Bound
    <3> QED BY <3>2 DEF b
  <2> QED BY <2>1, <2>4, <2>6 DEF E
<1>15. bounds = [i \in 1 .. n |-> [start |-> q[i], end |-> Min(ends(q[i]))]]
  <2>1. bounds = [i \in 1 .. n |-> bounds[i]]
    <3>1. bounds \in Seq(Bound)
      BY <1>1 DEF IsBoundList
    <3> QED BY <1>2, <3>1
  <2> HIDE DEF q
  <2> QED BY <1>14, <2>1
<1>16. bounds = [i \in 1 .. Len(Sorted(S)) |-> [start |-> Sorted(S)[i], end |-> Min(ends(Sorted(S)[i]))]]
  <2> HIDE DEF q
  <2> QED BY <1>12, <1>13, <1>15
<1> QED BY <1>3, <1>4, <1>10, <1>16 DEF S, ends, n

(* Extend, in terms of the sequences represented: the continuations are    *)
(* the starts of the extended sequence.                                    *)
IsExtension(extended, blocks, ext, times, min_support, window_length) ==
  IF extended = None
    THEN Cardinality(Starts(Append(blocks, ext), times, window_length)) < min_support
    ELSE Represents(extended, Append(blocks, ext), times, window_length)

(* TryExtend, for any episode whose bound list is right: the new bound     *)
(* list is right, and what is refused has too little support.              *)
LEMMA ExtendIsRight ==
  ASSUME NEW blocks, NEW times, AreBlocks(blocks, times), IsFiniteSet(times),
         Cardinality(times) <= SizeLimit,
         NEW window_length \in Nat, NEW bounds, Represents(bounds, blocks, times, window_length),
         NEW ext, ext \subseteq times, NEW min_support \in Nat \ {0}
  PROVE  IsExtension(Extend(bounds, ext, min_support, window_length),
                     blocks, ext, times, min_support, window_length)
<1> DEFINE C == Continues(bounds, ext, window_length, 1)
           S == Starts(blocks, times, window_length)
           more == Append(blocks, ext)
           e == Extend(bounds, ext, min_support, window_length)
<1>1. IsBoundList(bounds) /\ IsFiniteSet(ext) /\ ext \subseteq Nat
  BY FS_Subset DEF Represents, AreBlocks
<1>2. Located(bounds, ext, window_length)
  BY <1>1 DEF Located
<1>3. Len(bounds) <= SizeLimit
  <2>1. S \subseteq times /\ Len(bounds) = Cardinality(S)
    BY RepresentedIsRight
  <2> HIDE DEF S
  <2>2. Cardinality(S) <= Cardinality(times) /\ IsFiniteSet(S)
    BY <2>1, FS_Subset
  <2>3. Cardinality(S) \in Nat /\ Cardinality(times) \in Nat /\ SizeLimit \in Nat
    BY <2>2, FS_CardinalityType, SizeAssumption
  <2> DEFINE x == Cardinality(S)
             y == Cardinality(times)
             z == SizeLimit
  <2>4. x \in Nat /\ y \in Nat /\ z \in Nat /\ x <= y /\ y <= z
    BY <2>2, <2>3
  <2> HIDE DEF x, y, z
  <2>5. x <= z
    BY <2>4
  <2> QED BY <2>1, <2>5 DEF x, z
<1>4. IsExtended(e, bounds, ext, min_support, window_length)
  BY <1>2, <1>3, ExtendIs
<1>5. AreBlocks(more, times)
  BY DEF AreBlocks
<1>6. C \subseteq Nat /\ IsFiniteSet(C)
  <2>1. 1 \in 1 .. Len(bounds) + 1
    BY <1>1, BoundsAre
  <2> QED BY <1>2, <2>1, ContinuesAre
<1>7. ASSUME NEW q, IsAscending(q, C)
      PROVE  /\ Represents(Continued(bounds, ext, q), more, times, window_length)
             /\ Cardinality(Starts(more, times, window_length)) = Cardinality(C)
  <2>1. Represents(Continued(bounds, ext, q), more, times, window_length)
    BY <1>1, <1>7, ExtensionIsRepresented
  <2> HIDE DEF more
  <2>2. Len(Continued(bounds, ext, q)) = Cardinality(Starts(more, times, window_length))
    BY <1>5, <2>1, RepresentedIsRight
  <2>3. Len(Continued(bounds, ext, q)) = Cardinality(C)
    BY <1>2, <1>7, ContinuedAre
  <2> QED BY <2>1, <2>2, <2>3
<1> HIDE DEF e, more, C
<1>8. CASE e = None
  <2>1. Cardinality(C) < min_support
    BY <1>4, <1>8 DEF IsExtended, C
  <2>2. PICK q : IsAscending(q, C)
    BY <1>6, AscendingExists
  <2>3. Cardinality(Starts(more, times, window_length)) < min_support
    BY <1>7, <2>1, <2>2
  <2> QED BY <1>8, <2>3 DEF IsExtension, e, more
<1>9. CASE e # None
  <2>1. PICK q : IsAscending(q, C) /\ e = Continued(bounds, ext, q)
    BY <1>4, <1>9 DEF IsExtended, C
  <2>2. Represents(e, more, times, window_length)
    BY <1>7, <2>1
  <2> QED BY <1>9, <2>2 DEF IsExtension, e, more
<1> QED BY <1>8, <1>9
-----------------------------------------------------------------------------
(* The inductive invariant of an episode that grows.                       *)
EpisodeInv ==
  /\ AreBlocks(sequence_, 1 .. Times)
  /\ Represents(bound_list_, sequence_, 1 .. Times, WindowLength)
  /\ RefusalIsRight

(* The timestamps are no more than a size can count.                       *)
LEMMA TimesAre ==
  1 .. Times \subseteq Nat /\ IsFiniteSet(1 .. Times) /\ Cardinality(1 .. Times) <= SizeLimit
<1>1. Times \in Nat /\ Times <= SizeLimit
  BY EpisodeAssumption
<1>2. IsFiniteSet(1 .. Times) /\ Cardinality(1 .. Times) = Times
  BY <1>1, FS_Interval
<1> QED BY <1>1, <1>2

(* An episode of one block has a bound list that is right.                 *)
LEMMA EpisodeInvInit == EpisodeInit => EpisodeInv
<1> SUFFICES ASSUME EpisodeInit PROVE EpisodeInv
  OBVIOUS
<1>1. PICK locations \in LocationLists :
        sequence_ = <<locations>> /\ bound_list_ = BoundListOf(locations) /\ refused = None
  BY DEF EpisodeInit
<1>2. locations \subseteq 1 .. Times /\ IsFiniteSet(locations)
  BY TimesAre, FS_Subset DEF LocationLists
<1>3. Represents(bound_list_, sequence_, 1 .. Times, WindowLength)
  BY <1>1, <1>2, TimesAre, SeedIsRepresented
<1>4. AreBlocks(sequence_, 1 .. Times)
  BY <1>1, <1>2, TimesAre DEF AreBlocks
<1> QED BY <1>1, <1>3, <1>4 DEF EpisodeInv, RefusalIsRight

(* TryExtend keeps the invariant, whatever the minimal support.            *)
LEMMA EpisodeInvNext == EpisodeInv /\ [EpisodeNext]_episodeVars => EpisodeInv'
<1>1. ASSUME EpisodeInv, UNCHANGED episodeVars PROVE EpisodeInv'
  BY <1>1 DEF EpisodeInv, episodeVars, RefusalIsRight, AllStarts
<1>2. ASSUME EpisodeInv, NEW ext \in LocationLists, NEW min_support \in 1 .. Times + 1,
             TryExtend(ext, min_support)
      PROVE  EpisodeInv'
  <2> DEFINE new_bound == Extend(bound_list_, ext, min_support, WindowLength)
             more == Append(sequence_, ext)
  <2>1. ext \subseteq 1 .. Times /\ min_support \in Nat \ {0} /\ WindowLength \in Nat
    BY EpisodeAssumption DEF LocationLists
  <2>2. IsExtension(new_bound, sequence_, ext, 1 .. Times, min_support, WindowLength)
    BY <1>2, <2>1, TimesAre, ExtendIsRight DEF EpisodeInv
  <2>3. AreBlocks(more, 1 .. Times)
    BY <1>2, <2>1 DEF EpisodeInv, AreBlocks
  <2> HIDE DEF new_bound, more
  <2>4. CASE /\ new_bound = None
             /\ refused' = [ext |-> ext, min_support |-> min_support]
             /\ UNCHANGED <<sequence_, bound_list_>>
    <3>1. Cardinality(AllStarts(more)) < min_support
      BY <2>2, <2>4 DEF IsExtension, AllStarts, more
    <3>2. refused'.ext = ext /\ refused'.min_support = min_support
      BY <2>4
    <3>3. RefusalIsRight'
      BY <2>4, <3>1, <3>2 DEF RefusalIsRight, AllStarts, more
    <3> QED BY <1>2, <2>4, <3>3 DEF EpisodeInv
  <2>5. CASE /\ new_bound # None
             /\ sequence_' = more /\ bound_list_' = new_bound /\ refused' = None
    <3>1. Represents(new_bound, more, 1 .. Times, WindowLength)
      BY <2>2, <2>5 DEF IsExtension, more
    <3>2. RefusalIsRight'
      BY <2>5 DEF RefusalIsRight
    <3> QED BY <2>3, <2>5, <3>1, <3>2 DEF EpisodeInv
  <2> QED BY <1>2, <2>4, <2>5 DEF TryExtend, new_bound, more
<1> QED BY <1>1, <1>2 DEF EpisodeNext

(* The invariant says what is to be shown of the bound list and of the     *)
(* refusals.                                                               *)
LEMMA EpisodeInvIsRight == EpisodeInv => EpisodesAreRight
<1> SUFFICES ASSUME EpisodeInv PROVE BoundListIsRight
  BY DEF EpisodeInv, EpisodesAreRight
<1> DEFINE S == Starts(sequence_, 1 .. Times, WindowLength)
<1>1. bound_list_ = [i \in 1 .. Len(Sorted(S)) |->
                       [start |-> Sorted(S)[i], end |-> Min(Ends(sequence_, 1 .. Times, WindowLength, Sorted(S)[i]))]]
  BY TimesAre, RepresentedIsRight DEF EpisodeInv
<1> QED BY <1>1 DEF BoundListIsRight, AllStarts, FirstEnd, Ends

(* However often and with whatever minimal supports an episode is          *)
(* extended: its bound list holds every start of the episode once, with    *)
(* the earliest end, in order; and an extension that TryExtend refused has *)
(* less support than was asked for.                                        *)
THEOREM EpisodesAreAlwaysRight == CompositeEpisodeSpec => []EpisodesAreRight
BY EpisodeInvInit, EpisodeInvNext, EpisodeInvIsRight, PTL DEF CompositeEpisodeSpec
-----------------------------------------------------------------------------
(* The image of a finite set.                                              *)
LEMMA ImageIs ==
  ASSUME NEW S, IsFiniteSet(S), NEW f
  PROVE  /\ IsFiniteSet({f[x] : x \in S}) /\ Cardinality({f[x] : x \in S}) <= Cardinality(S)
         /\ (\A x, y \in S : f[x] = f[y] => x = y) => Cardinality({f[x] : x \in S}) = Cardinality(S)
<1> DEFINE T == {f[x] : x \in S}
           g == [x \in S |-> f[x]]
<1>1. g \in Surjection(S, T)
  BY DEF Surjection
<1>2. /\ IsFiniteSet(T) /\ Cardinality(T) <= Cardinality(S)
      /\ Cardinality(T) = Cardinality(S) <=> g \in Injection(S, T)
  <2> HIDE DEF T, g
  <2> QED BY <1>1, FS_Surjection
<1>3. (\A x, y \in S : f[x] = f[y] => x = y) => g \in Injection(S, T)
  BY DEF Injection, IsInjective
<1> HIDE DEF g
<1> QED BY <1>2, <1>3

(* The greatest member of a finite set of numbers.                         *)
LEMMA MaxIsGreatest ==
  ASSUME NEW S, S \subseteq Nat, S # {}, IsFiniteSet(S)
  PROVE  Max(S) \in S /\ \A n \in S : n <= Max(S)
<1> DEFINE P == {T \in SUBSET S : T # {} => \E m \in T : \A n \in T : m >= n}
<1>1. ASSUME NEW T \in SUBSET S, \A x \in T : T \ {x} \in P PROVE T \in P
  <2> SUFFICES ASSUME T # {} PROVE \E m \in T : \A n \in T : m >= n
    OBVIOUS
  <2>1. PICK x \in T : TRUE
    OBVIOUS
  <2>2. CASE T \ {x} = {}
    BY <2>1, <2>2
  <2>3. CASE T \ {x} # {}
    <3>1. PICK m \in T \ {x} : \A n \in T \ {x} : m >= n
      BY <1>1, <2>1, <2>3
    <3>2. m \in Nat /\ x \in Nat /\ (m >= x \/ x >= m)
      BY <2>1
    <3>3. CASE m >= x
      BY <3>1, <3>3
    <3>4. CASE x >= m
      <4>1. \A n \in T : x >= n
        <5> SUFFICES ASSUME NEW n \in T PROVE x >= n
          OBVIOUS
        <5>1. n = x \/ m >= n
          BY <3>1
        <5> QED BY <3>2, <3>4, <5>1
      <4> QED BY <4>1
    <3> QED BY <3>2, <3>3, <3>4
  <2> QED BY <2>2, <2>3
<1>2. \A T \in SUBSET S : T \in P
  <2> HIDE DEF P
  <2> QED BY <1>1, BySubsets
<1>3. \E m \in S : \A n \in S : m >= n
  BY <1>2
<1>4. Max(S) \in S /\ \A n \in S : Max(S) >= n
  BY <1>3 DEF Max
<1> DEFINE m == Max(S)
<1>5. m \in S /\ \A n \in S : m >= n
  BY <1>4
<1> HIDE DEF m
<1>6. \A n \in S : n <= m
  BY <1>5
<1> QED BY <1>5, <1>6 DEF m

(* What load_data reads.                                                   *)
IsDatabase(database) ==
  /\ database \in Seq((SUBSET Nat) \ {{}}) /\ Len(database) <= SizeLimit
  /\ \A t \in DOMAIN database : IsFiniteSet(database[t])
Everywhere(database, block) == {t \in DOMAIN database : block \subseteq database[t]}

(* The events of a database are finitely many, and each of them occurs.    *)
LEMMA EventsAre ==
  ASSUME NEW database, IsDatabase(database)
  PROVE  /\ Events(database) \subseteq Nat /\ IsFiniteSet(Events(database))
         /\ \A e : e \in Events(database) <=> \E t \in DOMAIN database : e \in database[t]
         /\ Len(database) \in Nat /\ DOMAIN database = 1 .. Len(database)
         /\ IsFiniteSet(DOMAIN database)
         /\ \A e \in Events(database) : EventSupport(database, e) \in Nat \ {0}
<1>1. Len(database) \in Nat /\ DOMAIN database = 1 .. Len(database)
  BY DEF IsDatabase
<1>2. IsFiniteSet(DOMAIN database)
  BY <1>1, FS_Interval
<1>3. ToSet(database) = {database[t] : t \in DOMAIN database}
  BY DEF ToSet
<1>4. IsFiniteSet(ToSet(database))
  BY <1>2, <1>3, ImageIs
<1>5. IsFiniteSet(Events(database))
  <2>1. \A s \in ToSet(database) : IsFiniteSet(s)
    BY <1>3 DEF IsDatabase
  <2> QED BY <1>4, <2>1, FS_UNION DEF Events
<1>6. Events(database) \subseteq Nat
  BY <1>3 DEF Events, IsDatabase
<1>7. \A e : e \in Events(database) <=> \E t \in DOMAIN database : e \in database[t]
  BY <1>3 DEF Events
<1>8. ASSUME NEW e \in Events(database) PROVE EventSupport(database, e) \in Nat \ {0}
  <2> DEFINE L == LocationList(database, e)
  <2>1. L # {} /\ L \subseteq DOMAIN database
    BY <1>7 DEF LocationList
  <2> HIDE DEF L
  <2>2. IsFiniteSet(L)
    BY <1>2, <2>1, FS_Subset
  <2>3. Cardinality(L) \in Nat /\ Cardinality(L) # 0
    BY <2>1, <2>2, FS_CardinalityType, FS_EmptySet
  <2> QED BY <2>3 DEF EventSupport, L
<1> QED BY <1>1, <1>2, <1>5, <1>6, <1>7, <1>8

(* The k-th highest support leaves k events, or all of them.               *)
LEMMA ThresholdIs ==
  ASSUME NEW database, IsDatabase(database), NEW k \in Nat \ {0}
  PROVE  LET E == Events(database)
             least == EventsMinSup(database, k)
             F == {e \in E : EventSupport(database, e) >= least} IN
         /\ least \in Nat \ {0} /\ IsFiniteSet(F)
         /\ Cardinality(E) <= k => F = E
         /\ Cardinality(E) > k => Cardinality(F) >= k
<1> DEFINE E == Events(database)
           sup(e) == EventSupport(database, e)
           Over(n) == {e \in E : sup(e) >= n}
           N == {n \in 1 .. Len(database) : Cardinality(Over(n)) >= k}
           least == EventsMinSup(database, k)
<1>1. /\ E \subseteq Nat /\ IsFiniteSet(E) /\ Len(database) \in Nat
      /\ \A e \in E : sup(e) \in Nat \ {0}
  BY EventsAre
<1>2. least = IF Cardinality(E) > k THEN Max(N) ELSE 1
  BY Zenon DEF EventsMinSup
<1> HIDE DEF E, sup, least
<1>3. Over(1) = E
  <2>1. \A e \in E : sup(e) >= 1
    <3> SUFFICES ASSUME NEW e \in E PROVE sup(e) >= 1
      OBVIOUS
    <3> DEFINE n == sup(e)
    <3>1. n \in Nat \ {0}
      BY <1>1
    <3> HIDE DEF n
    <3>2. n >= 1
      BY <3>1
    <3> QED BY <3>2 DEF n
  <2> QED BY <2>1
<1>4. Cardinality(E) \in Nat
  BY <1>1, FS_CardinalityType
<1>5. \A n : IsFiniteSet(Over(n))
  BY <1>1, FS_Subset
<1>6. CASE Cardinality(E) > k
  <2>1. E # {}
    <3> SUFFICES ASSUME E = {} PROVE FALSE
      OBVIOUS
    <3>1. Cardinality(E) = 0
      BY FS_EmptySet
    <3> QED BY <1>6, <3>1
  <2>2. Len(database) # 0
    <3> SUFFICES ASSUME Len(database) = 0 PROVE FALSE
      OBVIOUS
    <3>1. PICK e \in E : TRUE
      BY <2>1
    <3>2. \E t \in DOMAIN database : e \in database[t]
      BY <3>1, EventsAre DEF E
    <3>3. DOMAIN database = 1 .. Len(database)
      BY EventsAre
    <3> QED BY <3>2, <3>3
  <2>3. 1 \in N
    <3>1. 1 \in 1 .. Len(database)
      BY <1>1, <2>2
    <3>2. Cardinality(Over(1)) >= k
      <4> HIDE DEF Over
      <4> QED BY <1>3, <1>4, <1>6
    <3> HIDE DEF Over
    <3> QED BY <3>1, <3>2
  <2>4. N \subseteq Nat /\ IsFiniteSet(N)
    <3>1. N \subseteq 1 .. Len(database)
      OBVIOUS
    <3>2. IsFiniteSet(1 .. Len(database))
      BY <1>1, FS_Interval
    <3> HIDE DEF N
    <3>3. IsFiniteSet(N)
      BY <3>1, <3>2, FS_Subset
    <3> QED BY <1>1, <3>1, <3>3
  <2>5. Max(N) \in N
    <3> HIDE DEF N
    <3> QED BY <2>3, <2>4, MaxIsGreatest
  <2>6. least \in N
    BY <1>2, <1>6, <2>5
  <2> QED BY <1>4, <1>5, <1>6, <2>6, SMTT(30) DEF E, sup, least
<1>7. CASE ~(Cardinality(E) > k)
  <2>1. least = 1
    BY <1>2, <1>7
  <2> QED BY <1>3, <1>4, <1>5, <1>7, <2>1 DEF E, sup, least
<1> QED BY <1>6, <1>7

(* The new names of the events.                                            *)
Real(reverse_mapping, block) == {reverse_mapping[i + 1] : i \in block}
IsMapping(reverse_mapping, F) ==
  /\ IsFiniteSet(F) /\ reverse_mapping \in [1 .. Cardinality(F) -> F]
  /\ Len(reverse_mapping) = Cardinality(F) /\ Cardinality(F) \in Nat
  /\ \A e \in F : \E i \in 1 .. Cardinality(F) : reverse_mapping[i] = e
  /\ \A i, j \in 1 .. Cardinality(F) : reverse_mapping[i] = reverse_mapping[j] => i = j

(* Sorting the frequent events numbers each of them once.                  *)
LEMMA MappingIs ==
  ASSUME NEW F, F \subseteq Nat, IsFiniteSet(F)
  PROVE  IsMapping(Sorted(F), F)
<1> DEFINE q == Sorted(F)
           n == Cardinality(F)
<1>1. IsAscending(q, F)
  BY SortedIs
<1> HIDE DEF q
<1>2. q \in Surjection(1 .. n, F)
  BY <1>1, AscendingIsOnto
<1>3. n \in Nat /\ q \in [1 .. n -> F] /\ \A i, j \in 1 .. n : i < j => q[i] < q[j]
  BY <1>1, FS_CardinalityType DEF IsAscending
<1>4. Len(q) = n
  BY <1>3
<1>5. ASSUME NEW i \in 1 .. n, NEW j \in 1 .. n, q[i] = q[j] PROVE i = j
  <2> SUFFICES ASSUME i # j PROVE FALSE
    OBVIOUS
  <2>1. q[i] < q[j] \/ q[j] < q[i]
    <3>1. i < j \/ j < i
      BY <1>3, <1>5
    <3> QED BY <1>3, <3>1
  <2>2. q[i] \in Nat /\ q[j] \in Nat
    BY <1>3
  <2> QED BY <1>5, <2>1, <2>2
<1>6. \A e \in F : \E i \in 1 .. n : q[i] = e
  BY <1>2 DEF Surjection
<1> QED BY <1>3, <1>4, <1>5, <1>6 DEF IsMapping, q

(* A block and its real events occur at the same times; different blocks   *)
(* have different events; and every set of events is a block.              *)
LEMMA RenamedIs ==
  ASSUME NEW database, IsDatabase(database), NEW F, NEW reverse_mapping,
         IsMapping(reverse_mapping, F)
  PROVE  LET R == Renamed(database, reverse_mapping)
             n == Cardinality(F) IN
         /\ DOMAIN R = DOMAIN database
         /\ \A t \in DOMAIN R : R[t] \subseteq 0 .. n - 1
         /\ \A X \in SUBSET (0 .. n - 1) :
              /\ Everywhere(R, X) = Everywhere(database, Real(reverse_mapping, X))
              /\ Real(reverse_mapping, X) \subseteq F
              /\ \A Y \in SUBSET (0 .. n - 1) :
                   Real(reverse_mapping, X) = Real(reverse_mapping, Y) => X = Y
         /\ \A B \in SUBSET F : \E X \in SUBSET (0 .. n - 1) :
              Real(reverse_mapping, X) = B /\ (B # {} => X # {})
<1> DEFINE R == Renamed(database, reverse_mapping)
           n == Cardinality(F)
           m == reverse_mapping
<1>1. /\ n \in Nat /\ m \in [1 .. n -> F] /\ Len(m) = n
      /\ \A e \in F : \E i \in 1 .. n : m[i] = e
      /\ \A i, j \in 1 .. n : m[i] = m[j] => i = j
  BY DEF IsMapping
<1> HIDE DEF n
<1>2. DOMAIN R = DOMAIN database
  BY DEF Renamed
<1>3. \A t \in DOMAIN R : \A i : i \in R[t] <=> i \in 0 .. n - 1 /\ m[i + 1] \in database[t]
  BY <1>1, <1>2 DEF Renamed
<1> HIDE DEF R
<1>4. \A i \in 0 .. n - 1 : i + 1 \in 1 .. n
  BY <1>1
<1>5. ASSUME NEW X \in SUBSET (0 .. n - 1)
      PROVE  Everywhere(R, X) = Everywhere(database, Real(m, X)) /\ Real(m, X) \subseteq F
  <2>1. Real(m, X) \subseteq F
    BY <1>1, <1>4 DEF Real
  <2>2. \A t \in DOMAIN R : X \subseteq R[t] <=> Real(m, X) \subseteq database[t]
    BY <1>3 DEF Real
  <2> QED BY <1>2, <2>1, <2>2 DEF Everywhere
<1>6. ASSUME NEW X \in SUBSET (0 .. n - 1), NEW Y \in SUBSET (0 .. n - 1), Real(m, X) = Real(m, Y)
      PROVE  X \subseteq Y
  <2> SUFFICES ASSUME NEW x \in X PROVE x \in Y
    OBVIOUS
  <2>1. PICK y \in Y : m[y + 1] = m[x + 1]
    BY <1>6 DEF Real
  <2>2. x + 1 \in 1 .. n /\ y + 1 \in 1 .. n
    BY <1>4
  <2>3. x + 1 = y + 1
    BY <1>1, <2>1, <2>2
  <2> QED BY <1>1, <2>3
<1>7. ASSUME NEW B \in SUBSET F
      PROVE  \E X \in SUBSET (0 .. n - 1) : Real(m, X) = B /\ (B # {} => X # {})
  <2> DEFINE X == {i \in 0 .. n - 1 : m[i + 1] \in B}
  <2>1. ASSUME NEW e \in B PROVE \E i \in X : m[i + 1] = e
    <3>1. PICK j \in 1 .. n : m[j] = e
      BY <1>1, <2>1
    <3>2. j - 1 \in 0 .. n - 1 /\ j - 1 + 1 = j
      BY <1>1
    <3> QED BY <2>1, <3>1, <3>2
  <2>2. Real(m, X) = B
    BY <2>1 DEF Real
  <2>3. B # {} => X # {}
    BY <2>1
  <2>4. X \in SUBSET (0 .. n - 1)
    OBVIOUS
  <2> HIDE DEF X
  <2> QED BY <2>2, <2>3, <2>4
<1>8. \A X \in SUBSET (0 .. n - 1) : \A Y \in SUBSET (0 .. n - 1) : Real(m, X) = Real(m, Y) => X = Y
  BY <1>6
<1>9. \A t \in DOMAIN R : R[t] \subseteq 0 .. n - 1
  BY <1>3
<1> QED BY <1>2, <1>5, <1>7, <1>8, <1>9 DEF R, n
-----------------------------------------------------------------------------
(* What is defined from the number before.                                 *)
LEMMA RepeatWorks ==
  ASSUME NEW n \in Nat, NEW Y, NEW first \in Y, NEW then \in [Y -> Y]
  PROVE  \E F \in [1 .. n -> Y] : \A m \in 1 .. n : F[m] = IF m = 1 THEN first ELSE then[F[m - 1]]
<1> DEFINE D == 1 .. n
           stop == {1}
           start == [m \in D |-> first]
           next == [m \in D |-> m - 1]
           step == [x \in D \X Y |-> then[x[2]]]
           rank == [m \in D |-> m]
<1>1. IsFiniteSet(D)
  BY FS_Interval
<1>2. \A d \in D : d \notin stop => d - 1 \in D
  OBVIOUS
<1>3. GoesDown(D, Y, stop, start, next, step, rank)
  <2>1. \A d \in D : rank[d] \in Nat
    OBVIOUS
  <2>2. \A d \in D : d \in stop => start[d] \in Y
    OBVIOUS
  <2>3. \A d \in D : d \notin stop => next[d] \in D /\ rank[next[d]] < rank[d]
    BY <1>2
  <2>4. \A d \in D : \A y \in Y : step[<<d, y>>] \in Y
    <3> HIDE DEF D
    <3> QED OBVIOUS
  <2> HIDE DEF D, stop, start, next, step, rank
  <2> QED BY <2>1, <2>2, <2>3, <2>4 DEF GoesDown
<1>4. \E F \in [D -> Y] : Solves(F, D, stop, start, next, step)
  <2> HIDE DEF D, stop, start, next, step, rank
  <2> QED BY <1>1, <1>3, RecursionWorks
<1>5. PICK F \in [D -> Y] : Solves(F, D, stop, start, next, step)
  BY <1>4
<1>6. \A m \in D : F[m] = IF m \in stop THEN start[m] ELSE step[<<m, F[next[m]]>>]
  <2> HIDE DEF D, stop, start, next, step
  <2> QED BY <1>5 DEF Solves
<1>7. ASSUME NEW m \in D PROVE F[m] = IF m = 1 THEN first ELSE then[F[m - 1]]
  <2>1. CASE m = 1
    BY <1>6, <2>1
  <2>2. CASE m # 1
    <3>1. F[m] = step[<<m, F[m - 1]>>]
      BY <1>6, <2>2
    <3>2. F[m - 1] \in Y
      BY <1>2, <2>2
    <3> DEFINE y == F[m - 1]
    <3> HIDE DEF y, D
    <3>3. step[<<m, y>>] = then[y]
      BY <3>2 DEF y
    <3> QED BY <2>2, <3>1, <3>3 DEF y
  <2> QED BY <2>1, <2>2
<1> QED BY <1>7

(* A parallel episode, by its events, and the extensions of one.           *)
ParallelOf(database, X) == [events |-> X, locations |-> Everywhere(database, X)]
BlocksBelow(n) == (SUBSET (0 .. n - 1)) \ {{}}
AllParallel(database, n) == {ParallelOf(database, X) : X \in BlocksBelow(n)}

(* A block of renamed events has a highest member.                         *)
LEMMA BlocksAreFinite ==
  ASSUME NEW n \in Nat, NEW X \in BlocksBelow(n)
  PROVE  /\ IsFiniteSet(X) /\ X \subseteq Nat /\ X # {} /\ X \subseteq 0 .. n - 1
         /\ Max(X) \in X /\ \A i \in X : i <= Max(X)
<1>1. X \subseteq 0 .. n - 1 /\ X # {} /\ X \subseteq Nat
  BY DEF BlocksBelow
<1>2. IsFiniteSet(0 .. n - 1)
  BY FS_Interval
<1>3. IsFiniteSet(X)
  BY <1>1, <1>2, FS_Subset
<1> QED BY <1>1, <1>3, MaxIsGreatest

(* There are finitely many parallel episodes.                              *)
LEMMA AllParallelIsFinite ==
  ASSUME NEW n \in Nat, NEW database
  PROVE  IsFiniteSet(AllParallel(database, n))
<1>1. IsFiniteSet(0 .. n - 1)
  BY FS_Interval
<1>2. IsFiniteSet(SUBSET (0 .. n - 1))
  BY <1>1, FS_SUBSET
<1>3. IsFiniteSet(BlocksBelow(n))
  BY <1>2, FS_Subset DEF BlocksBelow
<1> DEFINE f == [X \in BlocksBelow(n) |-> ParallelOf(database, X)]
<1>4. IsFiniteSet({f[X] : X \in BlocksBelow(n)})
  <2> HIDE DEF f
  <2> QED BY <1>3, ImageIs
<1>5. {f[X] : X \in BlocksBelow(n)} = AllParallel(database, n)
  BY DEF AllParallel
<1> QED BY <1>4, <1>5

(* The extensions of a parallel episode add one event above its highest,   *)
(* with the locations where all of its events are.                         *)
LEMMA ParallelExtensionsAre ==
  ASSUME NEW n \in Nat, NEW database, NEW X \in BlocksBelow(n)
  PROVE  ToSet(ParallelExtensions(ParallelOf(database, X), BuildLocationLists(database, n), n))
           = {ParallelOf(database, X \cup {e}) : e \in Max(X) + 1 .. n - 1}
<1> DEFINE s == Max(X) + 1
           lists == BuildLocationLists(database, n)
           p == ParallelOf(database, X)
           f == ParallelExtensions(p, lists, n)
<1>1. s \in Nat
  <2>1. Max(X) \in Nat
    BY BlocksAreFinite
  <2> QED BY <2>1
<1>2. p.events = X /\ p.locations = Everywhere(database, X)
  BY DEF ParallelOf
<1>3. f = [i \in 1 .. n - s |-> ParallelExtension(p, s + i - 1, lists)]
  BY <1>2 DEF ParallelExtensions
<1>4. ASSUME NEW e \in s .. n - 1
      PROVE  ParallelExtension(p, e, lists) = ParallelOf(database, X \cup {e})
  <2>1. e \in 0 .. n - 1
    BY <1>1
  <2>2. lists[e] = LocationList(database, e)
    BY <2>1 DEF BuildLocationLists
  <2>3. Everywhere(database, X) \cap LocationList(database, e) = Everywhere(database, X \cup {e})
    BY DEF Everywhere, LocationList
  <2> HIDE DEF p, lists
  <2> QED BY <1>2, <2>2, <2>3 DEF ParallelExtension, ParallelOf, Merge
<1> HIDE DEF s, p, lists, f
<1>5. ToSet(f) = {ParallelExtension(p, s + i - 1, lists) : i \in 1 .. n - s}
  BY <1>3 DEF ToSet
<1>6. \A i \in 1 .. n - s : s + i - 1 \in s .. n - 1
  BY <1>1
<1>7. \A e \in s .. n - 1 : e - s + 1 \in 1 .. n - s /\ s + (e - s + 1) - 1 = e
  BY <1>1
<1>8. ToSet(f) = {ParallelExtension(p, e, lists) : e \in s .. n - 1}
  <2>1. ASSUME NEW x \in ToSet(f) PROVE x \in {ParallelExtension(p, e, lists) : e \in s .. n - 1}
    BY <1>5, <1>6
  <2>2. ASSUME NEW e \in s .. n - 1 PROVE ParallelExtension(p, e, lists) \in ToSet(f)
    BY <1>5, <1>7
  <2> QED BY <2>1, <2>2
<1>9. ToSet(f) = {ParallelOf(database, X \cup {e}) : e \in s .. n - 1}
  BY <1>4, <1>8
<1> QED BY <1>9 DEF f, p, lists, s

(* Every parallel episode that occurs is found, and nothing else.          *)
IsFound(f, database, n) ==
  f = [m \in 1 .. n |->
         IF m = 1 THEN ToSet(ParallelSeeds(BuildLocationLists(database, n), n))
         ELSE UNION {ToSet(ParallelExtensions(p, BuildLocationLists(database, n), n)) : p \in f[m - 1]}]

(* The seeds are the episodes of one event.                                *)
LEMMA SeedsAre ==
  ASSUME NEW n \in Nat, NEW database
  PROVE  ToSet(ParallelSeeds(BuildLocationLists(database, n), n))
           = {ParallelOf(database, {e}) : e \in 0 .. n - 1}
<1> DEFINE lists == BuildLocationLists(database, n)
           f == ParallelSeeds(lists, n)
<1>1. f = [i \in 1 .. n |-> [events |-> {i - 1}, locations |-> lists[i - 1]]]
  BY DEF ParallelSeeds
<1>2. ASSUME NEW i \in 1 .. n PROVE f[i] = ParallelOf(database, {i - 1})
  <2>1. lists[i - 1] = LocationList(database, i - 1)
    BY DEF BuildLocationLists
  <2>2. LocationList(database, i - 1) = Everywhere(database, {i - 1})
    BY DEF LocationList, Everywhere
  <2> HIDE DEF lists, f
  <2> QED BY <1>1, <2>1, <2>2 DEF ParallelOf
<1>3. ToSet(f) = {f[i] : i \in 1 .. n}
  <2> HIDE DEF lists, f
  <2> QED BY <1>1 DEF ToSet
<1> HIDE DEF f
<1>4. \A e \in 0 .. n - 1 : e + 1 \in 1 .. n /\ e + 1 - 1 = e
  OBVIOUS
<1>5. \A i \in 1 .. n : i - 1 \in 0 .. n - 1
  OBVIOUS
<1>6. ASSUME NEW x \in ToSet(f) PROVE x \in {ParallelOf(database, {e}) : e \in 0 .. n - 1}
  BY <1>2, <1>3, <1>5
<1>7. ASSUME NEW e \in 0 .. n - 1 PROVE ParallelOf(database, {e}) \in ToSet(f)
  BY <1>2, <1>3, <1>4
<1> QED BY <1>6, <1>7 DEF f

(* The levels of the search exist, for any number of events.               *)
LEMMA FoundWorks ==
  ASSUME NEW n \in Nat, NEW database
  PROVE  \E f : IsFound(f, database, n) /\ f \in [1 .. n -> SUBSET AllParallel(database, n)]
<1> DEFINE Y == SUBSET AllParallel(database, n)
           lists == BuildLocationLists(database, n)
           first == ToSet(ParallelSeeds(lists, n))
           then == [y \in Y |-> UNION {ToSet(ParallelExtensions(p, lists, n)) : p \in y}]
<1>1. first \in Y
  <2>1. \A e \in 0 .. n - 1 : {e} \in BlocksBelow(n)
    BY DEF BlocksBelow
  <2>2. first = {ParallelOf(database, {e}) : e \in 0 .. n - 1}
    BY SeedsAre
  <2> HIDE DEF first
  <2> QED BY <2>1, <2>2 DEF AllParallel
<1>2. ASSUME NEW p \in AllParallel(database, n)
      PROVE  ToSet(ParallelExtensions(p, lists, n)) \subseteq AllParallel(database, n)
  <2>1. PICK X \in BlocksBelow(n) : p = ParallelOf(database, X)
    BY <1>2 DEF AllParallel
  <2>2. ToSet(ParallelExtensions(p, lists, n)) = {ParallelOf(database, X \cup {e}) : e \in Max(X) + 1 .. n - 1}
    BY <2>1, ParallelExtensionsAre
  <2>3. Max(X) \in Nat
    BY BlocksAreFinite
  <2>4. \A e \in Max(X) + 1 .. n - 1 : X \cup {e} \in BlocksBelow(n)
    BY <2>3 DEF BlocksBelow
  <2> QED BY <2>2, <2>4 DEF AllParallel
<1>3. then \in [Y -> Y]
  <2> HIDE DEF lists
  <2> QED BY <1>2
<1>4. \E F \in [1 .. n -> Y] : \A m \in 1 .. n : F[m] = IF m = 1 THEN first ELSE then[F[m - 1]]
  <2> HIDE DEF Y, first, then
  <2> QED BY <1>1, <1>3, RepeatWorks, SMTT(30)
<1>5. PICK F \in [1 .. n -> Y] : \A m \in 1 .. n : F[m] = IF m = 1 THEN first ELSE then[F[m - 1]]
  BY <1>4
<1>6. ASSUME NEW m \in 1 .. n
      PROVE  F[m] = IF m = 1 THEN first ELSE UNION {ToSet(ParallelExtensions(p, lists, n)) : p \in F[m - 1]}
  <2>1. m # 1 => F[m - 1] \in Y
    <3>1. m # 1 => m - 1 \in 1 .. n
      OBVIOUS
    <3> HIDE DEF Y
    <3> QED BY <3>1
  <2> HIDE DEF Y, first, lists
  <2> QED BY <1>5, <2>1
<1>7. F = [m \in 1 .. n |-> F[m]]
  OBVIOUS
<1>8. IsFound(F, database, n)
  <2> HIDE DEF Y
  <2> QED BY <1>6, <1>7, Zenon DEF IsFound, first, lists
<1> QED BY <1>8

(* The search tree of the parallel episodes reaches every set of events    *)
(* that occurs somewhere, with its locations, and nothing else.            *)
LEMMA OccurringAre ==
  ASSUME NEW n \in Nat, NEW database
  PROVE  OccurringEpisodes(database, n)
           = {ParallelOf(database, X) : X \in {Y \in BlocksBelow(n) : Everywhere(database, Y) # {}}}
<1> DEFINE f == CHOOSE g : IsFound(g, database, n)
<1>1. IsFound(f, database, n)
  BY FoundWorks
<1>2. OccurringEpisodes(database, n) = {p \in UNION {f[m] : m \in 1 .. n} : p.locations # {}}
  BY Zenon DEF OccurringEpisodes, IsFound
<1> HIDE DEF f
<1> DEFINE Further(S) == UNION {ToSet(ParallelExtensions(p, BuildLocationLists(database, n), n)) : p \in S}
<1>3. ASSUME NEW m \in 1 .. n
      PROVE  f[m] = IF m = 1 THEN {ParallelOf(database, {e}) : e \in 0 .. n - 1}
                    ELSE Further(f[m - 1])
  <2>1. f[m] = IF m = 1 THEN ToSet(ParallelSeeds(BuildLocationLists(database, n), n))
               ELSE UNION {ToSet(ParallelExtensions(p, BuildLocationLists(database, n), n)) : p \in f[m - 1]}
    BY <1>1, Zenon DEF IsFound
  <2> QED BY <2>1, SeedsAre
<1> DEFINE first == {ParallelOf(database, {e}) : e \in 0 .. n - 1}
<1> HIDE DEF Further, first
<1>31. \A m \in 1 .. n : m # 1 => f[m] = Further(f[m - 1])
  BY <1>3, Zenon
<1>32. 1 \in 1 .. n => f[1] = first
  BY <1>3, Zenon DEF first
<1>33. \A m \in Nat : m + 2 <= n => f[m + 2] = Further(f[m + 1])
  <2> SUFFICES ASSUME NEW m \in Nat, m + 2 <= n PROVE f[m + 2] = Further(f[m + 1])
    OBVIOUS
  <2> DEFINE j == m + 2
  <2>1. j \in 1 .. n /\ j # 1 /\ j - 1 = m + 1
    OBVIOUS
  <2> HIDE DEF j
  <2>2. f[j] = Further(f[j - 1])
    BY <1>31, <2>1
  <2> QED BY <2>1, <2>2 DEF j
<1> DEFINE P == {m \in Nat : m + 1 <= n => f[m + 1] \subseteq AllParallel(database, n)}
           Q == {m \in Nat : \A X \in BlocksBelow(n) : Cardinality(X) = m + 1 => ParallelOf(database, X) \in f[m + 1]}
<1>4. \A X \in BlocksBelow(n) : Cardinality(X) \in Nat \ {0} /\ Cardinality(X) <= n
  <2> SUFFICES ASSUME NEW X \in BlocksBelow(n)
               PROVE  Cardinality(X) \in Nat \ {0} /\ Cardinality(X) <= n
    OBVIOUS
  <2>1. IsFiniteSet(X) /\ X # {} /\ X \subseteq 0 .. n - 1
    BY BlocksAreFinite
  <2>2. IsFiniteSet(0 .. n - 1) /\ Cardinality(0 .. n - 1) = n
    BY FS_Interval
  <2>3. Cardinality(X) <= Cardinality(0 .. n - 1)
    BY <2>1, <2>2, FS_Subset
  <2>4. Cardinality(X) \in Nat /\ Cardinality(X) # 0
    BY <2>1, FS_CardinalityType, FS_EmptySet
  <2> QED BY <2>2, <2>3, <2>4
<1>5. 0 \in P
  <2>1. \A e \in 0 .. n - 1 : {e} \in BlocksBelow(n)
    BY DEF BlocksBelow
  <2>2. 1 <= n => f[1] = first
    BY <1>32
  <2>3. first \subseteq AllParallel(database, n)
    BY <2>1 DEF AllParallel, first
  <2> QED BY <2>2, <2>3
<1>6. ASSUME NEW m \in Nat, m \in P PROVE m + 1 \in P
  <2> SUFFICES ASSUME m + 2 <= n PROVE f[m + 2] \subseteq AllParallel(database, n)
    OBVIOUS
  <2>1. f[m + 2] = Further(f[m + 1])
    BY <1>33
  <2>2. f[m + 1] \subseteq AllParallel(database, n)
    BY <1>6
  <2>3. ASSUME NEW p \in AllParallel(database, n)
        PROVE  ToSet(ParallelExtensions(p, BuildLocationLists(database, n), n)) \subseteq AllParallel(database, n)
    <3>1. PICK X \in BlocksBelow(n) : p = ParallelOf(database, X)
      BY <2>3 DEF AllParallel
    <3>2. ToSet(ParallelExtensions(p, BuildLocationLists(database, n), n))
            = {ParallelOf(database, X \cup {e}) : e \in Max(X) + 1 .. n - 1}
      BY <3>1, ParallelExtensionsAre
    <3>3. Max(X) \in Nat
      BY BlocksAreFinite
    <3>4. \A e \in Max(X) + 1 .. n - 1 : X \cup {e} \in BlocksBelow(n)
      BY <3>3 DEF BlocksBelow
    <3> QED BY <3>2, <3>4 DEF AllParallel
  <2> QED BY <2>1, <2>2, <2>3 DEF Further
<1>7. \A m \in Nat : m \in P
  <2> HIDE DEF P
  <2> QED BY <1>5, <1>6, CountingUp
<1>8. 0 \in Q
  <2> SUFFICES ASSUME NEW X \in BlocksBelow(n), Cardinality(X) = 1
               PROVE  ParallelOf(database, X) \in f[1]
    OBVIOUS
  <2>1. IsFiniteSet(X) /\ X # {} /\ X \subseteq 0 .. n - 1
    BY BlocksAreFinite
  <2>2. PICK e : X = {e}
    BY <2>1, FS_Singleton
  <2>3. e \in 0 .. n - 1 /\ 1 \in 1 .. n
    BY <2>1, <2>2
  <2> QED BY <1>32, <2>2, <2>3 DEF first
<1>9. ASSUME NEW m \in Nat, m \in Q PROVE m + 1 \in Q
  <2> SUFFICES ASSUME NEW X \in BlocksBelow(n), Cardinality(X) = m + 2
               PROVE  ParallelOf(database, X) \in f[m + 2]
    OBVIOUS
  <2> DEFINE e == Max(X)
             X0 == X \ {e}
  <2>1. IsFiniteSet(X) /\ X # {} /\ X \subseteq 0 .. n - 1 /\ e \in X /\ \A i \in X : i <= e
    BY BlocksAreFinite
  <2> HIDE DEF e
  <2>2. Cardinality(X0) = m + 1 /\ IsFiniteSet(X0)
    <3>1. Cardinality(X0) = Cardinality(X) - 1 /\ IsFiniteSet(X0)
      BY <2>1, FS_RemoveElement
    <3> QED BY <3>1
  <2>3. X0 # {}
    <3>1. Cardinality({}) = 0
      BY FS_EmptySet
    <3> QED BY <2>2, <3>1
  <2>4. X0 \in BlocksBelow(n)
    BY <2>1, <2>3 DEF BlocksBelow
  <2>5. ParallelOf(database, X0) \in f[m + 1]
    <3> HIDE DEF X0
    <3> QED BY <1>9, <2>2, <2>4
  <2>6. Max(X0) \in X0
    <3> HIDE DEF X0
    <3> QED BY <2>4, BlocksAreFinite
  <2>7. e \in Max(X0) + 1 .. n - 1
    <3> DEFINE x == Max(X0)
    <3>1. x \in X /\ x # e
      BY <2>6
    <3> HIDE DEF x
    <3>2. x \in Nat /\ e \in Nat /\ x <= e /\ e <= n - 1
      BY <2>1, <3>1
    <3>3. e \in x + 1 .. n - 1
      BY <3>1, <3>2
    <3> QED BY <3>3 DEF x
  <2>8. X0 \cup {e} = X
    BY <2>1
  <2>9. ParallelOf(database, X) \in ToSet(ParallelExtensions(ParallelOf(database, X0), BuildLocationLists(database, n), n))
    <3> HIDE DEF X0
    <3>1. ToSet(ParallelExtensions(ParallelOf(database, X0), BuildLocationLists(database, n), n))
            = {ParallelOf(database, X0 \cup {d}) : d \in Max(X0) + 1 .. n - 1}
      BY <2>4, ParallelExtensionsAre
    <3> QED BY <2>7, <2>8, <3>1
  <2>10. m + 2 \in 1 .. n /\ m + 2 # 1 /\ m + 2 - 1 = m + 1
    BY <1>4
  <2>11. f[m + 2] = Further(f[m + 1])
    BY <1>33, <2>10
  <2> HIDE DEF X0
  <2> QED BY <2>5, <2>9, <2>11 DEF Further
<1>10. \A m \in Nat : m \in Q
  <2> HIDE DEF Q
  <2> QED BY <1>8, <1>9, CountingUp
<1>11. UNION {f[m] : m \in 1 .. n} = AllParallel(database, n)
  <2>1. ASSUME NEW m \in 1 .. n PROVE f[m] \subseteq AllParallel(database, n)
    <3>1. m - 1 \in Nat /\ m - 1 + 1 = m /\ m <= n
      OBVIOUS
    <3>2. m - 1 \in P
      BY <1>7, <3>1
    <3> QED BY <3>1, <3>2
  <2>2. ASSUME NEW X \in BlocksBelow(n) PROVE \E m \in 1 .. n : ParallelOf(database, X) \in f[m]
    <3> DEFINE m == Cardinality(X)
    <3>1. m \in 1 .. n /\ m - 1 \in Nat /\ m - 1 + 1 = m
      BY <1>4
    <3>2. m - 1 \in Q
      BY <1>10, <3>1
    <3>3. ParallelOf(database, X) \in f[m]
      BY <3>1, <3>2
    <3> QED BY <3>1, <3>3
  <2> QED BY <2>1, <2>2 DEF AllParallel
<1>12. \A X : ParallelOf(database, X).locations = Everywhere(database, X)
  BY DEF ParallelOf
<1> QED BY <1>2, <1>11, <1>12 DEF AllParallel
-----------------------------------------------------------------------------
(* The answer of a miner: k of the best, or all there are.                 *)
LEMMA AnswersAre ==
  ASSUME NEW S, IsFiniteSet(S), NEW k \in Nat, NEW support, NEW least_support,
         NEW T \in Answers(S, k, support, least_support)
  PROVE  /\ T \subseteq S /\ IsFiniteSet(T) /\ Cardinality(T) <= k
         /\ T # S => Cardinality(T) = k
         /\ \A e \in T, f \in S \ T : least_support[f] <= support[e]
<1>1. CASE Cardinality(S) <= k
  <2>1. T = S
    BY <1>1 DEF Answers
  <2> QED BY <1>1, <2>1
<1>2. CASE ~(Cardinality(S) <= k)
  <2>1. /\ T \in {U \in SUBSET S : Cardinality(U) = k}
        /\ \A e \in T, f \in S \ T : least_support[f] <= support[e]
    BY <1>2 DEF Answers, kSubset
  <2>2. IsFiniteSet(T)
    BY <2>1, FS_Subset
  <2> QED BY <2>1, <2>2
<1> QED BY <1>1, <1>2

(* The parallel episodes in descending order: each once.                   *)
IsDescending(s, eps) ==
  /\ s \in [1 .. Cardinality(eps) -> eps] /\ ToSet(s) = eps
  /\ \A i, j \in 1 .. Cardinality(eps) : i < j => Cardinality(s[i].locations) >= Cardinality(s[j].locations)

(* A finite set of parallel episodes has an order of descending support.   *)
LEMMA DescendingExists ==
  ASSUME NEW S, IsFiniteSet(S), \A e \in S : Cardinality(e.locations) \in Nat
  PROVE  \E s : IsDescending(s, S)
<1> DEFINE P == {T \in SUBSET S : \E s : IsDescending(s, T)}
           w == [e \in S |-> Cardinality(e.locations)]
<1>1. ASSUME NEW T \in SUBSET S, \A x \in T : T \ {x} \in P PROVE T \in P
  <2>0. IsFiniteSet(T)
    BY FS_Subset
  <2>1. CASE T = {}
    <3>1. Cardinality(T) = 0
      BY <2>1, FS_EmptySet
    <3>2. IsDescending(<<>>, T)
      BY <2>1, <3>1 DEF IsDescending, ToSet
    <3> QED BY <3>2
  <2>2. CASE T # {}
    <3> DEFINE N == {w[e] : e \in T}
    <3>1. N \subseteq Nat /\ N # {}
      BY <2>2
    <3>2. Min(N) \in N /\ \A m \in N : Min(N) <= m
      <4> HIDE DEF N
      <4> QED BY <3>1, MinIsLeast
    <3>3. PICK x \in T : \A e \in T : w[x] <= w[e]
      <4>1. PICK x \in T : w[x] = Min(N)
        BY <3>2
      <4> QED BY <3>2, <4>1
    <3>4. PICK q : IsDescending(q, T \ {x})
      BY <1>1, <3>3
    <3> DEFINE n == Cardinality(T)
    <3>5. n \in Nat \ {0} /\ Cardinality(T \ {x}) = n - 1
      <4>1. n \in Nat /\ n # 0
        BY <2>0, <2>2, FS_CardinalityType, FS_EmptySet
      <4>2. Cardinality(T \ {x}) = n - 1
        BY <2>0, <3>3, FS_RemoveElement
      <4> QED BY <4>1, <4>2
    <3> HIDE DEF n
    <3>6. /\ q \in [1 .. n - 1 -> T \ {x}] /\ {q[i] : i \in 1 .. n - 1} = T \ {x}
          /\ \A i, j \in 1 .. n - 1 : i < j => Cardinality(q[i].locations) >= Cardinality(q[j].locations)
      <4>1. DOMAIN q = 1 .. n - 1
        BY <3>4, <3>5 DEF IsDescending
      <4> QED BY <3>4, <3>5, <4>1 DEF IsDescending, ToSet
    <3> DEFINE s == [i \in 1 .. n |-> IF i = n THEN x ELSE q[i]]
    <3>7. \A i \in 1 .. n - 1 : i \in 1 .. n /\ i # n /\ s[i] = q[i]
      BY <3>5
    <3>8. n \in 1 .. n /\ s[n] = x /\ \A i \in 1 .. n : i = n \/ i \in 1 .. n - 1
      BY <3>5
    <3>9. s \in [1 .. n -> T]
      <4>1. \A i \in 1 .. n : s[i] \in T
        BY <3>3, <3>6, <3>7, <3>8
      <4> QED BY <4>1
    <3>10. DOMAIN s = 1 .. n
      OBVIOUS
    <3> HIDE DEF s
    <3>11. ToSet(s) = T
      <4>1. ASSUME NEW e \in T PROVE \E i \in 1 .. n : s[i] = e
        <5>1. CASE e = x
          BY <3>8, <5>1
        <5>2. CASE e # x
          <6>1. PICK i \in 1 .. n - 1 : q[i] = e
            BY <3>6, <5>2
          <6> QED BY <3>7, <6>1
        <5> QED BY <5>1, <5>2
      <4> QED BY <3>9, <3>10, <4>1 DEF ToSet
    <3>12. ASSUME NEW i \in 1 .. n, NEW j \in 1 .. n, i < j
           PROVE  Cardinality(s[i].locations) >= Cardinality(s[j].locations)
      <4>1. i \in 1 .. n - 1
        BY <3>5, <3>12
      <4>2. CASE j = n
        <5>1. s[i] \in T /\ s[j] = x
          BY <3>8, <3>9, <4>2
        <5>2. w[x] <= w[s[i]]
          BY <3>3, <5>1
        <5>3. w[x] = Cardinality(x.locations) /\ w[s[i]] = Cardinality(s[i].locations)
          BY <3>3, <5>1
        <5>4. w[x] \in Nat /\ w[s[i]] \in Nat
          BY <3>3, <5>1
        <5> HIDE DEF w
        <5> DEFINE a == w[x]
                   b == w[s[i]]
        <5>5. a \in Nat /\ b \in Nat /\ a <= b
          BY <5>2, <5>4
        <5> HIDE DEF a, b
        <5>6. b >= a
          BY <5>5
        <5> QED BY <5>1, <5>3, <5>6 DEF a, b
      <4>3. CASE j # n
        <5>1. j \in 1 .. n - 1
          BY <3>8, <4>3
        <5> QED BY <3>6, <3>7, <3>12, <4>1, <5>1
      <4> QED BY <4>2, <4>3
    <3>13. IsDescending(s, T)
      BY <3>9, <3>11, <3>12 DEF IsDescending, n
    <3> QED BY <3>13
  <2> QED BY <2>1, <2>2
<1>2. \A T \in SUBSET S : T \in P
  <2> HIDE DEF P
  <2> QED BY <1>1, BySubsets
<1> QED BY <1>2

(* The order chosen holds every episode once, and its last has the least   *)
(* support.                                                                *)
LEMMA DescendingIs ==
  ASSUME NEW S, IsFiniteSet(S), \A e \in S : Cardinality(e.locations) \in Nat
  PROVE  LET s == CHOOSE q \in Descending(S) : TRUE
             n == Cardinality(S) IN
         /\ n \in Nat /\ s \in [1 .. n -> S] /\ Len(s) = n
         /\ \A e \in S : \E i \in 1 .. n : s[i] = e
         /\ \A i, j \in 1 .. n : s[i] = s[j] => i = j
         /\ \A i \in 1 .. n : Cardinality(Last(s).locations) <= Cardinality(s[i].locations)
<1> DEFINE s == CHOOSE q \in Descending(S) : TRUE
           n == Cardinality(S)
<1>1. \A q : IsDescending(q, S) <=> q \in Descending(S)
  <2> SUFFICES ASSUME NEW q PROVE IsDescending(q, S) <=> q \in Descending(S)
    OBVIOUS
  <2>1. q \in [1 .. n -> S] => DOMAIN q = 1 .. n
    OBVIOUS
  <2> QED BY <2>1 DEF IsDescending, Descending
<1>2. s \in Descending(S)
  <2>1. PICK q : IsDescending(q, S)
    BY DescendingExists
  <2> QED BY <1>1, <2>1
<1> HIDE DEF s
<1>3. IsDescending(s, S) /\ n \in Nat
  BY <1>1, <1>2, FS_CardinalityType
<1> HIDE DEF n
<1>4. /\ s \in [1 .. n -> S] /\ ToSet(s) = S
      /\ \A i, j \in 1 .. n : i < j => Cardinality(s[i].locations) >= Cardinality(s[j].locations)
  BY <1>3 DEF IsDescending, n
<1>5. Len(s) = n /\ DOMAIN s = 1 .. n
  BY <1>3, <1>4
<1>6. \A e \in S : \E i \in 1 .. n : s[i] = e
  BY <1>4, <1>5 DEF ToSet
<1>7. \A i, j \in 1 .. n : s[i] = s[j] => i = j
  <2>1. s \in Surjection(1 .. n, S)
    BY <1>4, <1>6 DEF Surjection
  <2>2. IsFiniteSet(1 .. n) /\ Cardinality(1 .. n) = n
    BY <1>3, FS_Interval
  <2>3. s \in Injection(1 .. n, S)
    <3>1. Cardinality(1 .. n) = Cardinality(S)
      BY <2>2 DEF n
    <3> QED BY <2>1, <2>2, <3>1, FS_SurjSameCardinalityImpliesInj
  <2> QED BY <2>3 DEF Injection, IsInjective
<1>8. ASSUME NEW i \in 1 .. n PROVE Cardinality(Last(s).locations) <= Cardinality(s[i].locations)
  <2>1. Last(s) = s[n] /\ n \in 1 .. n
    BY <1>3, <1>5 DEF Last
  <2> DEFINE a == Cardinality(s[i].locations)
             b == Cardinality(s[n].locations)
  <2>2. a \in Nat /\ b \in Nat
    BY <1>4, <2>1
  <2>3. i = n \/ a >= b
    BY <1>4, <2>1
  <2>4. i = n => a = b
    OBVIOUS
  <2> HIDE DEF a, b
  <2>5. b <= a
    BY <2>2, <2>3, <2>4
  <2> QED BY <2>1, <2>5 DEF a, b
<1> QED BY <1>3, <1>4, <1>5, <1>6, <1>7, <1>8 DEF s, n
-----------------------------------------------------------------------------
(* The search for composite episodes: the parallel episodes it is given,   *)
(* the timestamps, the window and the minimal support.                     *)
LocationsOf(parallel, blocks) == [i \in DOMAIN blocks |-> parallel[blocks[i]].locations]
SupportWithin(parallel, blocks, times, window) ==
  Cardinality(Starts(LocationsOf(parallel, blocks), times, window))
Searching(parallel, minsup, times, window) ==
  /\ times \subseteq Nat /\ IsFiniteSet(times) /\ Cardinality(times) <= SizeLimit
  /\ IsFiniteSet(DOMAIN parallel) /\ window \in Nat /\ minsup \in Nat \ {0}
  /\ \A i \in DOMAIN parallel : parallel[i].locations \subseteq times

(* The location lists of an episode, a block at a time.                    *)
LEMMA LocationsAre ==
  ASSUME NEW parallel, NEW minsup, NEW times, NEW window,
         Searching(parallel, minsup, times, window),
         NEW blocks \in Seq(DOMAIN parallel)
  PROVE  /\ LocationsOf(parallel, blocks) \in Seq(SUBSET times)
         /\ Len(LocationsOf(parallel, blocks)) = Len(blocks)
         /\ blocks # <<>> => AreBlocks(LocationsOf(parallel, blocks), times)
         /\ \A i \in DOMAIN parallel :
              LocationsOf(parallel, Append(blocks, i))
                = Append(LocationsOf(parallel, blocks), parallel[i].locations)
<1> DEFINE n == Len(blocks)
           L == LocationsOf(parallel, blocks)
<1>1. n \in Nat /\ DOMAIN blocks = 1 .. n /\ \A i \in 1 .. n : blocks[i] \in DOMAIN parallel
  OBVIOUS
<1>2. L = [i \in 1 .. n |-> parallel[blocks[i]].locations]
  BY <1>1 DEF LocationsOf
<1> HIDE DEF L
<1>3. \A i \in 1 .. n : L[i] = parallel[blocks[i]].locations /\ L[i] \in SUBSET times
  BY <1>1, <1>2 DEF Searching
<1>4. L \in Seq(SUBSET times) /\ Len(L) = n
  <2>1. DOMAIN L = 1 .. n
    BY <1>2
  <2> HIDE DEF n
  <2>2. L \in [1 .. n -> SUBSET times]
    BY <1>2, <1>3, <2>1
  <2> QED BY <1>1, <2>2
<1>5. blocks # <<>> => n # 0
  BY <1>1
<1>6. ASSUME NEW i \in DOMAIN parallel
      PROVE  LocationsOf(parallel, Append(blocks, i)) = Append(L, parallel[i].locations)
  <2> DEFINE more == Append(blocks, i)
             M == LocationsOf(parallel, more)
             ext == parallel[i].locations
  <2>1. Len(more) = n + 1 /\ DOMAIN more = 1 .. n + 1 /\ more[n + 1] = i
        /\ \A j \in 1 .. n : more[j] = blocks[j]
    OBVIOUS
  <2> HIDE DEF more
  <2>2. M = [j \in 1 .. n + 1 |-> parallel[more[j]].locations]
    BY <2>1 DEF LocationsOf
  <2> HIDE DEF M
  <2>3. ext \in SUBSET times
    BY DEF Searching
  <2> HIDE DEF ext
  <2>4. Append(L, ext) \in Seq(SUBSET times) /\ Len(Append(L, ext)) = n + 1
        /\ Append(L, ext)[n + 1] = ext /\ \A j \in 1 .. n : Append(L, ext)[j] = L[j]
    BY <1>4, <2>3
  <2>5. Append(L, ext) \in [1 .. n + 1 -> SUBSET times]
    BY <2>4, LenProperties
  <2>6. ASSUME NEW j \in 1 .. n + 1 PROVE M[j] = Append(L, ext)[j]
    <3>1. CASE j = n + 1
      BY <2>1, <2>2, <2>4, <3>1 DEF ext
    <3>2. CASE j # n + 1
      <4>1. j \in 1 .. n
        BY <1>1, <3>2
      <4> QED BY <1>3, <2>1, <2>2, <2>4, <4>1
    <3> QED BY <3>1, <3>2
  <2>7. M = Append(L, ext)
    <3>1. Append(L, ext) = [j \in 1 .. n + 1 |-> Append(L, ext)[j]]
      BY <2>5
    <3>2. M = [j \in 1 .. n + 1 |-> M[j]]
      BY <2>2
    <3> QED BY <2>6, <3>1, <3>2, Zenon
  <2> QED BY <2>7 DEF M, more, ext
<1>7. times \subseteq Nat
  BY DEF Searching
<1> QED BY <1>4, <1>5, <1>6, <1>7 DEF AreBlocks, L

(* An episode of the search has the right bound list, if it has support.   *)
Composites(parallel, minsup, times, window) ==
  {c \in [blocks : Seq(DOMAIN parallel), bounds : Seq(Bound)] :
     /\ c.blocks # <<>>
     /\ Len(c.bounds) >= minsup =>
          Represents(c.bounds, LocationsOf(parallel, c.blocks), times, window)}

(* A composite episode with the minimal support has the right bound list,  *)
(* and so the right support.                                               *)
LEMMA CompositeIs ==
  ASSUME NEW parallel, NEW minsup, NEW times, NEW window,
         Searching(parallel, minsup, times, window),
         NEW c \in Composites(parallel, minsup, times, window), Len(c.bounds) >= minsup
  PROVE  /\ Len(c.bounds) = SupportWithin(parallel, c.blocks, times, window)
         /\ AreBlocks(LocationsOf(parallel, c.blocks), times)
         /\ Represents(c.bounds, LocationsOf(parallel, c.blocks), times, window)
<1>1. /\ c.blocks \in Seq(DOMAIN parallel) /\ c.blocks # <<>>
      /\ Represents(c.bounds, LocationsOf(parallel, c.blocks), times, window)
  BY DEF Composites
<1>2. AreBlocks(LocationsOf(parallel, c.blocks), times)
  BY <1>1, LocationsAre
<1>3. IsFiniteSet(times)
  BY DEF Searching
<1>4. Len(c.bounds) = Cardinality(Starts(LocationsOf(parallel, c.blocks), times, window))
  BY <1>1, <1>2, <1>3, RepresentedIsRight
<1> QED BY <1>1, <1>2, <1>4 DEF SupportWithin

(* Bound lists are determined by the blocks.                               *)
LEMMA CompositeIsOne ==
  ASSUME NEW parallel, NEW minsup, NEW times, NEW window,
         Searching(parallel, minsup, times, window),
         NEW c \in Composites(parallel, minsup, times, window), Len(c.bounds) >= minsup,
         NEW d \in Composites(parallel, minsup, times, window), Len(d.bounds) >= minsup,
         c.blocks = d.blocks
  PROVE  c = d
<1> DEFINE L == LocationsOf(parallel, c.blocks)
           S == Sorted(Starts(L, times, window))
           b == [i \in 1 .. Len(S) |-> [start |-> S[i], end |-> Min(Ends(L, times, window, S[i]))]]
<1>1. IsFiniteSet(times)
  BY DEF Searching
<1>2. AreBlocks(L, times) /\ Represents(c.bounds, L, times, window)
  BY CompositeIs
<1>3. Represents(d.bounds, L, times, window)
  <2>1. Represents(d.bounds, LocationsOf(parallel, d.blocks), times, window)
    BY CompositeIs
  <2> QED BY <2>1
<1> HIDE DEF L
<1>4. c.bounds = b
  BY <1>1, <1>2, RepresentedIsRight
<1>5. d.bounds = b
  BY <1>1, <1>2, <1>3, RepresentedIsRight
<1>6. c = [blocks |-> c.blocks, bounds |-> c.bounds] /\ d = [blocks |-> d.blocks, bounds |-> d.bounds]
  BY DEF Composites
<1> HIDE DEF b
<1> QED BY <1>4, <1>5, <1>6

(* The composite episodes of one block are right.                          *)
LEMMA SeedsAreRight ==
  ASSUME NEW parallel, NEW minsup, NEW times, NEW window,
         Searching(parallel, minsup, times, window), NEW i \in DOMAIN parallel
  PROVE  LET c == CompositeSeeds(parallel)[i] IN
         /\ c \in Composites(parallel, minsup, times, window)
         /\ c.blocks = <<i>> /\ Len(c.bounds) = SupportWithin(parallel, <<i>>, times, window)
<1> DEFINE c == CompositeSeeds(parallel)[i]
           locations == parallel[i].locations
<1>1. c = [blocks |-> <<i>>, bounds |-> BoundListOf(locations)]
  BY DEF CompositeSeeds
<1>2. times \subseteq Nat /\ IsFiniteSet(times) /\ locations \subseteq times
  BY DEF Searching
<1>3. IsFiniteSet(locations)
  BY <1>2, FS_Subset
<1> HIDE DEF c
<1>4. LocationsOf(parallel, <<i>>) = <<locations>>
  BY DEF LocationsOf
<1> HIDE DEF locations
<1>5. Represents(BoundListOf(locations), <<locations>>, times, window)
  BY <1>2, <1>3, SeedIsRepresented
<1>6. BoundListOf(locations) \in Seq(Bound)
  BY <1>5 DEF Represents, IsBoundList
<1>7. c.blocks = <<i>> /\ c.bounds = BoundListOf(locations) /\ <<i>> \in Seq(DOMAIN parallel) /\ <<i>> # <<>>
  BY <1>1
<1>8. c \in Composites(parallel, minsup, times, window)
  <2>1. c \in [blocks : Seq(DOMAIN parallel), bounds : Seq(Bound)]
    BY <1>1, <1>6, <1>7
  <2>2. Represents(c.bounds, LocationsOf(parallel, c.blocks), times, window)
    BY <1>4, <1>5, <1>7
  <2> QED BY <1>7, <2>1, <2>2 DEF Composites
<1>9. AreBlocks(<<locations>>, times)
  BY <1>2 DEF AreBlocks
<1>10. Len(c.bounds) = Cardinality(Starts(<<locations>>, times, window))
  BY <1>2, <1>5, <1>7, <1>9, RepresentedIsRight
<1> QED BY <1>4, <1>7, <1>8, <1>10 DEF c, SupportWithin

(* The extension of a composite episode is right if it has the minimal     *)
(* support, and too rare if not.                                           *)
LEMMA ExtendedAreRight ==
  ASSUME NEW parallel, NEW minsup, NEW times, NEW window,
         Searching(parallel, minsup, times, window),
         NEW c \in Composites(parallel, minsup, times, window), Len(c.bounds) >= minsup,
         NEW i \in DOMAIN parallel
  PROVE  LET d == CompositeExtensions(c, parallel, minsup, window)[i] IN
         /\ d \in Composites(parallel, minsup, times, window)
         /\ d.blocks = Append(c.blocks, i)
         /\ SupportWithin(parallel, d.blocks, times, window) >= minsup => Len(d.bounds) >= minsup
<1> DEFINE d == CompositeExtensions(c, parallel, minsup, window)[i]
           ext == parallel[i].locations
           L == LocationsOf(parallel, c.blocks)
           e == Extend(c.bounds, ext, minsup, window)
           more == Append(c.blocks, i)
<1>1. d = [blocks |-> more, bounds |-> IF e = None THEN <<>> ELSE e]
  BY DEF CompositeExtensions
<1>2. /\ times \subseteq Nat /\ IsFiniteSet(times) /\ Cardinality(times) <= SizeLimit
      /\ window \in Nat /\ minsup \in Nat \ {0} /\ ext \subseteq times
  BY DEF Searching
<1>3. AreBlocks(L, times) /\ Represents(c.bounds, L, times, window)
  BY CompositeIs
<1>4. c.blocks \in Seq(DOMAIN parallel)
  BY DEF Composites
<1>5. LocationsOf(parallel, more) = Append(L, ext)
  BY <1>4, LocationsAre
<1>6. more \in Seq(DOMAIN parallel) /\ more # <<>>
  BY <1>4
<1> HIDE DEF d, ext, L, e, more
<1>7. IsExtension(e, L, ext, times, minsup, window)
  BY <1>2, <1>3, ExtendIsRight DEF e
<1>8. d.blocks = more /\ d.bounds = IF e = None THEN <<>> ELSE e
  BY <1>1
<1>9. CASE e = None
  <2>1. d.bounds = <<>> /\ Len(<<>>) = 0 /\ <<>> \in Seq(Bound)
    BY <1>8, <1>9
  <2>2. ~(Len(d.bounds) >= minsup)
    BY <1>2, <2>1
  <2>3. d \in Composites(parallel, minsup, times, window)
    <3>1. d \in [blocks : Seq(DOMAIN parallel), bounds : Seq(Bound)]
      BY <1>1, <1>6, <1>9, <2>1
    <3> QED BY <1>6, <1>8, <2>2, <3>1 DEF Composites
  <2>4. ~(SupportWithin(parallel, d.blocks, times, window) >= minsup)
    <3> DEFINE s == Cardinality(Starts(Append(L, ext), times, window))
    <3>1. s < minsup /\ SupportWithin(parallel, d.blocks, times, window) = s
      BY <1>5, <1>7, <1>8, <1>9 DEF IsExtension, SupportWithin
    <3>2. s \in Nat
      <4>1. AreBlocks(Append(L, ext), times)
        BY <1>2, <1>3 DEF AreBlocks
      <4>2. Starts(Append(L, ext), times, window) \subseteq times
        <5>1. ASSUME NEW o, o \in Occurrences(Append(L, ext), times, window) PROVE o[1] \in times
          <6>1. o \in [1 .. Len(Append(L, ext)) -> times] /\ 1 \in 1 .. Len(Append(L, ext))
            <7>1. o \in [1 .. Len(Append(L, ext)) -> times]
              BY <5>1 DEF Occurrences
            <7>2. 1 \in 1 .. Len(Append(L, ext))
              BY <4>1 DEF AreBlocks
            <7> QED BY <7>1, <7>2
          <6> QED BY <6>1
        <5> QED BY <5>1 DEF Starts
      <4> QED BY <1>2, <4>2, FS_Subset, FS_CardinalityType
    <3> HIDE DEF s
    <3> QED BY <1>2, <3>1, <3>2
  <2> QED BY <1>8, <2>3, <2>4 DEF d, more
<1>10. CASE e # None
  <2>1. Represents(e, Append(L, ext), times, window)
    BY <1>7, <1>10 DEF IsExtension
  <2>2. e \in Seq(Bound) /\ d.bounds = e
    BY <1>8, <1>10, <2>1 DEF Represents, IsBoundList
  <2>3. d \in Composites(parallel, minsup, times, window)
    <3>1. d \in [blocks : Seq(DOMAIN parallel), bounds : Seq(Bound)]
      BY <1>1, <1>6, <1>10, <2>2
    <3>2. Represents(d.bounds, LocationsOf(parallel, d.blocks), times, window)
      BY <1>5, <1>8, <2>1, <2>2
    <3> QED BY <1>6, <1>8, <3>1, <3>2 DEF Composites
  <2>4. Len(d.bounds) = SupportWithin(parallel, d.blocks, times, window)
    <3>1. AreBlocks(Append(L, ext), times)
      BY <1>2, <1>3 DEF AreBlocks
    <3>2. Len(e) = Cardinality(Starts(Append(L, ext), times, window))
      BY <1>2, <2>1, <3>1, RepresentedIsRight
    <3> QED BY <1>5, <1>8, <2>2, <3>2 DEF SupportWithin
  <2> QED BY <1>8, <2>3, <2>4 DEF d, more
<1> QED BY <1>9, <1>10

(* A sequence of blocks has no more support than its beginning.            *)
LEMMA SupportGoesDown ==
  ASSUME NEW blocks, NEW times, AreBlocks(blocks, times), IsFiniteSet(times),
         NEW window \in Nat, NEW ext, ext \subseteq times
  PROVE  /\ Cardinality(Starts(Append(blocks, ext), times, window)) <= Cardinality(Starts(blocks, times, window))
         /\ Cardinality(Starts(Append(blocks, ext), times, window)) \in Nat
         /\ Cardinality(Starts(blocks, times, window)) \in Nat
<1> DEFINE S == Starts(blocks, times, window)
           T == Starts(Append(blocks, ext), times, window)
<1>1. S \subseteq times
  <2>1. ASSUME NEW o, o \in Occurrences(blocks, times, window) PROVE o[1] \in times
    <3>1. o \in [1 .. Len(blocks) -> times]
      BY <2>1 DEF Occurrences
    <3>2. 1 \in 1 .. Len(blocks)
      BY DEF AreBlocks
    <3> QED BY <3>1, <3>2
  <2> QED BY <2>1 DEF Starts
<1>2. T \subseteq S
  <2> SUFFICES ASSUME NEW s \in T PROVE s \in S
    OBVIOUS
  <2>1. PICK o : o \in Occurrences(Append(blocks, ext), times, window) /\ o[1] = s
    BY DEF Starts
  <2>2. IsOccurrence(o, Append(blocks, ext), times, window)
    BY <2>1, OccurrencesAre
  <2> DEFINE p == Shortened(o, Len(blocks))
  <2>3. IsOccurrence(p, blocks, times, window) /\ p[1] = o[1]
    BY <2>2, OccurrenceShortened
  <2> HIDE DEF p
  <2>4. p \in Occurrences(blocks, times, window)
    BY <2>3, OccurrencesAre
  <2> QED BY <2>1, <2>3, <2>4 DEF Starts
<1> HIDE DEF S, T
<1>3. IsFiniteSet(S) /\ IsFiniteSet(T)
  BY <1>1, <1>2, FS_Subset
<1>4. Cardinality(T) <= Cardinality(S) /\ Cardinality(S) \in Nat /\ Cardinality(T) \in Nat
  BY <1>2, <1>3, FS_Subset, FS_CardinalityType
<1> QED BY <1>4 DEF S, T
-----------------------------------------------------------------------------
(* Every composite episode that has the minimal support is found.          *)
IsSearch(f, parallel, minsup, window, length) ==
  f = [n \in 1 .. length |->
         IF n = 1 THEN ToSet(CompositeSeeds(parallel))
         ELSE UNION {ToSet(CompositeExtensions(c, parallel, minsup, window)) :
                       c \in {d \in f[n - 1] : Len(d.bounds) >= minsup}}]

(* The levels of the search for composite episodes exist and are finite,   *)
(* for any length.                                                         *)
LEMMA SearchWorks ==
  ASSUME NEW parallel, NEW minsup, NEW times, NEW window,
         Searching(parallel, minsup, times, window), NEW length \in Nat
  PROVE  \E f : /\ IsSearch(f, parallel, minsup, window, length)
                /\ \A n \in 1 .. length : /\ f[n] \subseteq Composites(parallel, minsup, times, window)
                                          /\ IsFiniteSet(f[n])
<1> DEFINE C == Composites(parallel, minsup, times, window)
           Y == {U \in SUBSET C : IsFiniteSet(U)}
           first == ToSet(CompositeSeeds(parallel))
           Enough(U) == {d \in U : Len(d.bounds) >= minsup}
           More(c) == ToSet(CompositeExtensions(c, parallel, minsup, window))
           then == [U \in Y |-> UNION {More(c) : c \in Enough(U)}]
<1>0. IsFiniteSet(DOMAIN parallel)
  BY DEF Searching
<1>1. first \in Y
  <2> DEFINE s == CompositeSeeds(parallel)
  <2>1. DOMAIN s = DOMAIN parallel
    BY DEF CompositeSeeds
  <2>2. \A i \in DOMAIN parallel : s[i] \in C
    BY SeedsAreRight
  <2> HIDE DEF s, C
  <2>3. ToSet(s) = {s[i] : i \in DOMAIN parallel}
    BY <2>1 DEF ToSet
  <2>4. IsFiniteSet(ToSet(s))
    BY <1>0, <2>3, ImageIs
  <2> QED BY <2>2, <2>3, <2>4 DEF s
<1>2. ASSUME NEW c \in C, Len(c.bounds) >= minsup
      PROVE  More(c) \subseteq C /\ IsFiniteSet(More(c))
  <2> DEFINE s == CompositeExtensions(c, parallel, minsup, window)
  <2>1. DOMAIN s = DOMAIN parallel
    BY DEF CompositeExtensions
  <2>2. \A i \in DOMAIN parallel : s[i] \in C
    BY <1>2, ExtendedAreRight
  <2> HIDE DEF s, C
  <2>3. ToSet(s) = {s[i] : i \in DOMAIN parallel}
    BY <2>1 DEF ToSet
  <2>4. IsFiniteSet(ToSet(s))
    BY <1>0, <2>3, ImageIs
  <2> QED BY <2>2, <2>3, <2>4 DEF s
<1> HIDE DEF C, first, More
<1>3. ASSUME NEW U \in Y PROVE UNION {More(c) : c \in Enough(U)} \in Y
  <2>1. U \subseteq C /\ IsFiniteSet(U)
    BY <1>3
  <2>2. IsFiniteSet(Enough(U)) /\ Enough(U) \subseteq U
    BY <2>1, FS_Subset
  <2>3. \A c \in Enough(U) : c \in C /\ Len(c.bounds) >= minsup
    BY <2>1
  <2> HIDE DEF Enough
  <2> DEFINE g == [c \in Enough(U) |-> More(c)]
             G == {More(c) : c \in Enough(U)}
  <2>4. G = {g[c] : c \in Enough(U)}
    OBVIOUS
  <2>5. IsFiniteSet(G)
    <3> HIDE DEF G, g
    <3> QED BY <2>2, <2>4, ImageIs
  <2>6. \A S \in G : S \subseteq C /\ IsFiniteSet(S)
    BY <1>2, <2>3
  <2> HIDE DEF G
  <2>7. IsFiniteSet(UNION G)
    BY <2>5, <2>6, FS_UNION
  <2>8. UNION G \in Y
    BY <2>6, <2>7
  <2> QED BY <2>8 DEF G
<1>4. then \in [Y -> Y]
  <2> HIDE DEF Y, Enough
  <2> QED BY <1>3
<1>5. \E F \in [1 .. length -> Y] : \A m \in 1 .. length : F[m] = IF m = 1 THEN first ELSE then[F[m - 1]]
  <2> HIDE DEF Y, then
  <2> QED BY <1>1, <1>4, RepeatWorks, SMTT(30)
<1>6. PICK F \in [1 .. length -> Y] : \A m \in 1 .. length : F[m] = IF m = 1 THEN first ELSE then[F[m - 1]]
  BY <1>5
<1>7. ASSUME NEW m \in 1 .. length
      PROVE  F[m] = IF m = 1 THEN first ELSE UNION {More(c) : c \in Enough(F[m - 1])}
  <2>1. m # 1 => F[m - 1] \in Y
    <3>1. m # 1 => m - 1 \in 1 .. length
      OBVIOUS
    <3> HIDE DEF Y
    <3> QED BY <3>1
  <2> HIDE DEF Y, Enough
  <2> QED BY <1>6, <2>1
<1>8. F = [m \in 1 .. length |-> F[m]]
  OBVIOUS
<1>9. IsSearch(F, parallel, minsup, window, length)
  <2> HIDE DEF Y
  <2> QED BY <1>7, <1>8, Zenon DEF IsSearch, first, More
<1>10. \A n \in 1 .. length : F[n] \subseteq C /\ IsFiniteSet(F[n])
  OBVIOUS
<1> QED BY <1>9, <1>10 DEF C

(* What the search finds.                                                  *)
IndexSequences(parallel, length) == UNION {[1 .. n -> DOMAIN parallel] : n \in 1 .. length}
AreComposites(found, parallel, minsup, times, window, length) ==
  /\ IsFiniteSet(found)
  /\ \A c \in found : /\ c.blocks \in IndexSequences(parallel, length)
                      /\ Len(c.bounds) = SupportWithin(parallel, c.blocks, times, window)
                      /\ Len(c.bounds) >= minsup
  /\ \A b \in IndexSequences(parallel, length) :
       SupportWithin(parallel, b, times, window) >= minsup => \E c \in found : c.blocks = b
  /\ \A c, d \in found : c.blocks = d.blocks => c = d

(* The search finds every composite episode with the minimal support,      *)
(* once, with its support, and nothing else: the support falls with every  *)
(* extension.                                                              *)
LEMMA CompositesAre ==
  ASSUME NEW parallel, NEW minsup, NEW times, NEW window,
         Searching(parallel, minsup, times, window), NEW length \in Nat
  PROVE  AreComposites(CompositeEpisodes(parallel, minsup, window, length),
                       parallel, minsup, times, window, length)
<1> DEFINE C == Composites(parallel, minsup, times, window)
           f == CHOOSE g : IsSearch(g, parallel, minsup, window, length)
           found == CompositeEpisodes(parallel, minsup, window, length)
           I == DOMAIN parallel
           first == ToSet(CompositeSeeds(parallel))
           Enough(U) == {d \in U : Len(d.bounds) >= minsup}
           More(c) == ToSet(CompositeExtensions(c, parallel, minsup, window))
           Further(U) == UNION {More(c) : c \in Enough(U)}
<1>1. IsSearch(f, parallel, minsup, window, length)
  BY SearchWorks
<1>2. found = {c \in UNION {f[n] : n \in 1 .. length} : Len(c.bounds) >= minsup}
  BY Zenon DEF CompositeEpisodes, IsSearch
<1> HIDE DEF f
<1>3. PICK F : /\ IsSearch(F, parallel, minsup, window, length)
               /\ \A n \in 1 .. length : F[n] \subseteq C /\ IsFiniteSet(F[n])
  BY SearchWorks
<1>4. ASSUME NEW g, IsSearch(g, parallel, minsup, window, length), NEW n \in 1 .. length
      PROVE  g[n] = IF n = 1 THEN first ELSE Further(g[n - 1])
  BY <1>4, Zenon DEF IsSearch
<1> HIDE DEF found, first, Further, C
<1>5. \A n \in 1 .. length : f[n] = F[n]
  <2> DEFINE P == {n \in Nat : n + 1 <= length => f[n + 1] = F[n + 1]}
  <2>1. 0 \in P
    <3> SUFFICES ASSUME 1 <= length PROVE f[1] = F[1]
      OBVIOUS
    <3>1. 1 \in 1 .. length
      OBVIOUS
    <3>2. f[1] = first /\ F[1] = first
      BY <1>1, <1>3, <1>4, <3>1
    <3> QED BY <3>2
  <2>2. ASSUME NEW n \in Nat, n \in P PROVE n + 1 \in P
    <3> SUFFICES ASSUME n + 1 + 1 <= length PROVE f[n + 1 + 1] = F[n + 1 + 1]
      OBVIOUS
    <3> DEFINE j == n + 1 + 1
    <3>1. j \in 1 .. length /\ j # 1 /\ j - 1 = n + 1 /\ n + 1 <= length
      OBVIOUS
    <3> HIDE DEF j
    <3>2. f[j] = Further(f[j - 1]) /\ F[j] = Further(F[j - 1])
      BY <1>1, <1>3, <1>4, <3>1
    <3>3. f[j - 1] = F[j - 1]
      BY <2>2, <3>1
    <3>4. f[j] = F[j]
      BY <3>2, <3>3
    <3> QED BY <3>4 DEF j
  <2>3. \A n \in Nat : n \in P
    <3> HIDE DEF P
    <3> QED BY <2>1, <2>2, CountingUp
  <2> SUFFICES ASSUME NEW n \in 1 .. length PROVE f[n] = F[n]
    OBVIOUS
  <2>4. n - 1 \in Nat /\ n - 1 + 1 = n /\ n <= length
    OBVIOUS
  <2>5. n - 1 \in P
    BY <2>3, <2>4
  <2> QED BY <2>4, <2>5
<1>6. \A n \in 1 .. length : f[n] \subseteq C /\ IsFiniteSet(f[n])
  BY <1>3, <1>5
<1>7. 1 \in 1 .. length => f[1] = first
  BY <1>1, <1>4
<1>8. ASSUME NEW n \in Nat, n + 2 <= length PROVE f[n + 2] = Further(f[n + 1])
  <2> DEFINE j == n + 2
  <2>1. j \in 1 .. length /\ j # 1 /\ j - 1 = n + 1
    BY <1>8
  <2> HIDE DEF j
  <2>2. f[j] = Further(f[j - 1])
    BY <1>1, <1>4, <2>1
  <2> QED BY <2>1, <2>2 DEF j
<1>9. \A c \in C : c.blocks \in Seq(I)
  BY DEF C, Composites
<1>10. ASSUME NEW i \in I
       PROVE  /\ CompositeSeeds(parallel)[i] \in first /\ CompositeSeeds(parallel)[i].blocks = <<i>>
              /\ CompositeSeeds(parallel)[i] \in C
              /\ Len(CompositeSeeds(parallel)[i].bounds) = SupportWithin(parallel, <<i>>, times, window)
  <2>1. CompositeSeeds(parallel)[i] \in first
    BY DEF first, ToSet, CompositeSeeds
  <2> QED BY <2>1, SeedsAreRight DEF C
<1>11. \A c \in first : \E i \in I : c = CompositeSeeds(parallel)[i]
  BY DEF first, ToSet, CompositeSeeds
<1>12. ASSUME NEW c \in C, Len(c.bounds) >= minsup, NEW i \in I
       PROVE  LET d == CompositeExtensions(c, parallel, minsup, window)[i] IN
              /\ d \in More(c) /\ d.blocks = Append(c.blocks, i)
              /\ SupportWithin(parallel, d.blocks, times, window) >= minsup => Len(d.bounds) >= minsup
  <2>1. CompositeExtensions(c, parallel, minsup, window)[i] \in More(c)
    BY DEF ToSet, CompositeExtensions
  <2> HIDE DEF More
  <2> QED BY <1>12, <2>1, ExtendedAreRight DEF C
<1>13. \A c : \A d \in More(c) : \E i \in I : d = CompositeExtensions(c, parallel, minsup, window)[i]
  BY DEF ToSet, CompositeExtensions
<1> HIDE DEF More
<1>14. \A n \in 1 .. length : \A c \in f[n] : Len(c.blocks) = n
  <2> DEFINE P == {n \in Nat : n + 1 <= length => \A c \in f[n + 1] : Len(c.blocks) = n + 1}
  <2>1. 0 \in P
    <3> SUFFICES ASSUME 1 <= length, NEW c \in f[1] PROVE Len(c.blocks) = 1
      OBVIOUS
    <3>1. c \in first
      BY <1>7
    <3>2. PICK i \in I : c.blocks = <<i>>
      BY <1>10, <1>11, <3>1
    <3> QED BY <3>2
  <2>2. ASSUME NEW n \in Nat, n \in P PROVE n + 1 \in P
    <3> SUFFICES ASSUME n + 1 + 1 <= length, NEW d \in f[n + 1 + 1] PROVE Len(d.blocks) = n + 2
      OBVIOUS
    <3>1. n + 1 + 1 = n + 2 /\ n + 1 \in 1 .. length
      OBVIOUS
    <3>2. d \in Further(f[n + 1])
      BY <1>8, <3>1
    <3>3. PICK c \in f[n + 1] : Len(c.bounds) >= minsup /\ d \in More(c)
      BY <3>2 DEF Further
    <3>4. c \in C /\ Len(c.blocks) = n + 1
      BY <1>6, <2>2, <3>1, <3>3
    <3>5. PICK i \in I : d.blocks = Append(c.blocks, i)
      BY <1>12, <1>13, <3>3, <3>4
    <3>6. c.blocks \in Seq(I)
      BY <1>9, <3>4
    <3> QED BY <3>4, <3>5, <3>6
  <2>3. \A n \in Nat : n \in P
    <3> HIDE DEF P
    <3> QED BY <2>1, <2>2, CountingUp
  <2> SUFFICES ASSUME NEW n \in 1 .. length, NEW c \in f[n] PROVE Len(c.blocks) = n
    OBVIOUS
  <2>4. n - 1 \in Nat /\ n - 1 + 1 = n /\ n <= length
    OBVIOUS
  <2>5. n - 1 \in P
    BY <2>3, <2>4
  <2> QED BY <2>4, <2>5
<1>15. ASSUME NEW n \in 1 .. length, NEW b \in [1 .. n -> I],
              SupportWithin(parallel, b, times, window) >= minsup
       PROVE  \E c \in f[n] : c.blocks = b /\ Len(c.bounds) >= minsup
  <2> DEFINE Q == {m \in Nat : m + 1 <= length =>
                     \A u \in [1 .. m + 1 -> I] : SupportWithin(parallel, u, times, window) >= minsup =>
                       \E c \in f[m + 1] : c.blocks = u /\ Len(c.bounds) >= minsup}
  <2>1. 0 \in Q
    <3> SUFFICES ASSUME 1 <= length, NEW u \in [1 .. 1 -> I], SupportWithin(parallel, u, times, window) >= minsup
                 PROVE  \E c \in f[1] : c.blocks = u /\ Len(c.bounds) >= minsup
      OBVIOUS
    <3>1. u = <<u[1]>> /\ u[1] \in I
      <4>1. DOMAIN u = 1 .. 1 /\ 1 \in 1 .. 1 /\ \A j : j \in 1 .. 1 <=> j = 1
        OBVIOUS
      <4> DEFINE one == 1
      <4>3. \A l \in Nat : \A w \in [1 .. l -> I] : w \in Seq(I) /\ Len(w) = l
        OBVIOUS
      <4>4. one \in Nat /\ u \in [1 .. one -> I]
        OBVIOUS
      <4> HIDE DEF one
      <4>5. u \in Seq(I) /\ Len(u) = one
        BY <4>3, <4>4
      <4>2. u \in Seq(I) /\ Len(u) = 1
        BY <4>5 DEF one
      <4> QED BY <4>1, <4>2
    <3> DEFINE c == CompositeSeeds(parallel)[u[1]]
    <3>2. c \in f[1] /\ c.blocks = <<u[1]>> /\ Len(c.bounds) = SupportWithin(parallel, <<u[1]>>, times, window)
      BY <1>7, <1>10, <3>1
    <3> HIDE DEF c
    <3> QED BY <3>1, <3>2
  <2>2. ASSUME NEW m \in Nat, m \in Q PROVE m + 1 \in Q
    <3> SUFFICES ASSUME m + 1 + 1 <= length, NEW u \in [1 .. m + 1 + 1 -> I],
                        SupportWithin(parallel, u, times, window) >= minsup
                 PROVE  \E c \in f[m + 1 + 1] : c.blocks = u /\ Len(c.bounds) >= minsup
      OBVIOUS
    <3> DEFINE i == u[m + 2]
               v == [j \in 1 .. m + 1 |-> u[j]]
    <3>1. /\ m + 1 + 1 = m + 2 /\ i \in I /\ v \in [1 .. m + 1 -> I] /\ v \in Seq(I) /\ Len(v) = m + 1
      OBVIOUS
    <3>2. Append(v, i) = u
      <4>1. \A j \in 1 .. m + 2 : Append(v, i)[j] = u[j]
        <5> SUFFICES ASSUME NEW j \in 1 .. m + 2 PROVE Append(v, i)[j] = u[j]
          OBVIOUS
        <5>1. CASE j = m + 2
          BY <5>1
        <5>2. CASE j # m + 2
          BY <5>2
        <5> QED BY <5>1, <5>2
      <4>2. Append(v, i) \in Seq(I) /\ Len(Append(v, i)) = m + 2
        BY <3>1
      <4>3. u \in Seq(I) /\ Len(u) = m + 2
        BY <3>1
      <4> QED BY <4>1, <4>2, <4>3
    <3> HIDE DEF i, v
    <3>3. SupportWithin(parallel, v, times, window) >= minsup
      <4> DEFINE L == LocationsOf(parallel, v)
                 ext == parallel[i].locations
      <4>1. v # <<>>
        BY <3>1
      <4>2. AreBlocks(L, times) /\ LocationsOf(parallel, u) = Append(L, ext)
        BY <3>1, <3>2, <4>1, LocationsAre
      <4>3. IsFiniteSet(times) /\ window \in Nat /\ minsup \in Nat /\ ext \subseteq times
        BY <3>1 DEF Searching
      <4> HIDE DEF L, ext
      <4> DEFINE x == Cardinality(Starts(Append(L, ext), times, window))
                 y == Cardinality(Starts(L, times, window))
      <4>4. x <= y /\ x \in Nat /\ y \in Nat
        BY <4>2, <4>3, SupportGoesDown
      <4>5. x >= minsup
        BY <4>2 DEF SupportWithin
      <4> HIDE DEF x, y
      <4>6. y >= minsup
        BY <4>3, <4>4, <4>5
      <4> QED BY <4>6 DEF SupportWithin, y, L
    <3>4. PICK c \in f[m + 1] : c.blocks = v /\ Len(c.bounds) >= minsup
      BY <2>2, <3>1, <3>3
    <3>5. c \in C
      <4>1. m + 1 \in 1 .. length
        OBVIOUS
      <4> QED BY <1>6, <3>4, <4>1
    <3> DEFINE d == CompositeExtensions(c, parallel, minsup, window)[i]
    <3>6. d \in More(c) /\ d.blocks = Append(c.blocks, i)
          /\ (SupportWithin(parallel, d.blocks, times, window) >= minsup => Len(d.bounds) >= minsup)
      BY <1>12, <3>1, <3>4, <3>5
    <3> HIDE DEF d
    <3>7. d \in f[m + 2]
      <4>1. d \in Further(f[m + 1])
        BY <3>4, <3>6 DEF Further
      <4> QED BY <1>8, <3>1, <4>1
    <3> QED BY <3>1, <3>2, <3>4, <3>6, <3>7
  <2>3. \A m \in Nat : m \in Q
    <3> HIDE DEF Q
    <3> QED BY <2>1, <2>2, CountingUp
  <2>4. n - 1 \in Nat /\ n - 1 + 1 = n /\ n <= length
    OBVIOUS
  <2>5. n - 1 \in Q
    BY <2>3, <2>4
  <2> QED BY <1>15, <2>4, <2>5
<1>16. \A c : c \in found <=> (\E n \in 1 .. length : c \in f[n]) /\ Len(c.bounds) >= minsup
  BY <1>2
<1>17. \A c \in found : c \in C /\ Len(c.bounds) >= minsup
  BY <1>6, <1>16
<1>18. IsFiniteSet(found)
  <2>1. IsFiniteSet(1 .. length)
    BY FS_Interval
  <2>2. IsFiniteSet({f[n] : n \in 1 .. length})
    BY <2>1, ImageIs
  <2>3. IsFiniteSet(UNION {f[n] : n \in 1 .. length})
    <3> DEFINE G == {f[n] : n \in 1 .. length}
    <3>1. \A U \in G : IsFiniteSet(U)
      BY <1>6
    <3> HIDE DEF G
    <3>2. IsFiniteSet(UNION G)
      BY <2>2, <3>1, FS_UNION DEF G
    <3> QED BY <3>2 DEF G
  <2>4. found \subseteq UNION {f[n] : n \in 1 .. length}
    BY <1>2
  <2> QED BY <2>3, <2>4, FS_Subset
<1>19. ASSUME NEW c \in found
       PROVE  /\ c.blocks \in IndexSequences(parallel, length)
              /\ Len(c.bounds) = SupportWithin(parallel, c.blocks, times, window)
              /\ Len(c.bounds) >= minsup
  <2>1. PICK n \in 1 .. length : c \in f[n]
    BY <1>16
  <2>2. c.blocks \in Seq(I) /\ Len(c.blocks) = n
    BY <1>6, <1>9, <1>14, <2>1
  <2>3. c.blocks \in [1 .. n -> I]
    BY <2>2
  <2>4. Len(c.bounds) = SupportWithin(parallel, c.blocks, times, window)
    BY <1>17, CompositeIs DEF C
  <2> QED BY <1>17, <2>3, <2>4 DEF IndexSequences
<1>20. ASSUME NEW b \in IndexSequences(parallel, length), SupportWithin(parallel, b, times, window) >= minsup
       PROVE  \E c \in found : c.blocks = b
  <2>1. PICK n \in 1 .. length : b \in [1 .. n -> I]
    BY DEF IndexSequences
  <2>2. PICK c \in f[n] : c.blocks = b /\ Len(c.bounds) >= minsup
    BY <1>15, <1>20, <2>1
  <2> QED BY <1>16, <2>2
<1>21. ASSUME NEW c \in found, NEW d \in found, c.blocks = d.blocks PROVE c = d
  BY <1>17, <1>21, CompositeIsOne DEF C
<1>22. AreComposites(found, parallel, minsup, times, window, length)
  BY <1>18, <1>19, <1>20, <1>21 DEF AreComposites
<1> QED BY <1>22 DEF found
-----------------------------------------------------------------------------
(* What TKE has when its first miner has answered: the frequent events F,  *)
(* their new numbers, the best parallel episodes in order, and the minimal *)
(* support the second miner starts from.                                   *)
Chosen(database, k, F, least, frequent, top, parallel, minsup) ==
  LET R == Renamed(database, frequent)
      all == OccurringEpisodes(R, Cardinality(F)) IN
  /\ IsDatabase(database) /\ k \in Nat \ {0} /\ least \in Nat \ {0}
  /\ F = {e \in Events(database) : EventSupport(database, e) >= least}
  /\ Cardinality(Events(database)) <= k => F = Events(database)
  /\ Cardinality(Events(database)) > k => Cardinality(F) >= k
  /\ IsMapping(frequent, F)
  /\ top \in Answers(all, k, ParallelSupport(all), ParallelSupport(all))
  /\ parallel = CHOOSE s \in Descending(top) : TRUE
  /\ minsup = IF Len(parallel) >= k THEN Cardinality(Last(parallel).locations) ELSE 1

(* What the first miner's answer has: for all that occurs, by its events.  *)
LEMMA TopIs ==
  ASSUME NEW database, NEW k, NEW F, NEW least, NEW frequent, NEW top, NEW parallel, NEW minsup,
         Chosen(database, k, F, least, frequent, top, parallel, minsup)
  PROVE  LET R == Renamed(database, frequent)
             n == Cardinality(F)
             B == {Y \in BlocksBelow(n) : Everywhere(R, Y) # {}}
             p == Len(parallel) IN
         /\ n \in Nat
         /\ \A Y \in B : /\ Everywhere(R, Y) = Everywhere(database, Real(frequent, Y))
                         /\ Cardinality(Everywhere(R, Y)) \in Nat \ {0}
         /\ p \in Nat /\ p = Cardinality(top) /\ p <= k /\ IsFiniteSet(top)
         /\ \A q \in top : \E Y \in B : q = ParallelOf(R, Y)
         /\ (\E Y \in B : ParallelOf(R, Y) \notin top) => p = k
         /\ \A Y \in B : ParallelOf(R, Y) \notin top =>
              \A q \in top : Cardinality(Everywhere(R, Y)) <= Cardinality(q.locations)
         /\ parallel \in [1 .. p -> top]
         /\ \A q \in top : \E i \in 1 .. p : parallel[i] = q
         /\ \A i, j \in 1 .. p : parallel[i] = parallel[j] => i = j
         /\ \A i \in 1 .. p : Cardinality(Last(parallel).locations) <= Cardinality(parallel[i].locations)
<1> DEFINE R == Renamed(database, frequent)
           n == Cardinality(F)
           B == {Y \in BlocksBelow(n) : Everywhere(R, Y) # {}}
           p == Len(parallel)
           all == OccurringEpisodes(R, n)
<1>1. n \in Nat /\ IsMapping(frequent, F)
  BY DEF Chosen, IsMapping
<1>2. DOMAIN R = DOMAIN database /\ IsFiniteSet(DOMAIN database)
  <2>1. IsFiniteSet(DOMAIN database)
    BY EventsAre DEF Chosen
  <2> QED BY <2>1 DEF Renamed
<1>3. ASSUME NEW Y \in B
      PROVE  /\ Everywhere(R, Y) = Everywhere(database, Real(frequent, Y))
             /\ Cardinality(Everywhere(R, Y)) \in Nat \ {0}
  <2>1. Y \in SUBSET (0 .. n - 1)
    BY DEF BlocksBelow
  <2>2. Everywhere(R, Y) = Everywhere(database, Real(frequent, Y))
    <3>1. IsDatabase(database)
      BY DEF Chosen
    <3> QED BY <1>1, <2>1, <3>1, RenamedIs
  <2> DEFINE L == Everywhere(R, Y)
  <2>3. L \subseteq DOMAIN database /\ L # {}
    BY <1>2 DEF Everywhere
  <2> HIDE DEF L
  <2>4. IsFiniteSet(L)
    BY <1>2, <2>3, FS_Subset
  <2>5. Cardinality(L) \in Nat /\ Cardinality(L) # 0
    BY <2>3, <2>4, FS_CardinalityType, FS_EmptySet
  <2> QED BY <2>2, <2>5 DEF L
<1> HIDE DEF R, n
<1>4. all = {ParallelOf(R, Y) : Y \in B}
  BY <1>1, OccurringAre
<1>5. IsFiniteSet(all)
  <2>1. all \subseteq AllParallel(R, n)
    BY <1>4 DEF AllParallel
  <2> HIDE DEF all
  <2> QED BY <1>1, <2>1, AllParallelIsFinite, FS_Subset
<1>6. k \in Nat /\ top \in Answers(all, k, ParallelSupport(all), ParallelSupport(all))
  BY DEF Chosen, R, n
<1>7. \A q \in all : ParallelSupport(all)[q] = Cardinality(q.locations)
  BY DEF ParallelSupport
<1> HIDE DEF all, B
<1>8. /\ top \subseteq all /\ IsFiniteSet(top) /\ Cardinality(top) <= k
      /\ top # all => Cardinality(top) = k
      /\ \A e \in top, f \in all \ top : ParallelSupport(all)[f] <= ParallelSupport(all)[e]
  BY <1>5, <1>6, AnswersAre
<1>9. \A Y : ParallelOf(R, Y).locations = Everywhere(R, Y)
  BY DEF ParallelOf
<1>10. \A q \in top : \E Y \in B : q = ParallelOf(R, Y)
  BY <1>4, <1>8
<1>11. \A q \in top : Cardinality(q.locations) \in Nat
  BY <1>3, <1>9, <1>10
<1>12. parallel = CHOOSE s \in Descending(top) : TRUE
  BY DEF Chosen
<1>13. /\ Cardinality(top) \in Nat /\ parallel \in [1 .. Cardinality(top) -> top] /\ p = Cardinality(top)
       /\ \A e \in top : \E i \in 1 .. Cardinality(top) : parallel[i] = e
       /\ \A i, j \in 1 .. Cardinality(top) : parallel[i] = parallel[j] => i = j
       /\ \A i \in 1 .. Cardinality(top) : Cardinality(Last(parallel).locations) <= Cardinality(parallel[i].locations)
  BY <1>8, <1>11, <1>12, DescendingIs
<1>14. (\E Y \in B : ParallelOf(R, Y) \notin top) => p = k
  BY <1>4, <1>8, <1>13
<1>15. ASSUME NEW Y \in B, ParallelOf(R, Y) \notin top, NEW q \in top
       PROVE  Cardinality(Everywhere(R, Y)) <= Cardinality(q.locations)
  <2>1. ParallelOf(R, Y) \in all \ top
    BY <1>4, <1>15
  <2>2. ParallelSupport(all)[ParallelOf(R, Y)] <= ParallelSupport(all)[q]
    BY <1>8, <2>1
  <2>3. ParallelSupport(all)[ParallelOf(R, Y)] = Cardinality(ParallelOf(R, Y).locations)
        /\ ParallelSupport(all)[q] = Cardinality(q.locations)
    BY <1>7, <1>8, <2>1
  <2> QED BY <1>9, <2>2, <2>3
<1> QED BY <1>1, <1>3, <1>8, <1>10, <1>13, <1>14, <1>15 DEF R, n, B

(* What the second miner gets: it can search; its parallel episodes are    *)
(* different sets of events of the data, with their times; and among them  *)
(* is every set that occurs more often than the minimal support.           *)
ParallelIsRight(database, k, frequent, parallel, minsup) ==
  LET p == Len(parallel)
      block(i) == Real(frequent, parallel[i].events) IN
  /\ p \in Nat /\ p <= k /\ DOMAIN parallel = 1 .. p /\ minsup \in Nat \ {0}
  /\ \A i \in 1 .. p : /\ block(i) \in (SUBSET Events(database)) \ {{}}
                       /\ parallel[i].locations = Everywhere(database, block(i))
                       /\ parallel[i].locations # {}
                       /\ p >= k => minsup <= Cardinality(parallel[i].locations)
  /\ \A i, j \in 1 .. p : block(i) = block(j) => i = j
  /\ \A b \in (SUBSET Events(database)) \ {{}} :
       /\ Everywhere(database, b) # {}
       /\ p >= k => Cardinality(Everywhere(database, b)) > minsup
       => \E i \in 1 .. p : block(i) = b
  /\ p < k => minsup = 1

(* What the first miner returns is what the second may build on, however   *)
(* ties are broken: every block left out occurs no more often than the     *)
(* minimal support, or there was none to leave out.                        *)
LEMMA ParallelAreRight ==
  ASSUME NEW database, NEW k, NEW F, NEW least, NEW frequent, NEW top, NEW parallel, NEW minsup,
         Chosen(database, k, F, least, frequent, top, parallel, minsup)
  PROVE  ParallelIsRight(database, k, frequent, parallel, minsup)
<1> DEFINE R == Renamed(database, frequent)
           n == Cardinality(F)
           B == {Y \in BlocksBelow(n) : Everywhere(R, Y) # {}}
           p == Len(parallel)
           E == Events(database)
           block(i) == Real(frequent, parallel[i].events)
<1>1. /\ n \in Nat
      /\ \A Y \in B : /\ Everywhere(R, Y) = Everywhere(database, Real(frequent, Y))
                      /\ Cardinality(Everywhere(R, Y)) \in Nat \ {0}
      /\ p \in Nat /\ p = Cardinality(top) /\ p <= k /\ IsFiniteSet(top)
      /\ \A q \in top : \E Y \in B : q = ParallelOf(R, Y)
      /\ (\E Y \in B : ParallelOf(R, Y) \notin top) => p = k
  BY TopIs
<1>2. /\ \A Y \in B : ParallelOf(R, Y) \notin top =>
           \A q \in top : Cardinality(Everywhere(R, Y)) <= Cardinality(q.locations)
      /\ parallel \in [1 .. p -> top]
      /\ \A q \in top : \E i \in 1 .. p : parallel[i] = q
      /\ \A i, j \in 1 .. p : parallel[i] = parallel[j] => i = j
      /\ \A i \in 1 .. p : Cardinality(Last(parallel).locations) <= Cardinality(parallel[i].locations)
  BY TopIs, SMTT(30)
<1>3. /\ IsDatabase(database) /\ k \in Nat \ {0} /\ least \in Nat \ {0}
      /\ F = {e \in E : EventSupport(database, e) >= least}
      /\ Cardinality(E) <= k => F = E
      /\ Cardinality(E) > k => Cardinality(F) >= k
      /\ IsMapping(frequent, F)
      /\ minsup = IF p >= k THEN Cardinality(Last(parallel).locations) ELSE 1
  BY DEF Chosen
<1>4. /\ DOMAIN R = DOMAIN database
      /\ \A X \in SUBSET (0 .. n - 1) :
           /\ Everywhere(R, X) = Everywhere(database, Real(frequent, X))
           /\ Real(frequent, X) \subseteq F
           /\ \A Y \in SUBSET (0 .. n - 1) : Real(frequent, X) = Real(frequent, Y) => X = Y
      /\ \A b \in SUBSET F : \E X \in SUBSET (0 .. n - 1) : Real(frequent, X) = b /\ (b # {} => X # {})
  BY <1>3, RenamedIs
<1>5. \A Y : ParallelOf(R, Y).locations = Everywhere(R, Y) /\ ParallelOf(R, Y).events = Y
  BY DEF ParallelOf
<1>6. \A Y \in B : Y \in SUBSET (0 .. n - 1) /\ Y # {} /\ Everywhere(R, Y) # {}
  BY DEF BlocksBelow
<1>7. \A b \in (SUBSET F) \ {{}} : Everywhere(database, b) # {} => \E Y \in B : Real(frequent, Y) = b
  <2> SUFFICES ASSUME NEW b \in (SUBSET F) \ {{}}, Everywhere(database, b) # {}
               PROVE  \E Y \in B : Real(frequent, Y) = b
    OBVIOUS
  <2>1. PICK X \in SUBSET (0 .. n - 1) : Real(frequent, X) = b /\ X # {}
    BY <1>4
  <2>2. Everywhere(R, X) # {}
    BY <1>4, <2>1
  <2> QED BY <2>1, <2>2 DEF BlocksBelow
<1> HIDE DEF B, R, n, E, p
<1>8. F \subseteq E /\ E \subseteq Nat /\ IsFiniteSet(E) /\ IsFiniteSet(F) /\ IsFiniteSet(DOMAIN database)
  <2>1. E \subseteq Nat /\ IsFiniteSet(E) /\ IsFiniteSet(DOMAIN database)
    BY <1>3, EventsAre DEF E
  <2> QED BY <1>3, <2>1, FS_Subset
<1>9. ASSUME NEW i \in 1 .. p
      PROVE  \E Y \in B : /\ parallel[i] = ParallelOf(R, Y) /\ parallel[i].events = Y
                          /\ block(i) = Real(frequent, Y)
                          /\ parallel[i].locations = Everywhere(R, Y)
                          /\ Cardinality(parallel[i].locations) \in Nat \ {0}
  <2>1. PICK Y \in B : parallel[i] = ParallelOf(R, Y)
    BY <1>1, <1>2
  <2> QED BY <1>1, <1>5, <2>1
<1>10. ASSUME NEW i \in 1 .. p
       PROVE  /\ block(i) \in (SUBSET E) \ {{}}
              /\ parallel[i].locations = Everywhere(database, block(i))
              /\ parallel[i].locations # {}
              /\ Cardinality(parallel[i].locations) \in Nat \ {0}
  <2>1. PICK Y \in B : /\ block(i) = Real(frequent, Y) /\ parallel[i].locations = Everywhere(R, Y)
                       /\ Cardinality(parallel[i].locations) \in Nat \ {0}
    BY <1>9
  <2>2. Real(frequent, Y) \subseteq F
    BY <1>4, <1>6
  <2>3. Real(frequent, Y) # {}
    BY <1>6 DEF Real
  <2>4. Everywhere(R, Y) = Everywhere(database, Real(frequent, Y)) /\ Everywhere(R, Y) # {}
    BY <1>1, <1>6
  <2> HIDE DEF block
  <2> QED BY <1>8, <2>1, <2>2, <2>3, <2>4
<1>11. ASSUME NEW i \in 1 .. p, NEW j \in 1 .. p, block(i) = block(j) PROVE i = j
  <2>1. PICK X \in B : parallel[i] = ParallelOf(R, X) /\ block(i) = Real(frequent, X)
    BY <1>9
  <2>2. PICK Y \in B : parallel[j] = ParallelOf(R, Y) /\ block(j) = Real(frequent, Y)
    BY <1>9
  <2> HIDE DEF block
  <2>3. X = Y
    BY <1>4, <1>6, <1>11, <2>1, <2>2
  <2> QED BY <1>2, <2>1, <2>2, <2>3
<1>12. p >= k => p \in 1 .. p /\ Last(parallel) = parallel[p]
  BY <1>1, <1>3 DEF Last, p
<1>13. minsup \in Nat \ {0} /\ (p < k => minsup = 1)
       /\ \A i \in 1 .. p : p >= k => minsup <= Cardinality(parallel[i].locations)
  <2>1. CASE p >= k
    <3>1. minsup = Cardinality(parallel[p].locations) /\ minsup = Cardinality(Last(parallel).locations)
      BY <1>3, <1>12, <2>1
    <3>2. minsup \in Nat \ {0}
      BY <1>10, <1>12, <2>1, <3>1
    <3>3. ~(p < k)
      BY <1>1, <1>3, <2>1
    <3> QED BY <1>2, <3>1, <3>2, <3>3
  <2>2. CASE ~(p >= k)
    BY <1>3, <2>2
  <2> QED BY <2>1, <2>2
(* A frequent event is a parallel episode.                                 *)
<1>14. ASSUME NEW e \in F
       PROVE  /\ \E Y \in B : Real(frequent, Y) = {e}
              /\ Everywhere(database, {e}) = LocationList(database, e)
              /\ Cardinality(Everywhere(database, {e})) >= least
  <2>1. Everywhere(database, {e}) = LocationList(database, e)
    BY DEF Everywhere, LocationList
  <2>2. Cardinality(LocationList(database, e)) >= least
    BY <1>3 DEF EventSupport
  <2>3. LocationList(database, e) # {}
    <3>1. Cardinality({}) = 0
      BY FS_EmptySet
    <3> QED BY <1>3, <2>2, <3>1
  <2>4. {e} \in (SUBSET F) \ {{}}
    OBVIOUS
  <2>5. \E Y \in B : Real(frequent, Y) = {e}
    BY <1>7, <2>1, <2>3, <2>4
  <2> QED BY <2>1, <2>2, <2>5
<1> DEFINE single == [e \in F |-> ParallelOf(R, CHOOSE Y \in B : Real(frequent, Y) = {e})]
<1>15. ASSUME NEW e \in F
       PROVE  /\ \E Y \in B : single[e] = ParallelOf(R, Y) /\ Real(frequent, Y) = {e}
              /\ single[e].locations = Everywhere(database, {e})
  <2>1. PICK Y \in B : Y = (CHOOSE X \in B : Real(frequent, X) = {e}) /\ Real(frequent, Y) = {e}
    BY <1>14
  <2>2. single[e] = ParallelOf(R, Y)
    BY <2>1
  <2> HIDE DEF single
  <2> QED BY <1>1, <1>5, <2>1, <2>2
<1> HIDE DEF single
<1>16. \A d, e \in F : single[d] = single[e] => d = e
  <2> SUFFICES ASSUME NEW d \in F, NEW e \in F, single[d] = single[e] PROVE d = e
    OBVIOUS
  <2>1. PICK X \in B : single[d] = ParallelOf(R, X) /\ Real(frequent, X) = {d}
    BY <1>15
  <2>2. PICK Y \in B : single[e] = ParallelOf(R, Y) /\ Real(frequent, Y) = {e}
    BY <1>15
  <2>3. X = Y
    <3>1. ParallelOf(R, X) = ParallelOf(R, Y)
      BY <2>1, <2>2
    <3>2. ParallelOf(R, X).events = X /\ ParallelOf(R, Y).events = Y
      BY <1>5
    <3> QED BY <3>1, <3>2
  <2> QED BY <2>1, <2>2, <2>3
<1>17. Cardinality({single[e] : e \in F}) = n /\ IsFiniteSet({single[e] : e \in F})
  BY <1>8, <1>16, ImageIs DEF n
<1>18. (\A e \in F : single[e] \in top) => n <= p
  <2> SUFFICES ASSUME \A e \in F : single[e] \in top PROVE n <= p
    OBVIOUS
  <2> DEFINE S == {single[e] : e \in F}
  <2>1. S \subseteq top
    OBVIOUS
  <2>2. Cardinality(S) = n
    BY <1>17
  <2> HIDE DEF S
  <2>3. Cardinality(S) <= Cardinality(top)
    BY <1>1, <2>1, FS_Subset
  <2> QED BY <1>1, <2>2, <2>3
<1>19. CASE p < k
  <2>1. \A Y \in B : ParallelOf(R, Y) \in top
    BY <1>1, <1>3, <1>19
  <2>2. n <= p
    BY <1>15, <1>18, <2>1
  <2>3. F = E
    <3>1. Cardinality(E) \in Nat
      BY <1>8, FS_CardinalityType
    <3>2. ~(Cardinality(F) >= k)
      BY <1>1, <1>3, <1>19, <2>2 DEF n
    <3> QED BY <1>3, <3>1, <3>2
  <2>4. ASSUME NEW b \in (SUBSET E) \ {{}}, Everywhere(database, b) # {}
        PROVE  \E i \in 1 .. p : block(i) = b
    <3>1. PICK Y \in B : Real(frequent, Y) = b
      BY <1>7, <2>3, <2>4
    <3>2. PICK i \in 1 .. p : parallel[i] = ParallelOf(R, Y)
      BY <1>2, <2>1
    <3> QED BY <1>5, <3>1, <3>2
  <2> HIDE DEF block
  <2>5. /\ p \in Nat /\ p <= k /\ DOMAIN parallel = 1 .. p /\ minsup \in Nat \ {0}
    BY <1>1, <1>2, <1>13
  <2> QED BY <1>10, <1>11, <1>13, <2>4, <2>5 DEF ParallelIsRight, p, E, block
<1>20. CASE ~(p < k)
  <2>0. p = k /\ p >= k /\ minsup = Cardinality(parallel[p].locations) /\ p \in 1 .. p
        /\ parallel[p] \in top
    <3>1. p = k /\ p >= k
      BY <1>1, <1>3, <1>20
    <3> QED BY <1>2, <1>3, <1>12, <3>1
  <2>2. F # E => minsup >= least
    <3> SUFFICES ASSUME F # E, ~(minsup >= least) PROVE FALSE
      OBVIOUS
    <3>1. n >= k
      <4>1. Cardinality(E) \in Nat
        BY <1>8, FS_CardinalityType
      <4> QED BY <1>3, <4>1 DEF n
    <3>2. ASSUME NEW e \in F PROVE single[e] \in top /\ single[e] # parallel[p]
      <4>1. Cardinality(single[e].locations) >= least
        BY <1>14, <1>15
      <4>2. single[e] # parallel[p]
        BY <2>0, <4>1
      <4>3. PICK Y \in B : single[e] = ParallelOf(R, Y)
        BY <1>15
      <4>4. ASSUME single[e] \notin top PROVE FALSE
        <5>1. Cardinality(Everywhere(R, Y)) <= Cardinality(parallel[p].locations)
          BY <1>2, <2>0, <4>3, <4>4
        <5>2. Cardinality(Everywhere(R, Y)) >= least
          BY <1>5, <4>1, <4>3
        <5> DEFINE x == Cardinality(Everywhere(R, Y))
        <5>3. x \in Nat /\ x <= minsup /\ x >= least /\ minsup \in Nat /\ least \in Nat
          BY <1>1, <1>3, <1>13, <2>0, <5>1, <5>2
        <5> HIDE DEF x
        <5> QED BY <5>3
      <4> QED BY <4>2, <4>4
    <3> DEFINE S == {single[e] : e \in F}
               T == top \ {parallel[p]}
    <3>3. S \subseteq T
      BY <3>2
    <3>4. IsFiniteSet(T) /\ Cardinality(T) = p - 1
      <4>1. Cardinality(T) = Cardinality(top) - 1 /\ IsFiniteSet(T)
        BY <1>1, <2>0, FS_RemoveElement
      <4> QED BY <1>1, <4>1
    <3>5. Cardinality(S) = n
      BY <1>17
    <3> HIDE DEF S, T
    <3>6. Cardinality(S) <= Cardinality(T)
      BY <3>3, <3>4, FS_Subset
    <3> QED BY <1>1, <1>3, <2>0, <3>1, <3>4, <3>5, <3>6
  <2>3. ASSUME NEW b \in (SUBSET E) \ {{}}, Everywhere(database, b) # {},
               Cardinality(Everywhere(database, b)) > minsup
        PROVE  \E i \in 1 .. p : block(i) = b
    <3>1. b \subseteq F
      <4> SUFFICES ASSUME F # E, NEW e \in b PROVE e \in F
        BY <2>3
      <4>1. e \in E /\ Everywhere(database, b) \subseteq LocationList(database, e)
        BY <2>3 DEF Everywhere, LocationList
      <4>2. IsFiniteSet(LocationList(database, e))
        <5>1. LocationList(database, e) \subseteq DOMAIN database
          BY DEF LocationList
        <5> QED BY <1>8, <5>1, FS_Subset
      <4> DEFINE x == Cardinality(Everywhere(database, b))
                 y == Cardinality(LocationList(database, e))
      <4>3. x <= y /\ x \in Nat /\ y \in Nat
        <5>1. IsFiniteSet(Everywhere(database, b))
          BY <4>1, <4>2, FS_Subset
        <5> QED BY <4>1, <4>2, <5>1, FS_Subset, FS_CardinalityType
      <4>4. x > minsup
        BY <2>3
      <4> HIDE DEF x, y
      <4>5. y >= least
        BY <1>3, <1>13, <2>2, <4>3, <4>4
      <4> QED BY <1>3, <4>1, <4>5 DEF y, EventSupport
    <3>2. PICK Y \in B : Real(frequent, Y) = b
      BY <1>7, <2>3, <3>1
    <3>3. ParallelOf(R, Y) \in top
      <4> SUFFICES ASSUME ParallelOf(R, Y) \notin top PROVE FALSE
        OBVIOUS
      <4>1. Cardinality(Everywhere(R, Y)) <= Cardinality(parallel[p].locations)
        BY <1>2, <2>0
      <4>2. Everywhere(R, Y) = Everywhere(database, b)
        BY <1>1, <3>2
      <4> DEFINE x == Cardinality(Everywhere(database, b))
      <4>3. x \in Nat /\ x <= minsup /\ x > minsup /\ minsup \in Nat
        BY <1>1, <1>13, <2>0, <2>3, <4>1, <4>2
      <4> HIDE DEF x
      <4> QED BY <4>3
    <3>4. PICK i \in 1 .. p : parallel[i] = ParallelOf(R, Y)
      BY <1>2, <3>3
    <3> QED BY <1>5, <3>2, <3>4
  <2> HIDE DEF block
  <2>5. /\ p \in Nat /\ p <= k /\ DOMAIN parallel = 1 .. p /\ minsup \in Nat \ {0}
    BY <1>1, <1>2, <1>13
  <2> QED BY <1>10, <1>11, <1>13, <2>0, <2>3, <2>5 DEF ParallelIsRight, p, E, block
<1> QED BY <1>19, <1>20
-----------------------------------------------------------------------------
(* The episodes of a database, and the right answers.                      *)
SupportIn(database, blocks, window) ==
  Cardinality(Starts([i \in DOMAIN blocks |-> Everywhere(database, blocks[i])], DOMAIN database, window))
OccurringBlocks(database) ==
  {b \in (SUBSET Events(database)) \ {{}} : Everywhere(database, b) # {}}
EpisodesIn(database, window) ==
  {ep \in {[blocks |-> bs, support |-> SupportIn(database, bs, window)] :
             bs \in UNION {[1 .. n -> OccurringBlocks(database)] : n \in DOMAIN database}} : ep.support > 0}
IsRightAnswer(answer, database, k, window) ==
  LET all == EpisodesIn(database, window)
      others == all \ answer IN
  /\ answer \subseteq all
  /\ Cardinality(answer) <= k
  /\ others # {} => Cardinality(answer) = k
  /\ \A ep \in answer :
       \A other \in {o \in others : o.support > ep.support} :
          \E i \in DOMAIN other.blocks :
             Cardinality(Everywhere(database, other.blocks[i])) <= ep.support

(* An episode of one block starts at its locations.                        *)
LEMMA StartsOfOne ==
  ASSUME NEW times, NEW locations, locations \subseteq times, NEW window
  PROVE  Starts(<<locations>>, times, window) = locations
<1>1. \A o : IsOccurrence(o, <<locations>>, times, window) <=> o \in [1 .. 1 -> times] /\ o[1] \in locations
  <2>1. Len(<<locations>>) = 1 /\ <<locations>>[1] = locations /\ 1 - 1 = 0
    OBVIOUS
  <2>2. \A i : i \in 1 .. 1 <=> i = 1
    OBVIOUS
  <2>3. 1 .. 0 = {}
    OBVIOUS
  <2> QED BY <2>1, <2>2, <2>3 DEF IsOccurrence
<1>2. \A s : s \in Starts(<<locations>>, times, window)
               <=> \E o : IsOccurrence(o, <<locations>>, times, window) /\ o[1] = s
  BY OccurrencesAre DEF Starts
<1>3. ASSUME NEW s \in locations PROVE s \in Starts(<<locations>>, times, window)
  <2> DEFINE o == [i \in 1 .. 1 |-> s]
  <2>1. o \in [1 .. 1 -> times] /\ o[1] = s
    OBVIOUS
  <2> HIDE DEF o
  <2> QED BY <1>1, <1>2, <2>1
<1> QED BY <1>1, <1>2, <1>3

(* What is decoded, and that it is decoded to an episode of the database   *)
(* with its support, different ones to different ones; and what has        *)
(* support and is made of the parallel episodes is decoded.                *)
IsDecoded(found, database, parallel, frequent, minsup, window) ==
  /\ \A c \in found : /\ Decoded(c, parallel, frequent) \in EpisodesIn(database, window)
                      /\ Decoded(c, parallel, frequent).support = Len(c.bounds)
                      /\ Len(c.bounds) \in Nat /\ Len(c.bounds) >= minsup
                      /\ \A b \in ToSet(c.blocks) :
                           \E i \in DOMAIN c.blocks :
                             parallel[b].locations = Everywhere(database, Decoded(c, parallel, frequent).blocks[i])
                             /\ i \in DOMAIN Decoded(c, parallel, frequent).blocks
  /\ \A c, d \in found : Decoded(c, parallel, frequent) = Decoded(d, parallel, frequent) => c = d
  /\ \A ep \in EpisodesIn(database, window) :
       /\ ep.support >= minsup
       /\ \A i \in DOMAIN ep.blocks : \E j \in DOMAIN parallel : Real(frequent, parallel[j].events) = ep.blocks[i]
       => \E c \in found : Decoded(c, parallel, frequent) = ep

SupportsMatch(database, frequent, parallel, window) ==
  \A b \in IndexSequences(parallel, Len(database)) :
    LET real == [i \in DOMAIN b |-> Real(frequent, parallel[b[i]].events)] IN
    /\ real \in UNION {[1 .. n -> OccurringBlocks(database)] : n \in DOMAIN database}
    /\ SupportIn(database, real, window) = SupportWithin(parallel, b, DOMAIN database, window)

(* The renamed blocks occur where the blocks they stand for occur in the   *)
(* data, so the supports are those in the data.                            *)
LEMMA SupportsAre ==
  ASSUME NEW database, NEW k, NEW frequent, NEW parallel, NEW minsup, NEW window \in Nat,
         IsDatabase(database), ParallelIsRight(database, k, frequent, parallel, minsup)
  PROVE  /\ Searching(parallel, minsup, DOMAIN database, window)
         /\ SupportsMatch(database, frequent, parallel, window)
<1> DEFINE p == Len(parallel)
           block(i) == Real(frequent, parallel[i].events)
<1>1. /\ p \in Nat /\ DOMAIN parallel = 1 .. p /\ minsup \in Nat \ {0}
      /\ \A i \in 1 .. p : /\ block(i) \in (SUBSET Events(database)) \ {{}}
                           /\ parallel[i].locations = Everywhere(database, block(i))
                           /\ parallel[i].locations # {}
  BY DEF ParallelIsRight
<1>2. Len(database) \in Nat /\ DOMAIN database = 1 .. Len(database) /\ Len(database) <= SizeLimit
  BY EventsAre DEF IsDatabase
<1>3. Searching(parallel, minsup, DOMAIN database, window)
  <2>1. IsFiniteSet(DOMAIN database) /\ Cardinality(DOMAIN database) <= SizeLimit
    <3>1. IsFiniteSet(1 .. Len(database)) /\ Cardinality(1 .. Len(database)) = Len(database)
      <4> DEFINE n == Len(database)
      <4>1. n \in Nat
        BY <1>2
      <4> HIDE DEF n
      <4>2. IsFiniteSet(1 .. n) /\ Cardinality(1 .. n) = n
        BY <4>1, FS_Interval
      <4> QED BY <4>2 DEF n
    <3> QED BY <1>2, <3>1
  <2>2. IsFiniteSet(DOMAIN parallel)
    BY <1>1, FS_Interval
  <2>3. \A i \in 1 .. p : parallel[i].locations \subseteq DOMAIN database
    <3> HIDE DEF block
    <3> QED BY <1>1 DEF Everywhere
  <2>4. DOMAIN database \subseteq Nat
    BY <1>2
  <2> QED BY <1>1, <2>1, <2>2, <2>3, <2>4 DEF Searching
<1>4. ASSUME NEW b \in IndexSequences(parallel, Len(database))
      PROVE  LET real == [i \in DOMAIN b |-> Real(frequent, parallel[b[i]].events)] IN
             /\ real \in UNION {[1 .. n -> OccurringBlocks(database)] : n \in DOMAIN database}
             /\ SupportIn(database, real, window) = SupportWithin(parallel, b, DOMAIN database, window)
  <2> DEFINE real == [i \in DOMAIN b |-> Real(frequent, parallel[b[i]].events)]
  <2>1. PICK n \in 1 .. Len(database) : b \in [1 .. n -> 1 .. p]
    BY <1>1 DEF IndexSequences
  <2>2. DOMAIN b = 1 .. n /\ DOMAIN real = 1 .. n /\ \A i \in 1 .. n : b[i] \in 1 .. p /\ real[i] = block(b[i])
    BY <2>1
  <2> HIDE DEF block
  <2>3. \A i \in 1 .. n : real[i] \in OccurringBlocks(database)
                          /\ Everywhere(database, real[i]) = parallel[b[i]].locations
    <3> SUFFICES ASSUME NEW i \in 1 .. n
                 PROVE  real[i] \in OccurringBlocks(database) /\ Everywhere(database, real[i]) = parallel[b[i]].locations
      OBVIOUS
    <3>1. b[i] \in 1 .. p /\ real[i] = block(b[i])
      BY <2>2
    <3> HIDE DEF real
    <3> QED BY <1>1, <3>1 DEF OccurringBlocks
  <2>4. real \in [1 .. n -> OccurringBlocks(database)]
    <3>1. real = [i \in 1 .. n |-> real[i]]
      BY <2>2
    <3> HIDE DEF real
    <3> QED BY <2>3, <3>1
  <2>5. [i \in DOMAIN real |-> Everywhere(database, real[i])] = LocationsOf(parallel, b)
    <3> HIDE DEF real
    <3> QED BY <2>2, <2>3 DEF LocationsOf
  <2> HIDE DEF real
  <2>6. SupportIn(database, real, window) = SupportWithin(parallel, b, DOMAIN database, window)
    BY <2>5 DEF SupportIn, SupportWithin
  <2> QED BY <1>2, <2>4, <2>6 DEF real
<1> QED BY <1>3, <1>4 DEF SupportsMatch

(* Decoding turns the episodes found into episodes of the data with their  *)
(* supports, each from one.                                                *)
LEMMA DecodedAre ==
  ASSUME NEW database, NEW k, NEW frequent, NEW parallel, NEW minsup, NEW window \in Nat,
         IsDatabase(database), ParallelIsRight(database, k, frequent, parallel, minsup),
         NEW found,
         AreComposites(found, parallel, minsup, DOMAIN database, window, Len(database))
  PROVE  IsDecoded(found, database, parallel, frequent, minsup, window)
<1> DEFINE p == Len(parallel)
           block(i) == Real(frequent, parallel[i].events)
           I == IndexSequences(parallel, Len(database))
           real(b) == [i \in DOMAIN b |-> block(b[i])]
           Sup(b) == SupportWithin(parallel, b, DOMAIN database, window)
           D(c) == Decoded(c, parallel, frequent)
           U == UNION {[1 .. n -> OccurringBlocks(database)] : n \in DOMAIN database}
<1>1. /\ p \in Nat /\ DOMAIN parallel = 1 .. p /\ minsup \in Nat \ {0}
      /\ \A i \in 1 .. p : parallel[i].locations = Everywhere(database, block(i))
      /\ \A i, j \in 1 .. p : block(i) = block(j) => i = j
  BY DEF ParallelIsRight
<1>2. Len(database) \in Nat /\ DOMAIN database = 1 .. Len(database)
  BY EventsAre
<1>3. \A b \in I : real(b) \in U /\ SupportIn(database, real(b), window) = Sup(b)
  <2>1. SupportsMatch(database, frequent, parallel, window)
    BY SupportsAre
  <2> QED BY <2>1, Zenon DEF SupportsMatch
<1>4. /\ \A c \in found : c.blocks \in I /\ Len(c.bounds) = Sup(c.blocks) /\ Len(c.bounds) >= minsup
      /\ \A b \in I : Sup(b) >= minsup => \E c \in found : c.blocks = b
      /\ \A c, d \in found : c.blocks = d.blocks => c = d
  BY DEF AreComposites
<1>5. \A c : D(c) = [blocks |-> real(c.blocks), support |-> Len(c.bounds)]
  BY DEF Decoded, Real
<1>6. \A b \in I : \E n \in 1 .. Len(database) : b \in [1 .. n -> 1 .. p]
  BY <1>1 DEF IndexSequences
<1>7. \A ep : ep \in EpisodesIn(database, window) <=>
         \E bs \in U : ep = [blocks |-> bs, support |-> SupportIn(database, bs, window)] /\ ep.support > 0
  BY DEF EpisodesIn
<1>8. \A b : DOMAIN real(b) = DOMAIN b /\ \A i \in DOMAIN b : real(b)[i] = block(b[i])
  OBVIOUS
<1>9. \A b, d : real(b) = real(d) /\ DOMAIN b = DOMAIN d => \A i \in DOMAIN b : block(b[i]) = block(d[i])
  BY <1>8
<1> HIDE DEF block, I, Sup, D, U, p
<1>10. \A b \in I : Sup(b) \in Nat
  <2> SUFFICES ASSUME NEW b \in I PROVE Sup(b) \in Nat
    OBVIOUS
  <2> DEFINE T == Starts(LocationsOf(parallel, b), DOMAIN database, window)
  <2>1. Searching(parallel, minsup, DOMAIN database, window)
    BY SupportsAre
  <2>2. b \in Seq(DOMAIN parallel) /\ b # <<>>
    <3>1. PICK n \in 1 .. Len(database) : b \in [1 .. n -> 1 .. p]
      BY <1>6
    <3>2. n \in Nat /\ n # 0
      BY <1>2
    <3>3. b \in Seq(1 .. p) /\ Len(b) = n
      <4> DEFINE S == 1 .. p
      <4>1. b \in [1 .. n -> S]
        BY <3>1
      <4> HIDE DEF S
      <4>2. b \in Seq(S) /\ Len(b) = n
        BY <3>2, <4>1
      <4> QED BY <4>2 DEF S
    <3> QED BY <1>1, <3>2, <3>3
  <2>3. AreBlocks(LocationsOf(parallel, b), DOMAIN database)
    BY <2>1, <2>2, LocationsAre
  <2> HIDE DEF T
  <2>4. T \subseteq DOMAIN database
    <3>1. ASSUME NEW o, o \in Occurrences(LocationsOf(parallel, b), DOMAIN database, window)
          PROVE  o[1] \in DOMAIN database
      <4>1. o \in [1 .. Len(LocationsOf(parallel, b)) -> DOMAIN database]
        BY <3>1 DEF Occurrences
      <4>2. 1 \in 1 .. Len(LocationsOf(parallel, b))
        BY <2>3 DEF AreBlocks
      <4> QED BY <4>1, <4>2
    <3> QED BY <3>1 DEF Starts, T
  <2>5. IsFiniteSet(DOMAIN database)
    BY EventsAre
  <2>6. IsFiniteSet(T)
    BY <2>4, <2>5, FS_Subset
  <2>7. Cardinality(T) \in Nat
    BY <2>6, FS_CardinalityType
  <2> QED BY <2>7 DEF Sup, SupportWithin, T
<1>11. ASSUME NEW c \in found
       PROVE  /\ D(c) \in EpisodesIn(database, window) /\ D(c).support = Len(c.bounds)
              /\ D(c).blocks = real(c.blocks)
              /\ Len(c.bounds) \in Nat /\ Len(c.bounds) >= minsup
  <2>1. c.blocks \in I /\ Len(c.bounds) = Sup(c.blocks) /\ Len(c.bounds) >= minsup
    BY <1>4
  <2>2. real(c.blocks) \in U /\ SupportIn(database, real(c.blocks), window) = Sup(c.blocks) /\ Sup(c.blocks) \in Nat
    BY <1>3, <1>10, <2>1
  <2>3. D(c).support = Len(c.bounds) /\ D(c).blocks = real(c.blocks)
    <3> HIDE DEF real
    <3> QED BY <1>5
  <2> DEFINE bs == real(c.blocks)
             s == Len(c.bounds)
  <2>4. s \in Nat /\ s >= minsup /\ s = SupportIn(database, bs, window) /\ bs \in U
    BY <2>1, <2>2
  <2>5. D(c) = [blocks |-> bs, support |-> s]
    BY <1>5
  <2>6. D(c).support = s
    BY <2>3
  <2> HIDE DEF bs, s
  <2>7. s > 0
    BY <1>1, <2>4
  <2>8. D(c) \in EpisodesIn(database, window)
    BY <1>7, <2>4, <2>5, <2>6, <2>7
  <2> QED BY <2>3, <2>4, <2>8 DEF s
<1>12. ASSUME NEW c \in found, NEW b \in ToSet(c.blocks)
       PROVE  \E i \in DOMAIN c.blocks :
                parallel[b].locations = Everywhere(database, D(c).blocks[i]) /\ i \in DOMAIN D(c).blocks
  <2>1. PICK i \in DOMAIN c.blocks : b = c.blocks[i]
    BY DEF ToSet
  <2>2. c.blocks \in I
    BY <1>4
  <2>3. PICK n \in 1 .. Len(database) : c.blocks \in [1 .. n -> 1 .. p]
    BY <1>6, <2>2
  <2>4. b \in 1 .. p
    BY <2>1, <2>3
  <2>5. D(c).blocks = real(c.blocks)
    BY <1>11
  <2>6. i \in DOMAIN real(c.blocks) /\ real(c.blocks)[i] = block(b)
    BY <1>8, <2>1
  <2> HIDE DEF real
  <2> QED BY <1>1, <2>1, <2>4, <2>5, <2>6
<1>13. ASSUME NEW c \in found, NEW d \in found, D(c) = D(d) PROVE c = d
  <2>1. real(c.blocks) = real(d.blocks)
    <3>1. D(c).blocks = real(c.blocks) /\ D(d).blocks = real(d.blocks)
      BY <1>11
    <3> HIDE DEF real
    <3> QED BY <1>13, <3>1
  <2> DEFINE b == c.blocks
             e == d.blocks
  <2>2. b \in I /\ e \in I
    BY <1>4
  <2>3. real(b) = real(e)
    BY <2>1
  <2> HIDE DEF b, e
  <2>4. DOMAIN b = DOMAIN e
    <3>1. DOMAIN real(b) = DOMAIN b /\ DOMAIN real(e) = DOMAIN e
      BY <1>8
    <3> HIDE DEF real
    <3> QED BY <2>3, <3>1
  <2>5. \A i \in DOMAIN b : block(b[i]) = block(e[i])
    BY <1>9, <2>3, <2>4
  <2>6. PICK n \in 1 .. Len(database) : b \in [1 .. n -> 1 .. p]
    BY <1>6, <2>2
  <2>7. PICK m \in 1 .. Len(database) : e \in [1 .. m -> 1 .. p]
    BY <1>6, <2>2
  <2>8. \A i \in DOMAIN b : b[i] = e[i]
    BY <1>1, <2>4, <2>5, <2>6, <2>7
  <2>9. b = e
    <3>1. b = [i \in DOMAIN b |-> b[i]] /\ e = [i \in DOMAIN e |-> e[i]]
      BY <2>6, <2>7
    <3> QED BY <2>4, <2>8, <3>1, Zenon
  <2> QED BY <1>4, <2>9 DEF b, e
<1>14. ASSUME NEW ep \in EpisodesIn(database, window), ep.support >= minsup,
              \A i \in DOMAIN ep.blocks : \E j \in DOMAIN parallel : Real(frequent, parallel[j].events) = ep.blocks[i]
       PROVE  \E c \in found : D(c) = ep
  <2>1. PICK bs \in U : ep = [blocks |-> bs, support |-> SupportIn(database, bs, window)]
    BY <1>7
  <2>2. ep.blocks = bs /\ ep.support = SupportIn(database, bs, window)
    BY <2>1
  <2>3. PICK n \in 1 .. Len(database) : bs \in [1 .. n -> OccurringBlocks(database)]
    BY <1>2, <2>1 DEF U
  <2> DEFINE b == [i \in 1 .. n |-> CHOOSE j \in 1 .. p : block(j) = bs[i]]
  <2>4. \A i \in 1 .. n : b[i] \in 1 .. p /\ block(b[i]) = bs[i]
    <3> SUFFICES ASSUME NEW i \in 1 .. n PROVE b[i] \in 1 .. p /\ block(b[i]) = bs[i]
      OBVIOUS
    <3>1. i \in DOMAIN ep.blocks /\ ep.blocks[i] = bs[i]
      BY <2>2, <2>3
    <3>2. \E j \in 1 .. p : block(j) = bs[i]
      BY <1>1, <1>14, <3>1 DEF block
    <3> QED BY <3>2
  <2>5. b \in [1 .. n -> 1 .. p]
    BY <2>4
  <2>6. b \in I
    BY <1>1, <2>5 DEF I, IndexSequences
  <2>7. DOMAIN b = 1 .. n
    OBVIOUS
  <2> HIDE DEF b
  <2>8. real(b) = bs
    BY <2>3, <2>4, <2>7
  <2> HIDE DEF real
  <2>9. Sup(b) >= minsup /\ Sup(b) = SupportIn(database, bs, window)
    BY <1>3, <1>14, <2>2, <2>6, <2>8
  <2>10. PICK c \in found : c.blocks = b
    BY <1>4, <2>6, <2>9
  <2>11. D(c) = [blocks |-> real(c.blocks), support |-> Len(c.bounds)] /\ Len(c.bounds) = Sup(c.blocks)
    BY <1>4, <1>5
  <2>12. D(c) = ep
    BY <2>1, <2>8, <2>9, <2>10, <2>11
  <2> QED BY <2>12
<1>15. IsDecoded(found, database, parallel, frequent, minsup, window)
  <2> HIDE DEF real
  <2> QED BY <1>11, <1>12, <1>13, <1>14 DEF IsDecoded, D
<1> QED BY <1>15
-----------------------------------------------------------------------------
(* The answer, from those of the two miners.                               *)
LEMMA AnswerOfTwo ==
  ASSUME NEW database, NEW k \in Nat \ {0}, NEW frequent, NEW parallel, NEW minsup, NEW window \in Nat,
         IsDatabase(database), ParallelIsRight(database, k, frequent, parallel, minsup),
         NEW found,
         AreComposites(found, parallel, minsup, DOMAIN database, window, Len(database)),
         NEW best \in Answers(found, k, BoundSupport(found), LeastBlockSupport(found, parallel))
  PROVE  IsRightAnswer({Decoded(c, parallel, frequent) : c \in best}, database, k, window)
<1> DEFINE p == Len(parallel)
           block(i) == Real(frequent, parallel[i].events)
           D(c) == Decoded(c, parallel, frequent)
           all == EpisodesIn(database, window)
           answer == {D(c) : c \in best}
           E == (SUBSET Events(database)) \ {{}}
<1>1. /\ p \in Nat /\ DOMAIN parallel = 1 .. p /\ minsup \in Nat \ {0} /\ p <= k
      /\ \A i \in 1 .. p : /\ block(i) \in E
                           /\ parallel[i].locations = Everywhere(database, block(i))
                           /\ parallel[i].locations # {}
                           /\ p >= k => minsup <= Cardinality(parallel[i].locations)
      /\ \A b \in E :
           /\ Everywhere(database, b) # {}
           /\ p >= k => Cardinality(Everywhere(database, b)) > minsup
           => \E i \in 1 .. p : block(i) = b
      /\ p < k => minsup = 1
  BY DEF ParallelIsRight
<1>2. Len(database) \in Nat /\ DOMAIN database = 1 .. Len(database) /\ IsFiniteSet(DOMAIN database)
  BY EventsAre
<1>3. IsDecoded(found, database, parallel, frequent, minsup, window)
  BY DecodedAre
<1>4. /\ \A c \in found : /\ D(c) \in all /\ D(c).support = Len(c.bounds)
                          /\ Len(c.bounds) \in Nat /\ Len(c.bounds) >= minsup
                          /\ \A b \in ToSet(c.blocks) :
                               \E i \in DOMAIN c.blocks :
                                 parallel[b].locations = Everywhere(database, D(c).blocks[i])
                                 /\ i \in DOMAIN D(c).blocks
      /\ \A c, d \in found : D(c) = D(d) => c = d
      /\ \A ep \in all :
           /\ ep.support >= minsup
           /\ \A i \in DOMAIN ep.blocks : \E j \in DOMAIN parallel : block(j) = ep.blocks[i]
           => \E c \in found : D(c) = ep
  BY <1>3 DEF IsDecoded
<1>5. IsFiniteSet(found) /\ Searching(parallel, minsup, DOMAIN database, window)
  BY SupportsAre DEF AreComposites
<1>6. /\ best \subseteq found /\ IsFiniteSet(best) /\ Cardinality(best) <= k
      /\ best # found => Cardinality(best) = k
      /\ \A e \in best, f \in found \ best : LeastBlockSupport(found, parallel)[f] <= BoundSupport(found)[e]
  BY <1>5, AnswersAre
<1>7. /\ \A c \in found : /\ BoundSupport(found)[c] = Len(c.bounds)
                          /\ LeastBlockSupport(found, parallel)[c]
                               = Min({Len(c.bounds)} \cup
                                     {Cardinality(parallel[b].locations) : b \in ToSet(c.blocks)})
  BY DEF BoundSupport, LeastBlockSupport
<1>8. \A ep \in all : /\ ep.blocks \in UNION {[1 .. n -> OccurringBlocks(database)] : n \in DOMAIN database}
                      /\ ep.support = SupportIn(database, ep.blocks, window) /\ ep.support > 0
  BY DEF EpisodesIn
<1>9. \A b \in OccurringBlocks(database) : b \in E /\ Everywhere(database, b) # {}
  BY DEF OccurringBlocks
<1>10. \A ep \in all : \A i \in DOMAIN ep.blocks : ep.blocks[i] \in E /\ Everywhere(database, ep.blocks[i]) # {}
  <2> SUFFICES ASSUME NEW ep \in all, NEW i \in DOMAIN ep.blocks
               PROVE  ep.blocks[i] \in OccurringBlocks(database)
    BY <1>9
  <2>1. PICK n \in DOMAIN database : ep.blocks \in [1 .. n -> OccurringBlocks(database)]
    BY <1>8
  <2> QED BY <2>1
<1>11. \A b : Cardinality(Everywhere(database, b)) \in Nat /\ IsFiniteSet(Everywhere(database, b))
  <2> SUFFICES ASSUME NEW b
               PROVE  Cardinality(Everywhere(database, b)) \in Nat /\ IsFiniteSet(Everywhere(database, b))
    OBVIOUS
  <2>1. Everywhere(database, b) \subseteq DOMAIN database
    BY DEF Everywhere
  <2> QED BY <1>2, <2>1, FS_Subset, FS_CardinalityType
<1>12. answer = {D(c) : c \in best}
  OBVIOUS
<1> HIDE DEF p, block, D, all, E, answer
<1>13. answer \subseteq all
  BY <1>4, <1>6, <1>12
<1>14. IsFiniteSet(answer) /\ Cardinality(answer) = Cardinality(best) /\ Cardinality(answer) <= k
  <2> DEFINE g == [c \in best |-> D(c)]
  <2>1. \A x, y \in best : g[x] = g[y] => x = y
    BY <1>4, <1>6
  <2>2. {g[c] : c \in best} = answer
    BY <1>12
  <2> HIDE DEF g
  <2>3. IsFiniteSet({g[c] : c \in best}) /\ Cardinality({g[c] : c \in best}) = Cardinality(best)
    BY <1>6, <2>1, ImageIs
  <2> QED BY <1>6, <2>2, <2>3
<1>15. \A ep \in all : ep.support \in Nat \ {0}
  <2> SUFFICES ASSUME NEW ep \in all PROVE ep.support \in Nat
    BY <1>8
  <2> DEFINE bs == ep.blocks
             L == [i \in DOMAIN bs |-> Everywhere(database, bs[i])]
             T == Starts(L, DOMAIN database, window)
  <2>1. ep.support = Cardinality(T)
    BY <1>8 DEF SupportIn
  <2>2. PICK n \in DOMAIN database : bs \in [1 .. n -> OccurringBlocks(database)]
    BY <1>8
  <2>3. n \in Nat /\ n # 0 /\ DOMAIN L = 1 .. n
    BY <1>2, <2>2
  <2>4. Len(L) = n
    <3> HIDE DEF L
    <3> QED BY <2>3
  <2> HIDE DEF L, T
  <2>5. T \subseteq DOMAIN database
    <3>1. ASSUME NEW o, o \in Occurrences(L, DOMAIN database, window) PROVE o[1] \in DOMAIN database
      <4>1. o \in [1 .. n -> DOMAIN database]
        BY <2>4, <3>1 DEF Occurrences
      <4>2. 1 \in 1 .. n
        BY <2>3
      <4> QED BY <4>1, <4>2
    <3> QED BY <3>1 DEF Starts, T
  <2>6. IsFiniteSet(T)
    BY <1>2, <2>5, FS_Subset
  <2>7. Cardinality(T) \in Nat
    BY <2>6, FS_CardinalityType
  <2> QED BY <2>1, <2>7
<1>16. all \ answer # {} => Cardinality(answer) = k
  <2> SUFFICES ASSUME Cardinality(answer) # k PROVE all \subseteq answer
    BY DEF all
  <2>1. best = found /\ Cardinality(found) # k /\ Cardinality(found) <= k
    BY <1>6, <1>14
  <2>2. p < k
    <3> SUFFICES ASSUME ~(p < k) PROVE FALSE
      OBVIOUS
    <3>1. p = k /\ p >= k /\ 1 \in 1 .. p
      BY <1>1
    <3>2. ASSUME NEW i \in 1 .. p PROVE \E c \in found : c.blocks = <<i>>
      <4> DEFINE locations == parallel[i].locations
      <4>1. locations # {} /\ minsup <= Cardinality(locations) /\ locations = Everywhere(database, block(i))
        BY <1>1, <3>1
      <4>2. locations \subseteq DOMAIN database
        BY <4>1 DEF Everywhere
      <4>3. LocationsOf(parallel, <<i>>) = <<locations>>
        BY DEF LocationsOf
      <4> HIDE DEF locations
      <4>4. SupportWithin(parallel, <<i>>, DOMAIN database, window) = Cardinality(locations)
        <5>1. Starts(<<locations>>, DOMAIN database, window) = locations
          BY <4>2, StartsOfOne
        <5> QED BY <4>3, <5>1 DEF SupportWithin
      <4>5. 1 \in 1 .. Len(database)
        BY <1>2, <4>1, <4>2
      <4>6. <<i>> \in IndexSequences(parallel, Len(database))
        <5>1. <<i>> \in [1 .. 1 -> DOMAIN parallel]
          BY <1>1
        <5> QED BY <4>5, <5>1 DEF IndexSequences
      <4>7. SupportWithin(parallel, <<i>>, DOMAIN database, window) >= minsup
        <5> DEFINE x == Cardinality(locations)
        <5>1. x \in Nat /\ minsup \in Nat /\ minsup <= x
          BY <1>1, <1>11, <4>1
        <5> HIDE DEF x
        <5>2. x >= minsup
          BY <5>1
        <5> QED BY <4>4, <5>2 DEF x
      <4> QED BY <4>6, <4>7 DEF AreComposites
    <3> DEFINE g == [i \in 1 .. p |-> CHOOSE c \in found : c.blocks = <<i>>]
               S == {g[i] : i \in 1 .. p}
    <3>3. \A i \in 1 .. p : g[i] \in found /\ g[i].blocks = <<i>>
      BY <3>2
    <3> HIDE DEF g
    <3>4. \A i, j \in 1 .. p : g[i] = g[j] => i = j
      <4> SUFFICES ASSUME NEW i \in 1 .. p, NEW j \in 1 .. p, g[i] = g[j] PROVE i = j
        OBVIOUS
      <4>1. <<i>> = <<j>>
        BY <3>3
      <4> QED BY <4>1
    <3>5. IsFiniteSet(1 .. p) /\ Cardinality(1 .. p) = p
      BY <1>1, FS_Interval
    <3>6. Cardinality(S) = p
      <4> DEFINE N == 1 .. p
      <4>1. IsFiniteSet(N) /\ Cardinality(N) = p /\ \A i, j \in N : g[i] = g[j] => i = j
        BY <3>4, <3>5
      <4> HIDE DEF N
      <4>2. Cardinality({g[i] : i \in N}) = p
        BY <4>1, ImageIs
      <4> QED BY <4>2 DEF N
    <3>7. S \subseteq found
      BY <3>3
    <3> HIDE DEF S
    <3>8. Cardinality(S) <= Cardinality(found) /\ Cardinality(found) \in Nat
      BY <1>5, <3>7, FS_Subset, FS_CardinalityType
    <3> QED BY <1>1, <2>1, <3>1, <3>6, <3>8
  <2> SUFFICES ASSUME NEW ep \in all PROVE ep \in answer
    OBVIOUS
  <2>3. minsup = 1 /\ ~(p >= k)
    BY <1>1, <2>2
  <2>4. \A i \in DOMAIN ep.blocks : \E j \in DOMAIN parallel : block(j) = ep.blocks[i]
    BY <1>1, <1>10, <2>3
  <2>5. ep.support >= minsup
    <3> DEFINE x == ep.support
    <3>1. x \in Nat \ {0}
      BY <1>15
    <3> HIDE DEF x
    <3>2. x >= 1
      BY <3>1
    <3> QED BY <2>3, <3>2 DEF x
  <2>6. PICK c \in found : D(c) = ep
    BY <1>4, <2>4, <2>5
  <2> QED BY <1>12, <2>1, <2>6
<1>17. ASSUME NEW ep \in answer, NEW other \in all \ answer, other.support > ep.support
       PROVE  \E i \in DOMAIN other.blocks :
                Cardinality(Everywhere(database, other.blocks[i])) <= ep.support
  <2> SUFFICES ASSUME \A i \in DOMAIN other.blocks :
                        ~(Cardinality(Everywhere(database, other.blocks[i])) <= ep.support)
               PROVE  FALSE
    OBVIOUS
  <2> DEFINE s == ep.support
             t == other.support
             size(b) == Cardinality(Everywhere(database, b))
  <2>1. PICK c0 \in best : ep = D(c0)
    BY <1>12
  <2>2. s = Len(c0.bounds) /\ s \in Nat /\ s >= minsup /\ c0 \in found
    BY <1>4, <1>6, <2>1
  <2>3. t \in Nat /\ t > s
    BY <1>15, <1>17
  <2>4. \A i \in DOMAIN other.blocks : size(other.blocks[i]) \in Nat /\ ~(size(other.blocks[i]) <= s)
    BY <1>11
  <2> HIDE DEF s, t, size
  <2>5. \A i \in DOMAIN other.blocks : size(other.blocks[i]) > s
    BY <2>2, <2>4
  <2>6. \A i \in DOMAIN other.blocks : size(other.blocks[i]) > minsup
    <3> SUFFICES ASSUME NEW i \in DOMAIN other.blocks PROVE size(other.blocks[i]) > minsup
      OBVIOUS
    <3>1. size(other.blocks[i]) \in Nat /\ size(other.blocks[i]) > s
      BY <2>4, <2>5
    <3> QED BY <1>1, <2>2, <3>1
  <2>7. \A i \in DOMAIN other.blocks : \E j \in DOMAIN parallel : block(j) = other.blocks[i]
    <3> SUFFICES ASSUME NEW i \in DOMAIN other.blocks PROVE \E j \in DOMAIN parallel : block(j) = other.blocks[i]
      OBVIOUS
    <3>1. other.blocks[i] \in E /\ Everywhere(database, other.blocks[i]) # {}
      BY <1>10
    <3>2. Cardinality(Everywhere(database, other.blocks[i])) > minsup
      BY <2>6 DEF size
    <3> QED BY <1>1, <3>1, <3>2
  <2>8. t >= minsup
    BY <1>1, <2>2, <2>3
  <2>9. PICK c \in found : D(c) = other
    BY <1>4, <2>7, <2>8 DEF t
  <2>10. c \notin best
    BY <1>12, <2>9
  <2> DEFINE M == {Len(c.bounds)} \cup {Cardinality(parallel[b].locations) : b \in ToSet(c.blocks)}
  <2>11. Min(M) <= s
    <3>1. LeastBlockSupport(found, parallel)[c] <= BoundSupport(found)[c0]
      BY <1>6, <2>1, <2>10
    <3>2. LeastBlockSupport(found, parallel)[c] = Min(M) /\ BoundSupport(found)[c0] = s
      BY <1>7, <2>2
    <3> HIDE DEF M
    <3> QED BY <3>1, <3>2
  <2>12. \A m \in M : m \in Nat /\ m > s
    <3>1. Len(c.bounds) = t
      BY <1>4, <2>9 DEF t
    <3>2. ASSUME NEW b \in ToSet(c.blocks)
          PROVE  Cardinality(parallel[b].locations) \in Nat /\ Cardinality(parallel[b].locations) > s
      <4>1. PICK i \in DOMAIN c.blocks : parallel[b].locations = Everywhere(database, D(c).blocks[i])
                                          /\ i \in DOMAIN D(c).blocks
        BY <1>4, <3>2
      <4>2. size(other.blocks[i]) \in Nat /\ size(other.blocks[i]) > s
        BY <2>4, <2>5, <2>9, <4>1
      <4> QED BY <2>9, <4>1, <4>2 DEF size
    <3> QED BY <2>3, <3>1, <3>2
  <2>13. M \subseteq Nat /\ M # {}
    BY <2>12
  <2> HIDE DEF M
  <2>14. Min(M) \in M
    BY <2>13, MinIsLeast
  <2> DEFINE m == Min(M)
  <2>15. m \in Nat /\ m > s /\ m <= s
    BY <2>11, <2>12, <2>14
  <2> HIDE DEF m
  <2> QED BY <2>2, <2>15
<1>18. IsRightAnswer(answer, database, k, window)
  BY <1>13, <1>14, <1>16, <1>17 DEF IsRightAnswer, all
<1> QED BY <1>12, <1>18 DEF D
-----------------------------------------------------------------------------
TkeInv ==
  /\ executes \in Nat
  /\ executes = 0 => event_sequence_ = loaded /\ asked = None /\ loaded \in Databases
  /\ executes <= 1 => AnswerIsRight

(* The answer judged by the loaded data and the options asked is what      *)
(* AnswerIsRight says.                                                     *)
LEMMA AnswerIs ==
  asked # None /\ IsRightAnswer(top_k_frequent_episodes_, loaded, asked.k, asked.window) => AnswerIsRight
<1> SUFFICES ASSUME IsRightAnswer(top_k_frequent_episodes_, loaded, asked.k, asked.window) PROVE AnswerIsRight
  OBVIOUS
<1>1. \A b : Locations(b) = Everywhere(loaded, b)
  BY DEF Locations, Everywhere
<1>2. \A bs : SupportOf(bs) = SupportIn(loaded, bs, asked.window)
  BY <1>1 DEF SupportOf, SupportIn
<1>3. AllEpisodes = EpisodesIn(loaded, asked.window)
  BY <1>1, <1>2 DEF AllEpisodes, EpisodesIn, OccurringBlocks
<1> QED BY <1>1, <1>3 DEF AnswerIsRight, IsRightAnswer

(* Before the first Execute nothing has been asked and the loaded sequence *)
(* is untouched.                                                           *)
LEMMA TkeInvInit == TkeInit => TkeInv
BY DEF TkeInit, TkeInv, AnswerIsRight

(* The first Execute finds the loaded sequence as it was read, and its     *)
(* answer is right.                                                        *)
LEMMA TkeInvNext == TkeInv /\ [TkeNext]_tkeVars => TkeInv'
<1>1. ASSUME TkeInv, UNCHANGED tkeVars PROVE TkeInv'
  <2>1. /\ loaded' = loaded /\ event_sequence_' = event_sequence_ /\ executes' = executes /\ asked' = asked
        /\ top_k_frequent_episodes_' = top_k_frequent_episodes_
    BY <1>1 DEF tkeVars
  <2>2. \A b : Locations(b)' = Locations(b)
    BY <2>1 DEF Locations
  <2>3. \A bs : SupportOf(bs)' = SupportOf(bs)
    BY <2>1 DEF SupportOf, Locations
  <2>4. AllEpisodes' = AllEpisodes
    BY <2>1, <2>2, <2>3 DEF AllEpisodes, Locations, SupportOf
  <2>5. AnswerIsRight => AnswerIsRight'
    <3> DEFINE right(answer, all, d, ask) ==
                 ask # None =>
                   /\ answer \subseteq all
                   /\ Cardinality(answer) <= ask.k
                   /\ all \ answer # {} => Cardinality(answer) = ask.k
                   /\ \A ep \in answer :
                        \A other \in {o \in all \ answer : o.support > ep.support} :
                           \E i \in DOMAIN other.blocks :
                              Cardinality(Everywhere(d, other.blocks[i])) <= ep.support
    <3>1. AnswerIsRight = right(top_k_frequent_episodes_, AllEpisodes, loaded, asked)
      BY Zenon DEF AnswerIsRight, Locations, Everywhere
    <3>2. AnswerIsRight' = right(top_k_frequent_episodes_', AllEpisodes', loaded', asked')
      BY Zenon DEF AnswerIsRight, Locations, Everywhere
    <3> HIDE DEF right
    <3> QED BY <2>1, <2>4, <3>1, <3>2
  <2> QED BY <1>1, <2>1, <2>5 DEF TkeInv
<1>2. ASSUME TkeInv, NEW k \in Ks, NEW window \in Windows, Execute(k, window) PROVE TkeInv'
  <2>1. executes \in Nat /\ executes' = executes + 1
    BY <1>2 DEF TkeInv, Execute
  <2>2. CASE executes # 0
    <3>1. executes' \in Nat /\ executes' # 0 /\ ~(executes' <= 1)
      BY <2>1, <2>2
    <3> QED BY <3>1 DEF TkeInv
  <2>3. CASE executes = 0
    <3> DEFINE database == event_sequence_
               F == {e \in Events(database) : EventSupport(database, e) >= EventsMinSup(database, k)}
               frequent == Frequent(database, EventsMinSup(database, k))
               R == Renamed(database, frequent)
               all == OccurringEpisodes(R, Len(frequent))
               P(top) == CHOOSE s \in Descending(top) : TRUE
               minsup(top) == IF Len(P(top)) >= k THEN Cardinality(Last(P(top)).locations) ELSE 1
               found(top) == CompositeEpisodes(P(top), minsup(top), window, Len(database))
    <3>1. database = loaded /\ database \in Databases
      BY <1>2, <2>3 DEF TkeInv
    <3>2. IsDatabase(database) /\ k \in Nat \ {0} /\ window \in Nat
      BY <1>2, <3>1, TkeAssumption DEF IsDatabase
    <3>3. PICK top \in Answers(all, k, ParallelSupport(all), ParallelSupport(all)) :
            \E best \in Answers(found(top), k, BoundSupport(found(top)), LeastBlockSupport(found(top), P(top))) :
              top_k_frequent_episodes_' = {Decoded(c, P(top), frequent) : c \in best}
      BY <1>2, Zenon DEF Execute
    <3>4. PICK best \in Answers(found(top), k, BoundSupport(found(top)), LeastBlockSupport(found(top), P(top))) :
            top_k_frequent_episodes_' = {Decoded(c, P(top), frequent) : c \in best}
      BY <3>3
    <3>5. /\ EventsMinSup(database, k) \in Nat \ {0} /\ IsFiniteSet(F)
          /\ Cardinality(Events(database)) <= k => F = Events(database)
          /\ Cardinality(Events(database)) > k => Cardinality(F) >= k
      BY <3>2, ThresholdIs
    <3>6. IsMapping(frequent, F)
      <4>1. F \subseteq Nat
        BY <3>2, EventsAre
      <4>2. frequent = Sorted(F)
        BY DEF Frequent
      <4> HIDE DEF F, frequent
      <4> QED BY <3>5, <4>1, <4>2, MappingIs
    <3>7. Len(frequent) = Cardinality(F)
      BY <3>6 DEF IsMapping
    <3>8. Chosen(database, k, F, EventsMinSup(database, k), frequent, top, P(top), minsup(top))
      <4> HIDE DEF P, frequent
      <4> QED BY <3>2, <3>3, <3>5, <3>6, <3>7 DEF Chosen, minsup, P
    <3> HIDE DEF database, F, frequent, R, all, P, minsup
    <3>9. ParallelIsRight(database, k, frequent, P(top), minsup(top))
      BY <3>8, ParallelAreRight
    <3>10. Len(database) \in Nat
      BY <3>2, EventsAre
    <3>11. Searching(P(top), minsup(top), DOMAIN database, window)
      BY <3>2, <3>9, SupportsAre
    <3>12. AreComposites(found(top), P(top), minsup(top), DOMAIN database, window, Len(database))
      BY <3>10, <3>11, CompositesAre
    <3> HIDE DEF found
    <3>130. IsRightAnswer(top_k_frequent_episodes_', database, k, window)
      BY <3>2, <3>4, <3>9, <3>12, AnswerOfTwo
    <3>13. IsRightAnswer(top_k_frequent_episodes_', loaded, k, window)
      BY <3>1, <3>130
    <3>14. loaded' = loaded /\ asked' = [k |-> k, window |-> window]
      BY <1>2 DEF Execute
    <3>15. asked'.k = k /\ asked'.window = window
      BY <3>14
    <3>16. AnswerIsRight'
      <4>1. \A b : Locations(b)' = Everywhere(loaded, b)
        BY <3>14 DEF Locations, Everywhere
      <4>2. \A bs : SupportOf(bs)' = SupportIn(loaded, bs, window)
        BY <3>14, <3>15 DEF SupportOf, SupportIn, Locations, Everywhere
      <4>3. AllEpisodes' = EpisodesIn(loaded, window)
        BY <3>14, <3>15, <4>1, <4>2 DEF AllEpisodes, EpisodesIn, OccurringBlocks, Locations, Everywhere, SupportOf, SupportIn
      <4> QED BY <3>13, <3>14, <3>15, <4>1, <4>3, SMTT(30) DEF AnswerIsRight, IsRightAnswer, Locations, Everywhere
    <3>17. executes' \in Nat /\ executes' # 0
      BY <2>1, <2>3
    <3> QED BY <3>16, <3>17 DEF TkeInv
  <2> QED BY <2>2, <2>3
<1> QED BY <1>1, <1>2 DEF TkeNext

(* The first call of Execute after load_data gives the right answer,       *)
(* whatever the data, the number of episodes and the window are: it holds  *)
(* of the supports of the loaded data, and nothing that occurs more often  *)
(* is missing, but for what has a block that does not.                     *)
THEOREM AnswerIsAlwaysRight == TkeSpec => [](executes <= 1 => AnswerIsRight)
<1>1. TkeInv => (executes <= 1 => AnswerIsRight)
  BY DEF TkeInv
<1> QED BY <1>1, TkeInvInit, TkeInvNext, PTL DEF TkeSpec
=============================================================================
