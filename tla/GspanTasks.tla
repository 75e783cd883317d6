----------------------------- MODULE GspanTasks -----------------------------
(***************************************************************************)
(* The parallel search of gSpan: gspan::ThreadPool (src/src/core/          *)
(* algorithms/fsm/gspan/utils/thread_pool.h) and the calls that            *)
(* GSpan::MineSubgraphs and SubgraphMiner::MineSubgraph make to it.  Every *)
(* frequent pattern is a task; mining it spawns its extensions and waits   *)
(* for them, and a thread that waits runs whatever task is queued last,    *)
(* its own or not, on top of the one it has not finished.  The counter of  *)
(* the extensions and the projections they point into live in the frame of *)
(* the pattern that spawned them.  A task whose code is not canonical      *)
(* returns at once, as a pattern without extensions does.  A task that     *)
(* throws ends the process and is not modelled; neither is the memory that *)
(* recursion takes.                                                        *)
(***************************************************************************)
EXTENDS Integers, Sequences, FiniteSets, SequencesExt, FiniteSetTheorems, SequenceTheorems, TLAPS

CONSTANTS
  PoolThreads,   \* threads_num_ - 1 of them
  Caller,        \* the thread that executes the algorithm
  Patterns,      \* the frequent ones
  Root,          \* of no pattern: the frame of MineSubgraphs itself
  Extensions     \* the patterns that each, or Root, spawns, in order

VARIABLES
  tasks_,        \* the queue: patterns with their projections
  stack,         \* what each thread runs: frames, the last on top
  pending,       \* of each pattern whose frame is there, and of Root
  stop_,
  waiting,       \* the threads asleep on cv_
  main,          \* the caller: "mine", "stop", "join" or "done"
  mined          \* how often each pattern was mined
gspanVars == <<tasks_, stack, pending, stop_, waiting, main, mined>>

MinerThreads == PoolThreads \cup {Caller}
Busy(t) == stack[t] # <<>>
Top(t) == Last(stack[t])
Spawned(t) == Top(t).next > Len(Extensions[Top(t).pattern])
Frame(pattern, parent) ==
  [pattern |-> pattern, parent |-> parent, next |-> 1, popping |-> FALSE]

GspanInit ==
  /\ tasks_ = <<>> /\ stop_ = FALSE /\ waiting = {} /\ main = "mine"
  /\ stack = [t \in MinerThreads |-> IF t = Caller THEN <<Frame(Root, Root)>> ELSE <<>>]
  /\ pending = [x \in {Root} |-> 0]
  /\ mined = [x \in Patterns |-> 0]

(* A frame that took a task looks at pending again when the task is done.  *)
Back(frames) ==
  IF frames = <<>> THEN <<>> ELSE [frames EXCEPT ![Len(frames)].popping = FALSE]

(* The last frame is left: what lived in it is gone.                       *)
PopFrame(t) ==
  stack' = [stack EXCEPT ![t] = Front(@)]
WithoutPending(x) == [y \in DOMAIN pending \ {x} |-> pending[y]]

(* cv_.notify_one(): a thread asleep, if there is one, looks again.        *)
NotifyOne ==
  IF waiting = {} THEN UNCHANGED waiting
  ELSE \E w \in waiting : waiting' = waiting \ {w}

(* Spawn, for the next extension of the pattern on top.                    *)
Spawn(t) ==
  /\ Busy(t) /\ ~Spawned(t)
  /\ pending' = [pending EXCEPT ![Top(t).pattern] = @ + 1]
  /\ tasks_' = Append(tasks_, [parent |-> Top(t).pattern,
                               pattern |-> Extensions[Top(t).pattern][Top(t).next]])
  /\ stack' = [stack EXCEPT ![t][Len(stack[t])].next = @ + 1]
  /\ NotifyOne
  /\ UNCHANGED <<stop_, main, mined>>

(* The task queued last begins, in a frame of its own on t's stack: the    *)
(* pattern is canonical and MineSubgraph is entered.                       *)
Take(t) ==
  /\ tasks_ # <<>>
  /\ stack' = [stack EXCEPT ![t] = Append(Back(@), Frame(Last(tasks_).pattern, Last(tasks_).parent))]
  /\ pending' = [x \in DOMAIN pending \cup {Last(tasks_).pattern} |->
                   IF x = Last(tasks_).pattern THEN 0 ELSE pending[x]]
  /\ mined' = [mined EXCEPT ![Last(tasks_).pattern] = @ + 1]
  /\ tasks_' = Front(tasks_)

(* Wait(pending, thread_id), once all extensions are spawned: pending is   *)
(* loaded, and only then, under the mutex, the queue is looked at.  By     *)
(* that time the last extension may be done.                               *)
WaitLoad(t) ==
  /\ Busy(t) /\ Spawned(t) /\ ~Top(t).popping /\ pending[Top(t).pattern] > 0
  /\ stack' = [stack EXCEPT ![t][Len(stack[t])].popping = TRUE]
  /\ UNCHANGED <<tasks_, pending, stop_, waiting, main, mined>>
WaitPop(t) ==
  /\ Busy(t) /\ Top(t).popping
  /\ IF tasks_ # <<>> THEN Take(t)
     ELSE /\ stack' = [stack EXCEPT ![t][Len(stack[t])].popping = FALSE]
          /\ UNCHANGED <<tasks_, pending, mined>>
  /\ UNCHANGED <<stop_, waiting, main>>

(* A fault: the frame is left although extensions are still being mined.   *)
BugLeaveFrame(t) ==
  /\ Busy(t) /\ Top(t).pattern # Root /\ Spawned(t) /\ ~Top(t).popping
  /\ tasks_ = <<>>
  /\ pending' = [WithoutPending(Top(t).pattern) EXCEPT ![Top(t).parent] = @ - 1]
  /\ PopFrame(t)
  /\ UNCHANGED <<tasks_, stop_, waiting, main, mined>>

(* Wait returns, the frame is left, and the parent's counter falls.        *)
LeaveFrame(t) ==
  /\ Busy(t) /\ Top(t).pattern # Root /\ Spawned(t) /\ ~Top(t).popping
  /\ pending[Top(t).pattern] = 0
  /\ pending' = [WithoutPending(Top(t).pattern) EXCEPT ![Top(t).parent] = @ - 1]
  /\ PopFrame(t)
  /\ UNCHANGED <<tasks_, stop_, waiting, main, mined>>

(* WorkerLoop: cv_.wait with its condition, under the mutex.               *)
WorkerTakes(w) ==
  /\ ~Busy(w) /\ w \notin waiting
  /\ Take(w) /\ UNCHANGED <<stop_, waiting, main>>
WorkerSleeps(w) ==
  /\ ~Busy(w) /\ w \notin waiting /\ tasks_ = <<>> /\ ~stop_
  /\ waiting' = waiting \cup {w}
  /\ UNCHANGED <<tasks_, stack, pending, stop_, main, mined>>
WakesUp(w) ==
  /\ w \in waiting /\ waiting' = waiting \ {w}
  /\ UNCHANGED <<tasks_, stack, pending, stop_, main, mined>>

(* With the queue empty and stop_ up, a worker that looks leaves its loop. *)
(* The caller has all seeds mined and destroys the pool: stop_ under the   *)
(* mutex, notify_all, join.                                                *)
CallerReturns ==
  /\ Len(stack[Caller]) = 1 /\ Spawned(Caller) /\ ~Top(Caller).popping
  /\ pending[Root] = 0
  /\ PopFrame(Caller) /\ pending' = WithoutPending(Root)
  /\ main' = "stop"
  /\ UNCHANGED <<tasks_, stop_, waiting, mined>>
StopPool ==
  /\ main = "stop" /\ ~stop_
  /\ stop_' = TRUE
  /\ UNCHANGED <<tasks_, stack, pending, waiting, main, mined>>

(* A fault: only one thread is told.                                       *)
BugNotifyAll ==
  /\ main = "stop" /\ stop_
  /\ NotifyOne /\ main' = "join"
  /\ UNCHANGED <<tasks_, stack, pending, stop_, mined>>

NotifyAll ==
  /\ main = "stop" /\ stop_
  /\ waiting' = {} /\ main' = "join"
  /\ UNCHANGED <<tasks_, stack, pending, stop_, mined>>
JoinPool ==
  /\ main = "join"
  /\ \A w \in PoolThreads : ~Busy(w) /\ w \notin waiting /\ tasks_ = <<>>
  /\ main' = "done"
  /\ UNCHANGED <<tasks_, stack, pending, stop_, waiting, mined>>
GspanEnded == main = "done" /\ UNCHANGED gspanVars

MinerStep(t) == Spawn(t) \/ WaitLoad(t) \/ WaitPop(t) \/ LeaveFrame(t)
WorkerMoves(w) == MinerStep(w) \/ WorkerTakes(w) \/ WorkerSleeps(w)
CallerMoves == MinerStep(Caller) \/ CallerReturns \/ StopPool \/ NotifyAll \/ JoinPool
GspanNext ==
  CallerMoves \/ (\E w \in PoolThreads : WorkerMoves(w) \/ WakesUp(w)) \/ GspanEnded

GspanFairness ==
  /\ WF_gspanVars(CallerMoves)
  /\ \A w \in PoolThreads : WF_gspanVars(WorkerMoves(w))
-----------------------------------------------------------------------------
FramesOn(t) == {stack[t][i].pattern : i \in DOMAIN stack[t]}
Frames == UNION {FramesOn(t) : t \in MinerThreads}

(* Whatever is queued or being mined, the frame that spawned it is still   *)
(* on some stack: the counter it will lower and the projection entries it  *)
(* points into are there.                                                  *)
ParentsAreAlive ==
  /\ \A i \in DOMAIN tasks_ : tasks_[i].parent \in Frames
  /\ \A t \in MinerThreads : \A i \in DOMAIN stack[t] :
       stack[t][i].pattern # Root => stack[t][i].parent \in Frames

(* When the caller goes on to collect what the miners have found, every    *)
(* pattern has been mined, none of them twice, and no thread still mines.  *)
AllMinedOnce ==
  /\ \A x \in Patterns : mined[x] <= 1
  /\ main # "mine" =>
       /\ \A x \in Patterns : mined[x] = 1
       /\ tasks_ = <<>> /\ \A t \in MinerThreads : ~Busy(t)
-----------------------------------------------------------------------------
(* Why it holds, for any number of threads and any search tree.  A pattern *)
(* is a DFS code, each made from one shorter by one edge: no code is an    *)
(* extension of two others or of one twice, and among any patterns one is  *)
(* an extension of none of them.                                           *)
Nodes == Patterns \cup {Root}
TreeAssumption ==
  /\ Caller \notin PoolThreads /\ Root \notin Patterns
  /\ Extensions \in [Nodes -> Seq(Patterns)]
  /\ \A y, z \in Nodes : \A k \in DOMAIN Extensions[y], m \in DOMAIN Extensions[z] :
       Extensions[y][k] = Extensions[z][m] => y = z /\ k = m
  /\ \A S \in SUBSET Patterns : S # {} =>
       \E y \in Nodes \ S : \E k \in DOMAIN Extensions[y] : Extensions[y][k] \in S

GspanSpec == GspanInit /\ [][GspanNext]_gspanVars

FrameRecords == [pattern : Nodes, parent : Nodes, next : Nat, popping : BOOLEAN]
TaskRecords == [parent : Nodes, pattern : Patterns]
IsExtension(x, y) == \E k \in DOMAIN Extensions[y] : Extensions[y][k] = x

(* No pattern has two frames, and what is left of an extension's frames    *)
(* has not been spawned.                                                   *)
StackOK(st) ==
  /\ st \in [MinerThreads -> Seq(FrameRecords)]
  /\ \A t, u \in MinerThreads : \A i \in DOMAIN st[t], j \in DOMAIN st[u] :
       st[t][i].pattern = st[u][j].pattern => t = u /\ i = j
  /\ \A t \in MinerThreads : \A i \in DOMAIN st[t] :
       /\ st[t][i].next \in 1 .. Len(Extensions[st[t][i].pattern]) + 1
       /\ st[t][i].pattern # Root => IsExtension(st[t][i].pattern, st[t][i].parent)
RootIsFirst(st) == st[Caller] # <<>> /\ st[Caller][1].pattern = Root

FramesIn(st) == UNION {{st[t][i].pattern : i \in DOMAIN st[t]} : t \in MinerThreads}
BegunIn(st, y) ==
  {k \in DOMAIN Extensions[y] :
     \E t \in MinerThreads : \E i \in DOMAIN st[t] : st[t][i].pattern = y /\ k < st[t][i].next}

Before(y, n) == {k \in DOMAIN Extensions[y] : k < n}
WithTop(st, t, f) == [st EXCEPT ![t] = [st[t] EXCEPT ![Len(st[t])] = f]]
WithFlag(st, t, b) == [st EXCEPT ![t][Len(st[t])].popping = b]
Pushed(st, t, f) == [st EXCEPT ![t] = Append(st[t], f)]
Popped(st, t) == [st EXCEPT ![t] = Front(st[t])]

QueueOK(q) ==
  /\ q \in Seq(TaskRecords)
  /\ \A i, j \in DOMAIN q : q[i].pattern = q[j].pattern => i = j
  /\ \A i \in DOMAIN q : IsExtension(q[i].pattern, q[i].parent)
QueuedIn(q) == {q[i].pattern : i \in DOMAIN q}

(* Of the extensions of y: those that its frame has spawned, and those     *)
(* that are queued or being mined, which its counter counts.               *)
Queued == QueuedIn(tasks_)
Live == Queued \cup Frames
Begun(y) == BegunIn(stack, y)
Kids(y) == {k \in DOMAIN Extensions[y] : Extensions[y][k] \in Live}
Finished(y) == y \notin Frames /\ (y = Root \/ mined[y] = 1)

(* An extension is queued or mined from the moment its parent's frame has  *)
(* spawned it, and done with when that frame is left.                      *)
TreeInv ==
  /\ Frames \subseteq Nodes /\ Queued \subseteq Patterns
  /\ pending \in [Frames -> Nat] /\ \A y \in Frames : pending[y] = Cardinality(Kids(y))
  /\ mined \in [Patterns -> {0, 1}]
  /\ \A x \in Queued : mined[x] = 0
  /\ \A x \in Frames \ {Root} : mined[x] = 1
  /\ \A y \in Nodes : \A k \in DOMAIN Extensions[y] : Extensions[y][k] \in Live => k \in Begun(y)
  /\ \A y \in Nodes : \A k \in DOMAIN Extensions[y] :
       mined[Extensions[y][k]] = 1 => k \in Begun(y) \/ Finished(y)
  /\ \A y \in Nodes : \A k \in DOMAIN Extensions[y] :
       k \in Begun(y) \/ Finished(y) => Extensions[y][k] \in Queued \/ mined[Extensions[y][k]] = 1

MainInv ==
  /\ main \in {"mine", "stop", "join", "done"}
  /\ main = "mine" => RootIsFirst(stack)
  /\ main # "mine" => Frames = {} /\ Queued = {} /\ \A x \in Patterns : mined[x] = 1

GspanInv == StackOK(stack) /\ QueueOK(tasks_) /\ TreeInv /\ MainInv

(* The frames of one stack.                                                *)
LEMMA FramesOfStack ==
  ASSUME NEW st, StackOK(st), NEW t \in MinerThreads
  PROVE  /\ st[t] \in Seq(FrameRecords) /\ Len(st[t]) \in Nat /\ DOMAIN st[t] = 1 .. Len(st[t])
         /\ \A i \in DOMAIN st[t] :
              /\ st[t][i] \in FrameRecords /\ st[t][i].pattern \in Nodes /\ st[t][i].parent \in Nodes
              /\ st[t][i].next \in Nat /\ st[t][i].pattern \in FramesIn(st)
         /\ st[t] # <<>> => Len(st[t]) \in DOMAIN st[t] /\ Last(st[t]) = st[t][Len(st[t])]
<1>1. st[t] \in Seq(FrameRecords)
  BY DEF StackOK
<1>2. Len(st[t]) \in Nat /\ DOMAIN st[t] = 1 .. Len(st[t]) /\ \A i \in DOMAIN st[t] : st[t][i] \in FrameRecords
  BY <1>1, LenProperties, ElementOfSeq
<1>3. st[t] # <<>> => Len(st[t]) \in DOMAIN st[t] /\ Last(st[t]) = st[t][Len(st[t])]
  <2>1. st[t] # <<>> => Len(st[t]) # 0
    BY <1>1, EmptySeq
  <2> QED BY <1>2, <2>1 DEF Last
<1>4. \A i \in DOMAIN st[t] : st[t][i].pattern \in FramesIn(st)
  BY DEF FramesIn
<1> QED BY <1>1, <1>2, <1>3, <1>4 DEF FrameRecords

(* What a frame has spawned is what lies before its next extension.        *)
LEMMA BegunByFrame ==
  ASSUME NEW st, StackOK(st), NEW t \in MinerThreads, NEW i \in DOMAIN st[t]
  PROVE  BegunIn(st, st[t][i].pattern) = Before(st[t][i].pattern, st[t][i].next)
<1> DEFINE y == st[t][i].pattern
<1>1. ASSUME NEW u \in MinerThreads, NEW j \in DOMAIN st[u], st[u][j].pattern = y PROVE u = t /\ j = i
  BY <1>1 DEF StackOK
<1> QED BY <1>1 DEF BegunIn, Before

(* The frame on top changes, but not whose it is.                          *)
LEMMA TopChanged ==
  ASSUME NEW st, StackOK(st), NEW t \in MinerThreads, st[t] # <<>>, NEW f \in FrameRecords,
         f.pattern = Last(st[t]).pattern, f.parent = Last(st[t]).parent,
         f.next \in 1 .. Len(Extensions[f.pattern]) + 1,
         NEW st2, st2 = WithTop(st, t, f)
  PROVE  /\ StackOK(st2) /\ FramesIn(st2) = FramesIn(st) /\ st2[t] # <<>> /\ Last(st2[t]) = f
         /\ RootIsFirst(st) => RootIsFirst(st2)
         /\ \A y : y # f.pattern => BegunIn(st2, y) = BegunIn(st, y)
         /\ BegunIn(st2, f.pattern) = Before(f.pattern, f.next)
<1> DEFINE n == Len(st[t])
           s2 == [st[t] EXCEPT ![n] = f]
<1>1. /\ st \in [MinerThreads -> Seq(FrameRecords)] /\ st[t] \in Seq(FrameRecords)
      /\ n \in Nat /\ DOMAIN st[t] = 1 .. n /\ n \in 1 .. n /\ Last(st[t]) = st[t][n]
  <2>1. st \in [MinerThreads -> Seq(FrameRecords)]
    BY DEF StackOK
  <2>2. st[t] \in Seq(FrameRecords) /\ n \in Nat /\ DOMAIN st[t] = 1 .. n /\ n \in DOMAIN st[t] /\ Last(st[t]) = st[t][n]
    BY FramesOfStack
  <2> QED BY <2>1, <2>2
<1>2. /\ s2 \in Seq(FrameRecords) /\ Len(s2) = n
      /\ \A j \in 1 .. n : s2[j] = IF j = n THEN f ELSE st[t][j]
  BY <1>1, ExceptSeq
<1>3. DOMAIN s2 = 1 .. n /\ s2 # <<>>
  BY <1>1, <1>2, LenProperties, EmptySeq
<1> HIDE DEF n, s2
<1>4. st2 \in [MinerThreads -> Seq(FrameRecords)] /\ st2[t] = s2 /\ \A u \in MinerThreads : u # t => st2[u] = st[u]
  BY <1>1, <1>2 DEF n, s2, WithTop
<1>5. \A u \in MinerThreads :
        /\ DOMAIN st2[u] = DOMAIN st[u]
        /\ \A i \in DOMAIN st[u] :
             /\ st2[u][i].pattern = st[u][i].pattern /\ st2[u][i].parent = st[u][i].parent
             /\ st2[u][i] = IF u = t /\ i = n THEN f ELSE st[u][i]
  BY <1>1, <1>2, <1>3, <1>4
<1>6. StackOK(st2)
  <2>1. \A u \in MinerThreads : \A i \in DOMAIN st2[u] :
          st2[u][i].next \in 1 .. Len(Extensions[st2[u][i].pattern]) + 1
    BY <1>5 DEF StackOK
  <2>2. \A u \in MinerThreads : \A i \in DOMAIN st2[u] :
          st2[u][i].pattern # Root => IsExtension(st2[u][i].pattern, st2[u][i].parent)
    BY <1>5 DEF StackOK
  <2>3. \A v, u \in MinerThreads : \A i \in DOMAIN st2[v], j \in DOMAIN st2[u] :
          st2[v][i].pattern = st2[u][j].pattern => v = u /\ i = j
    BY <1>5 DEF StackOK
  <2> QED BY <1>4, <2>1, <2>2, <2>3 DEF StackOK
<1>7. FramesIn(st2) = FramesIn(st)
  BY <1>5 DEF FramesIn
<1>8. ASSUME NEW y, y # f.pattern PROVE BegunIn(st2, y) = BegunIn(st, y)
  <2>1. \A u \in MinerThreads : \A i \in DOMAIN st[u] : st[u][i].pattern = y => st2[u][i] = st[u][i]
    BY <1>1, <1>5, <1>8
  <2>2. \A u \in MinerThreads : \A i \in DOMAIN st2[u] : st2[u][i].pattern = y => i \in DOMAIN st[u] /\ st2[u][i] = st[u][i]
    BY <1>5, <2>1
  <2> QED BY <1>5, <2>1, <2>2 DEF BegunIn
<1>9. BegunIn(st2, f.pattern) = Before(f.pattern, f.next)
  <2>1. n \in DOMAIN st2[t] /\ st2[t][n] = f
    BY <1>1, <1>5
  <2>2. ASSUME NEW u \in MinerThreads, NEW j \in DOMAIN st2[u], st2[u][j].pattern = f.pattern PROVE st2[u][j] = f
    BY <1>6, <2>1, <2>2 DEF StackOK
  <2> QED BY <2>1, <2>2 DEF BegunIn, Before
<1>10. st2[t] # <<>> /\ Last(st2[t]) = f
  BY <1>1, <1>2, <1>3, <1>4 DEF Last
<1>11. RootIsFirst(st) => RootIsFirst(st2)
  <2>1. ASSUME RootIsFirst(st) PROVE 1 \in DOMAIN st[Caller] /\ Caller \in MinerThreads
    <3>1. Caller \in MinerThreads
      BY DEF MinerThreads
    <3> QED BY <2>1, <3>1, FramesOfStack DEF RootIsFirst
  <2> QED BY <1>3, <1>4, <1>5, <2>1 DEF RootIsFirst
<1> QED BY <1>6, <1>7, <1>8, <1>9, <1>10, <1>11

(* A frame of a pattern that has none is put on top.                       *)
LEMMA FramePushed ==
  ASSUME NEW st, StackOK(st), NEW t \in MinerThreads, NEW f \in FrameRecords,
         f.pattern \notin FramesIn(st), f.next = 1, IsExtension(f.pattern, f.parent),
         Extensions \in [Nodes -> Seq(Patterns)],
         NEW st2, st2 = Pushed(st, t, f)
  PROVE  /\ StackOK(st2) /\ FramesIn(st2) = FramesIn(st) \cup {f.pattern}
         /\ RootIsFirst(st) => RootIsFirst(st2)
         /\ \A y \in Nodes : BegunIn(st2, y) = BegunIn(st, y)
<1> DEFINE n == Len(st[t])
           s2 == Append(st[t], f)
<1>1. st \in [MinerThreads -> Seq(FrameRecords)] /\ st[t] \in Seq(FrameRecords) /\ n \in Nat /\ DOMAIN st[t] = 1 .. n
  <2>1. st[t] \in Seq(FrameRecords) /\ n \in Nat /\ DOMAIN st[t] = 1 .. n
    BY FramesOfStack
  <2> QED BY <2>1 DEF StackOK
<1>2. /\ s2 \in Seq(FrameRecords) /\ s2 # <<>> /\ Len(s2) = n + 1 /\ s2[n + 1] = f
      /\ \A j \in 1 .. n : s2[j] = st[t][j]
  BY <1>1, AppendProperties
<1>3. DOMAIN s2 = 1 .. n + 1
  BY <1>1, <1>2, LenProperties
<1> HIDE DEF n, s2
<1>4. st2 \in [MinerThreads -> Seq(FrameRecords)] /\ st2[t] = s2 /\ \A u \in MinerThreads : u # t => st2[u] = st[u]
  BY <1>1, <1>2 DEF s2, Pushed
<1>5. /\ DOMAIN st2[t] = DOMAIN st[t] \cup {n + 1} /\ n + 1 \notin DOMAIN st[t] /\ st2[t][n + 1] = f
      /\ \A u \in MinerThreads : u # t => DOMAIN st2[u] = DOMAIN st[u]
      /\ \A u \in MinerThreads : \A i \in DOMAIN st[u] : st2[u][i] = st[u][i] /\ i \in DOMAIN st2[u]
  BY <1>1, <1>2, <1>3, <1>4
<1>6. \A u \in MinerThreads : \A i \in DOMAIN st2[u] : i \in DOMAIN st[u] \/ (u = t /\ i = n + 1)
  BY <1>5
<1>7. \A u \in MinerThreads : \A i \in DOMAIN st[u] : st[u][i].pattern # f.pattern
  BY DEF FramesIn
<1>8. StackOK(st2)
  <2>1. f.next \in 1 .. Len(Extensions[f.pattern]) + 1
    <3>1. Extensions[f.pattern] \in Seq(Patterns)
      BY DEF FrameRecords
    <3>2. Len(Extensions[f.pattern]) \in Nat
      BY <3>1, LenProperties
    <3> QED BY <3>2
  <2>2. \A u \in MinerThreads : \A i \in DOMAIN st2[u] :
          st2[u][i].next \in 1 .. Len(Extensions[st2[u][i].pattern]) + 1
    <3> SUFFICES ASSUME NEW u \in MinerThreads, NEW i \in DOMAIN st2[u]
                 PROVE  st2[u][i].next \in 1 .. Len(Extensions[st2[u][i].pattern]) + 1
      OBVIOUS
    <3>1. CASE i \in DOMAIN st[u]
      BY <1>5, <3>1 DEF StackOK
    <3>2. CASE u = t /\ i = n + 1
      BY <1>5, <2>1, <3>2
    <3> QED BY <1>6, <3>1, <3>2
  <2>3. \A u \in MinerThreads : \A i \in DOMAIN st2[u] :
          st2[u][i].pattern # Root => IsExtension(st2[u][i].pattern, st2[u][i].parent)
    BY <1>5, <1>6 DEF StackOK
  <2>4. \A v, u \in MinerThreads : \A i \in DOMAIN st2[v], j \in DOMAIN st2[u] :
          st2[v][i].pattern = st2[u][j].pattern => v = u /\ i = j
    <3> SUFFICES ASSUME NEW v \in MinerThreads, NEW u \in MinerThreads, NEW i \in DOMAIN st2[v], NEW j \in DOMAIN st2[u],
                        st2[v][i].pattern = st2[u][j].pattern
                 PROVE  v = u /\ i = j
      OBVIOUS
    <3>1. CASE i \in DOMAIN st[v] /\ j \in DOMAIN st[u]
      BY <1>5, <3>1 DEF StackOK
    <3>2. CASE i \notin DOMAIN st[v] \/ j \notin DOMAIN st[u]
      BY <1>5, <1>6, <1>7, <3>2
    <3> QED BY <3>1, <3>2
  <2> QED BY <1>4, <2>2, <2>3, <2>4 DEF StackOK
<1>9. FramesIn(st2) = FramesIn(st) \cup {f.pattern}
  <2>1. FramesIn(st2) \subseteq FramesIn(st) \cup {f.pattern}
    BY <1>5, <1>6 DEF FramesIn
  <2>2. FramesIn(st) \subseteq FramesIn(st2)
    BY <1>5 DEF FramesIn
  <2>3. f.pattern \in FramesIn(st2)
    BY <1>5 DEF FramesIn
  <2> QED BY <2>1, <2>2, <2>3
<1>10. ASSUME NEW y \in Nodes PROVE BegunIn(st2, y) = BegunIn(st, y)
  <2>1. BegunIn(st, y) \subseteq BegunIn(st2, y)
    BY <1>5 DEF BegunIn
  <2>2. \A k \in DOMAIN Extensions[y] : k \in Nat \ {0}
    <3>1. Extensions[y] \in Seq(Patterns)
      OBVIOUS
    <3>2. DOMAIN Extensions[y] = 1 .. Len(Extensions[y]) /\ Len(Extensions[y]) \in Nat
      BY <3>1, LenProperties
    <3> QED BY <3>2
  <2>3. ASSUME NEW k \in BegunIn(st2, y) PROVE k \in BegunIn(st, y)
    <3>1. PICK u \in MinerThreads : \E i \in DOMAIN st2[u] : st2[u][i].pattern = y /\ k < st2[u][i].next
      BY DEF BegunIn
    <3>2. PICK i \in DOMAIN st2[u] : st2[u][i].pattern = y /\ k < st2[u][i].next
      BY <3>1
    <3>3. k \in DOMAIN Extensions[y] /\ ~(k < 1)
      BY <2>2 DEF BegunIn
    <3>4. i \in DOMAIN st[u]
      BY <1>5, <1>6, <3>2, <3>3
    <3> QED BY <1>5, <3>2, <3>3, <3>4 DEF BegunIn
  <2> QED BY <2>1, <2>3
<1>11. RootIsFirst(st) => RootIsFirst(st2)
  <2>1. ASSUME RootIsFirst(st) PROVE 1 \in DOMAIN st[Caller] /\ Caller \in MinerThreads
    <3>1. Caller \in MinerThreads
      BY DEF MinerThreads
    <3> QED BY <2>1, <3>1, FramesOfStack DEF RootIsFirst
  <2> QED BY <1>2, <1>4, <1>5, <2>1 DEF RootIsFirst
<1> QED BY <1>8, <1>9, <1>10, <1>11

(* The frame on top is left.                                               *)
LEMMA FramePopped ==
  ASSUME NEW st, StackOK(st), NEW t \in MinerThreads, st[t] # <<>>,
         NEW st2, st2 = Popped(st, t)
  PROVE  /\ StackOK(st2) /\ FramesIn(st2) = FramesIn(st) \ {Last(st[t]).pattern}
         /\ RootIsFirst(st) /\ Last(st[t]).pattern # Root => RootIsFirst(st2)
         /\ Len(st2[t]) = Len(st[t]) - 1
         /\ \A y : y # Last(st[t]).pattern => BegunIn(st2, y) = BegunIn(st, y)
<1> DEFINE n == Len(st[t])
           s2 == Front(st[t])
<1>1. /\ st \in [MinerThreads -> Seq(FrameRecords)] /\ st[t] \in Seq(FrameRecords)
      /\ n \in Nat /\ DOMAIN st[t] = 1 .. n /\ n \in 1 .. n /\ Last(st[t]) = st[t][n]
      /\ \A j \in 1 .. n - 1 : st[t][j] \in FrameRecords
  <2>1. /\ st[t] \in Seq(FrameRecords) /\ n \in Nat /\ DOMAIN st[t] = 1 .. n /\ n \in DOMAIN st[t]
        /\ Last(st[t]) = st[t][n] /\ \A j \in DOMAIN st[t] : st[t][j] \in FrameRecords
    BY FramesOfStack
  <2> QED BY <2>1 DEF StackOK
<1>2. s2 \in Seq(FrameRecords) /\ Len(s2) = n - 1 /\ \A j \in 1 .. n - 1 : s2[j] = st[t][j]
  <2>1. /\ SubSeq(st[t], 1, n - 1) \in Seq(FrameRecords)
        /\ Len(SubSeq(st[t], 1, n - 1)) = IF 1 <= n - 1 THEN n - 1 - 1 + 1 ELSE 0
        /\ \A j \in 1 .. n - 1 - 1 + 1 : SubSeq(st[t], 1, n - 1)[j] = st[t][1 + j - 1]
    BY <1>1, SubSeqProperties
  <2>2. s2 = SubSeq(st[t], 1, n - 1)
    BY DEF Front
  <2> HIDE DEF n, s2
  <2> QED BY <1>1, <2>1, <2>2
<1>3. DOMAIN s2 = 1 .. n - 1
  BY <1>1, <1>2, LenProperties
<1> HIDE DEF n, s2
<1>4. st2 \in [MinerThreads -> Seq(FrameRecords)] /\ st2[t] = s2 /\ \A u \in MinerThreads : u # t => st2[u] = st[u]
  BY <1>1, <1>2 DEF s2, Popped
<1>5. /\ \A u \in MinerThreads : u # t => DOMAIN st2[u] = DOMAIN st[u]
      /\ DOMAIN st2[t] = DOMAIN st[t] \ {n} /\ n \in DOMAIN st[t]
      /\ \A u \in MinerThreads : \A i \in DOMAIN st2[u] : st2[u][i] = st[u][i] /\ i \in DOMAIN st[u]
  BY <1>1, <1>2, <1>3, <1>4
<1>6. StackOK(st2)
  BY <1>4, <1>5 DEF StackOK
<1>7. FramesIn(st2) = FramesIn(st) \ {Last(st[t]).pattern}
  <2>1. ASSUME NEW u \in MinerThreads, NEW i \in DOMAIN st2[u]
        PROVE  st2[u][i].pattern \in FramesIn(st) /\ st2[u][i].pattern # st[t][n].pattern
    <3>1. st2[u][i] = st[u][i] /\ i \in DOMAIN st[u] /\ ~(u = t /\ i = n)
      BY <1>5
    <3> QED BY <1>5, <3>1 DEF StackOK, FramesIn
  <2>2. ASSUME NEW u \in MinerThreads, NEW i \in DOMAIN st[u], st[u][i].pattern # st[t][n].pattern
        PROVE  st[u][i].pattern \in FramesIn(st2)
    <3>1. i \in DOMAIN st2[u] /\ st2[u][i] = st[u][i]
      BY <1>5, <2>2
    <3> QED BY <3>1 DEF FramesIn
  <2>3. ASSUME NEW x \in FramesIn(st2) PROVE x \in FramesIn(st) \ {Last(st[t]).pattern}
    <3>1. PICK u \in MinerThreads : x \in {st2[u][i].pattern : i \in DOMAIN st2[u]}
      BY DEF FramesIn
    <3> QED BY <1>1, <2>1, <3>1
  <2>4. ASSUME NEW x \in FramesIn(st) \ {Last(st[t]).pattern} PROVE x \in FramesIn(st2)
    <3>1. PICK u \in MinerThreads : x \in {st[u][i].pattern : i \in DOMAIN st[u]}
      BY DEF FramesIn
    <3> QED BY <1>1, <2>2, <3>1
  <2> QED BY <2>3, <2>4
<1>8. ASSUME NEW y, y # Last(st[t]).pattern PROVE BegunIn(st2, y) = BegunIn(st, y)
  <2>1. \A u \in MinerThreads : \A i \in DOMAIN st[u] : st[u][i].pattern = y => i \in DOMAIN st2[u] /\ st2[u][i] = st[u][i]
    BY <1>1, <1>5, <1>8
  <2> QED BY <1>5, <2>1 DEF BegunIn
<1>9. ASSUME RootIsFirst(st), Last(st[t]).pattern # Root PROVE RootIsFirst(st2)
  <2>0. Caller \in MinerThreads
    BY DEF MinerThreads
  <2>1. 1 \in DOMAIN st[Caller] /\ st[Caller][1].pattern = Root
    BY <1>9, <2>0, FramesOfStack DEF RootIsFirst
  <2>2. 1 \in DOMAIN st2[Caller] /\ st2[Caller][1] = st[Caller][1]
    BY <1>1, <1>5, <1>9, <2>0, <2>1
  <2>3. st2[Caller] # <<>>
    <3>1. st2[Caller] \in Seq(FrameRecords) /\ DOMAIN st2[Caller] = 1 .. Len(st2[Caller])
      BY <1>6, <2>0, FramesOfStack
    <3> QED BY <2>2, <3>1, EmptySeq
  <2> QED BY <2>1, <2>2, <2>3 DEF RootIsFirst
<1> QED BY <1>1, <1>2, <1>4, <1>6, <1>7, <1>8, <1>9 DEF n

(* A task is queued last, and the task queued last is taken.               *)
LEMMA QueueAppended ==
  ASSUME NEW q, QueueOK(q), NEW task \in TaskRecords,
         task.pattern \notin QueuedIn(q), IsExtension(task.pattern, task.parent)
  PROVE  QueueOK(Append(q, task)) /\ QueuedIn(Append(q, task)) = QueuedIn(q) \cup {task.pattern}
<1> DEFINE n == Len(q)
           q2 == Append(q, task)
<1>1. q \in Seq(TaskRecords) /\ n \in Nat /\ DOMAIN q = 1 .. n
  <2>1. q \in Seq(TaskRecords)
    BY DEF QueueOK
  <2> QED BY <2>1, LenProperties
<1>2. q2 \in Seq(TaskRecords) /\ Len(q2) = n + 1 /\ q2[n + 1] = task /\ \A j \in 1 .. n : q2[j] = q[j]
  BY <1>1, AppendProperties
<1>3. DOMAIN q2 = 1 .. n + 1
  BY <1>1, <1>2, LenProperties
<1> HIDE DEF n, q2
<1>4. /\ DOMAIN q2 = DOMAIN q \cup {n + 1} /\ n + 1 \notin DOMAIN q /\ q2[n + 1] = task
      /\ \A i \in DOMAIN q : q2[i] = q[i]
  BY <1>1, <1>2, <1>3
<1>5. \A i \in DOMAIN q : q[i].pattern # task.pattern
  BY DEF QueuedIn
<1>6. QueueOK(q2)
  BY <1>2, <1>4, <1>5 DEF QueueOK
<1>7. QueuedIn(q2) = QueuedIn(q) \cup {task.pattern}
  BY <1>4 DEF QueuedIn
<1> QED BY <1>6, <1>7 DEF q2

(* Without its last task the queue holds the other tasks, each still once. *)
LEMMA QueueTaken ==
  ASSUME NEW q, QueueOK(q), q # <<>>
  PROVE  /\ QueueOK(Front(q)) /\ QueuedIn(Front(q)) = QueuedIn(q) \ {Last(q).pattern}
         /\ Last(q) \in TaskRecords /\ Last(q).pattern \in QueuedIn(q)
         /\ IsExtension(Last(q).pattern, Last(q).parent)
<1> DEFINE n == Len(q)
           q2 == Front(q)
<1>1. /\ q \in Seq(TaskRecords) /\ n \in Nat /\ DOMAIN q = 1 .. n /\ n \in DOMAIN q /\ Last(q) = q[n]
      /\ \A i \in DOMAIN q : q[i] \in TaskRecords
  <2>1. q \in Seq(TaskRecords)
    BY DEF QueueOK
  <2>2. Len(q) \in Nat \ {0}
    BY <2>1, EmptySeq
  <2>3. DOMAIN q = 1 .. n
    BY <2>1, LenProperties
  <2>4. \A i \in DOMAIN q : q[i] \in TaskRecords
    BY <2>1, <2>3, ElementOfSeq
  <2> QED BY <2>1, <2>2, <2>3, <2>4 DEF Last
<1>2. q2 \in Seq(TaskRecords) /\ Len(q2) = n - 1 /\ \A j \in 1 .. n - 1 : q2[j] = q[j]
  <2>1. /\ SubSeq(q, 1, n - 1) \in Seq(TaskRecords)
        /\ Len(SubSeq(q, 1, n - 1)) = IF 1 <= n - 1 THEN n - 1 - 1 + 1 ELSE 0
        /\ \A j \in 1 .. n - 1 - 1 + 1 : SubSeq(q, 1, n - 1)[j] = q[1 + j - 1]
    BY <1>1, SubSeqProperties
  <2>2. q2 = SubSeq(q, 1, n - 1)
    BY DEF Front
  <2> HIDE DEF n, q2
  <2> QED BY <1>1, <2>1, <2>2
<1>3. DOMAIN q2 = 1 .. n - 1
  BY <1>1, <1>2, LenProperties
<1> HIDE DEF n, q2
<1>4. DOMAIN q2 = DOMAIN q \ {n} /\ \A i \in DOMAIN q2 : q2[i] = q[i]
  BY <1>1, <1>2, <1>3
<1>5. QueueOK(q2)
  BY <1>2, <1>4 DEF QueueOK
<1>6. QueuedIn(q2) = QueuedIn(q) \ {q[n].pattern}
  BY <1>1, <1>4 DEF QueuedIn, QueueOK
<1>7. q[n].pattern \in QueuedIn(q) /\ IsExtension(q[n].pattern, q[n].parent)
  BY <1>1 DEF QueuedIn, QueueOK
<1> QED BY <1>1, <1>5, <1>6, <1>7 DEF q2

(* Only a frame spawns, and the extensions of one pattern can be counted.  *)
LEMMA BegunAndKids ==
  ASSUME TreeAssumption, NEW y \in Nodes
  PROVE  /\ Begun(y) # {} => y \in Frames
         /\ (Begun(y) # {} => y \in Frames)'
         /\ IsFiniteSet(Kids(y)) /\ Cardinality(Kids(y)) \in Nat
         /\ (IsFiniteSet(Kids(y)) /\ Cardinality(Kids(y)) \in Nat)'
<1>1. Begun(y) # {} => y \in Frames
  BY DEF Begun, BegunIn, Frames, FramesOn
<1>5. (Begun(y) # {} => y \in Frames)'
  BY DEF Begun, BegunIn, Frames, FramesOn
<1>2. IsFiniteSet(DOMAIN Extensions[y])
  <2>1. Extensions[y] \in Seq(Patterns)
    BY DEF TreeAssumption
  <2>2. DOMAIN Extensions[y] = 1 .. Len(Extensions[y]) /\ Len(Extensions[y]) \in Nat
    BY <2>1, LenProperties
  <2>3. IsFiniteSet(1 .. Len(Extensions[y]))
    BY <2>2, FS_Interval
  <2> QED BY <2>2, <2>3
<1>3. Kids(y) \subseteq DOMAIN Extensions[y] /\ Kids(y)' \subseteq DOMAIN Extensions[y]
  BY DEF Kids
<1>4. IsFiniteSet(Kids(y)) /\ IsFiniteSet(Kids(y)')
  BY <1>2, <1>3, FS_Subset
<1> QED BY <1>1, <1>4, <1>5, FS_CardinalityType

(* What a pattern, or the database, is extended to is a pattern.         *)
LEMMA ExtensionsArePatterns ==
  ASSUME TreeAssumption, NEW y \in Nodes, NEW k \in DOMAIN Extensions[y]
  PROVE  Extensions[y][k] \in Patterns
<1>1. Extensions[y] \in Seq(Patterns)
  BY DEF TreeAssumption
<1>2. k \in 1 .. Len(Extensions[y])
  BY <1>1, LenProperties
<1> QED BY <1>1, <1>2, ElementOfSeq

(* Spawn: the extension was not begun, so it is new.                       *)
LEMMA SpawnKeepsTree ==
  ASSUME TreeAssumption, TreeInv, NEW y \in Nodes, NEW n \in DOMAIN Extensions[y], y \in Frames, n \notin Begun(y),
         Frames' = Frames, Queued' = Queued \cup {Extensions[y][n]},
         Begun(y)' = Begun(y) \cup {n}, \A z \in Nodes : z # y => Begun(z)' = Begun(z),
         pending' = [pending EXCEPT ![y] = @ + 1], mined' = mined
  PROVE  TreeInv'
<1> DEFINE x == Extensions[y][n]
<1>1. x \in Patterns /\ x \notin Live /\ mined[x] = 0
  <2>1. x \notin Live /\ mined[x] # 1
    BY DEF TreeInv, Finished
  <2> QED BY <2>1, ExtensionsArePatterns DEF TreeInv
<1>2. \A z \in Nodes : \A k \in DOMAIN Extensions[z] : Extensions[z][k] = x => z = y /\ k = n
  BY DEF TreeAssumption
<1> HIDE DEF x
<1>3. Queued' = Queued \cup {x} /\ Live' = Live \cup {x}
  BY DEF x, Live
<1>4. \A z \in Nodes : Kids(z)' = IF z = y THEN Kids(y) \cup {n} ELSE Kids(z)
  BY <1>2, <1>3 DEF Kids, x
<1>5. n \notin Kids(y)
  BY <1>1 DEF Kids, x
<1>6. \A z \in Nodes : Finished(z)' = Finished(z)
  BY DEF Finished
<1>7. /\ pending' \in [Frames -> Nat] /\ pending'[y] = pending[y] + 1
      /\ \A z \in Frames : z # y => pending'[z] = pending[z]
  BY DEF TreeInv
<1>8. \A z \in Frames : pending'[z] = Cardinality(Kids(z)')
  <2>1. pending'[y] = Cardinality(Kids(y)')
    <3>1. Cardinality(Kids(y) \cup {n}) = Cardinality(Kids(y)) + 1
      BY <1>5, BegunAndKids, FS_AddElement
    <3>2. Kids(y)' = Kids(y) \cup {n}
      BY <1>4
    <3>3. pending[y] = Cardinality(Kids(y))
      BY DEF TreeInv
    <3> QED BY <1>7, <3>1, <3>2, <3>3
  <2>2. ASSUME NEW z \in Frames, z # y PROVE pending'[z] = Cardinality(Kids(z)')
    <3>1. z \in Nodes /\ pending[z] = Cardinality(Kids(z))
      BY DEF TreeInv
    <3>2. Kids(z)' = Kids(z)
      BY <1>4, <2>2, <3>1
    <3> QED BY <1>7, <2>2, <3>1, <3>2
  <2> QED BY <2>1, <2>2
<1>9. (\A w \in Queued : mined[w] = 0)' /\ (\A w \in Frames \ {Root} : mined[w] = 1)'
  BY <1>1, <1>3 DEF TreeInv
<1>10. ASSUME NEW z \in Nodes, NEW k \in DOMAIN Extensions[z]
       PROVE  /\ Extensions[z][k] \in Live' => k \in Begun(z)'
              /\ mined[Extensions[z][k]] = 1 => k \in Begun(z)' \/ Finished(z)'
              /\ k \in Begun(z)' \/ Finished(z)' => Extensions[z][k] \in Queued' \/ mined[Extensions[z][k]] = 1
  <2>1. CASE z = y /\ k = n
    BY <1>3, <2>1 DEF x
  <2>2. CASE ~(z = y /\ k = n)
    <3>1. Extensions[z][k] # x
      BY <1>2, <2>2
    <3>2. k \in Begun(z)' <=> k \in Begun(z)
      BY <2>2
    <3> QED BY <1>3, <1>6, <3>1, <3>2 DEF TreeInv
  <2> QED BY <2>1, <2>2
<1>11. (Frames \subseteq Nodes /\ Queued \subseteq Patterns)'
  BY <1>1, <1>3 DEF TreeInv
<1> QED BY <1>7, <1>8, <1>9, <1>10, <1>11 DEF TreeInv

(* Take: the pattern was queued and is mined now.                          *)
LEMMA TakeKeepsTree ==
  ASSUME TreeAssumption, TreeInv, NEW x \in Queued,
         Frames' = Frames \cup {x}, Queued' = Queued \ {x}, \A z \in Nodes : Begun(z)' = Begun(z),
         pending' = [z \in DOMAIN pending \cup {x} |-> IF z = x THEN 0 ELSE pending[z]],
         mined' = [mined EXCEPT ![x] = @ + 1]
  PROVE  TreeInv'
<1>1. x \in Patterns /\ x \in Nodes /\ x # Root /\ mined[x] = 0 /\ x \notin Frames
  BY DEF TreeInv, Nodes, TreeAssumption
<1>2. Live' = Live /\ \A z \in Nodes : Kids(z)' = Kids(z)
  <2>1. Live' = Live
    BY DEF Live
  <2> QED BY <2>1 DEF Kids
<1>3. mined' \in [Patterns -> {0, 1}] /\ mined'[x] = 1 /\ \A w \in Patterns : w # x => mined'[w] = mined[w]
  BY <1>1 DEF TreeInv
<1>4. Begun(x) = {} /\ Kids(x) = {}
  <2>1. Begun(x) = {}
    BY <1>1, BegunAndKids
  <2> QED BY <1>1, <2>1 DEF TreeInv, Kids
<1>5. ASSUME NEW z \in Nodes PROVE Finished(z)' = Finished(z)
  <2>1. CASE z = x
    BY <1>1, <2>1 DEF Finished
  <2>2. CASE z # x
    BY <1>3, <2>2 DEF Finished, Nodes
  <2> QED BY <2>1, <2>2
<1>6. pending' \in [Frames' -> Nat] /\ \A z \in Frames' : pending'[z] = Cardinality(Kids(z)')
  <2>1. DOMAIN pending = Frames /\ Frames \subseteq Nodes /\ \A z \in Frames : pending[z] \in Nat /\ pending[z] = Cardinality(Kids(z))
    BY DEF TreeInv
  <2>2. \A z \in Frames : Kids(z)' = Kids(z)
    BY <1>2, <2>1
  <2>3. Cardinality(Kids(x)') = 0
    <3>1. Kids(x)' = {}
      BY <1>1, <1>2, <1>4
    <3> QED BY <3>1, FS_EmptySet
  <2> QED BY <1>1, <2>1, <2>2, <2>3
<1>7. (\A w \in Queued : mined[w] = 0)' /\ (\A w \in Frames \ {Root} : mined[w] = 1)'
  <2>1. \A w \in Queued' : mined'[w] = 0
    BY <1>3 DEF TreeInv
  <2>2. \A w \in Frames \ {Root} : w \in Patterns /\ mined[w] = 1
    BY DEF TreeInv, Nodes
  <2> QED BY <1>1, <1>3, <2>1, <2>2
<1>8. ASSUME NEW z \in Nodes, NEW k \in DOMAIN Extensions[z]
      PROVE  /\ Extensions[z][k] \in Live' => k \in Begun(z)'
             /\ mined'[Extensions[z][k]] = 1 => k \in Begun(z)' \/ Finished(z)'
             /\ k \in Begun(z)' \/ Finished(z)' => Extensions[z][k] \in Queued' \/ mined'[Extensions[z][k]] = 1
  <2>1. CASE Extensions[z][k] = x
    <3>1. x \in Live
      BY DEF Live
    <3>2. k \in Begun(z)
      BY <2>1, <3>1 DEF TreeInv
    <3> QED BY <1>3, <2>1, <3>2
  <2>2. CASE Extensions[z][k] # x
    BY <1>2, <1>3, <1>5, <2>2, ExtensionsArePatterns DEF TreeInv
  <2> QED BY <2>1, <2>2
<1>9. (Frames \subseteq Nodes /\ Queued \subseteq Patterns)'
  BY <1>1 DEF TreeInv
<1>10. (\A z \in Nodes : \A k \in DOMAIN Extensions[z] : Extensions[z][k] \in Live => k \in Begun(z))'
  BY <1>8
<1>11. (\A z \in Nodes : \A k \in DOMAIN Extensions[z] :
          mined[Extensions[z][k]] = 1 => k \in Begun(z) \/ Finished(z))'
  BY <1>8
<1>12. (\A z \in Nodes : \A k \in DOMAIN Extensions[z] :
          k \in Begun(z) \/ Finished(z) => Extensions[z][k] \in Queued \/ mined[Extensions[z][k]] = 1)'
  BY <1>8
<1> QED BY <1>3, <1>6, <1>7, <1>9, <1>10, <1>11, <1>12 DEF TreeInv

(* LeaveFrame: nothing that x spawned is queued or being mined.            *)
LEMMA LeaveKeepsTree ==
  ASSUME TreeAssumption, TreeInv, NEW x \in Frames, x # Root, pending[x] = 0, Begun(x) = DOMAIN Extensions[x],
         NEW y \in Nodes, IsExtension(x, y),
         Frames' = Frames \ {x}, Queued' = Queued, \A z \in Nodes : z # x => Begun(z)' = Begun(z),
         pending' = [WithoutPending(x) EXCEPT ![y] = @ - 1], mined' = mined
  PROVE  TreeInv'
<1>1. x \in Patterns /\ x \in Nodes /\ mined[x] = 1 /\ x \notin Queued
  BY DEF TreeInv, Nodes
<1>2. PICK n \in DOMAIN Extensions[y] : Extensions[y][n] = x
  BY DEF IsExtension
<1>3. \A z \in Nodes : \A k \in DOMAIN Extensions[z] : Extensions[z][k] = x => z = y /\ k = n
  BY <1>2 DEF TreeAssumption
<1>4. Kids(x) = {}
  <2>1. Cardinality(Kids(x)) = 0 /\ IsFiniteSet(Kids(x))
    BY <1>1, BegunAndKids DEF TreeInv
  <2> QED BY <2>1, FS_EmptySet
<1>5. y \in Frames /\ y # x /\ n \in Kids(y)
  <2>1. x \in Live
    BY DEF Live
  <2>2. n \in Kids(y) /\ n \in Begun(y)
    BY <1>2, <2>1 DEF Kids, TreeInv
  <2> QED BY <1>4, <2>2, BegunAndKids
<1>6. Live' = Live \ {x}
  BY <1>1 DEF Live
<1>7. \A z \in Nodes : Kids(z)' = IF z = y THEN Kids(y) \ {n} ELSE Kids(z)
  BY <1>2, <1>3, <1>6 DEF Kids
<1>8. \A z \in Nodes : z # x => Finished(z)' = Finished(z)
  BY DEF Finished
<1>9. Begun(x)' = {} /\ Finished(x)'
  <2>1. Begun(x)' = {}
    BY <1>1, BegunAndKids
  <2> QED BY <1>1, <2>1 DEF Finished
<1>10. pending' \in [Frames' -> Nat] /\ \A z \in Frames' : pending'[z] = Cardinality(Kids(z)')
  <2>1. DOMAIN pending = Frames /\ Frames \subseteq Nodes /\ \A z \in Frames : pending[z] \in Nat /\ pending[z] = Cardinality(Kids(z))
    BY DEF TreeInv
  <2>2. /\ DOMAIN pending' = Frames' /\ pending'[y] = pending[y] - 1
        /\ \A z \in Frames' : z # y => pending'[z] = pending[z]
    BY <1>5, <2>1 DEF WithoutPending
  <2>3. Cardinality(Kids(y)') = Cardinality(Kids(y)) - 1 /\ Cardinality(Kids(y)') \in Nat
    <3>1. Kids(y)' = Kids(y) \ {n}
      BY <1>7
    <3>2. Cardinality(Kids(y) \ {n}) = Cardinality(Kids(y)) - 1
      BY <1>5, BegunAndKids, FS_RemoveElement
    <3> QED BY <3>1, <3>2, BegunAndKids
  <2>4. ASSUME NEW z \in Frames', z # y PROVE pending'[z] \in Nat /\ pending'[z] = Cardinality(Kids(z)')
    <3>1. z \in Nodes /\ Kids(z)' = Kids(z)
      BY <1>7, <2>1, <2>4
    <3> QED BY <2>1, <2>2, <2>4, <3>1
  <2>5. pending'[y] \in Nat /\ pending'[y] = Cardinality(Kids(y)')
    BY <1>5, <2>1, <2>2, <2>3
  <2>6. pending' = [z \in Frames' |-> pending'[z]]
    BY <2>1 DEF WithoutPending
  <2> QED BY <2>4, <2>5, <2>6
<1>11. (\A w \in Queued : mined[w] = 0)' /\ (\A w \in Frames \ {Root} : mined[w] = 1)'
  BY DEF TreeInv
<1>12. ASSUME NEW z \in Nodes, NEW k \in DOMAIN Extensions[z]
       PROVE  /\ Extensions[z][k] \in Live' => k \in Begun(z)'
              /\ mined'[Extensions[z][k]] = 1 => k \in Begun(z)' \/ Finished(z)'
              /\ k \in Begun(z)' \/ Finished(z)' => Extensions[z][k] \in Queued' \/ mined'[Extensions[z][k]] = 1
  <2>1. CASE z = x
    <3>1. Extensions[x][k] \notin Live
      BY <1>4, <2>1 DEF Kids
    <3>2. Extensions[x][k] \in Queued \/ mined[Extensions[x][k]] = 1
      BY <1>1, <2>1 DEF TreeInv
    <3> QED BY <1>6, <1>9, <2>1, <3>1, <3>2
  <2>2. CASE z # x
    BY <1>6, <1>8, <2>2 DEF TreeInv
  <2> QED BY <2>1, <2>2
<1>13. (Frames \subseteq Nodes /\ Queued \subseteq Patterns)'
  BY DEF TreeInv
<1>14. (mined \in [Patterns -> {0, 1}])'
  BY DEF TreeInv
<1> QED BY <1>10, <1>11, <1>12, <1>13, <1>14 DEF TreeInv

(* When all that Root has spawned is done with, everything is.             *)
LEMMA RootIsLast ==
  ASSUME TreeAssumption, TreeInv, Root \in Frames, pending[Root] = 0, Begun(Root) = DOMAIN Extensions[Root]
  PROVE  Frames = {Root} /\ Queued = {} /\ \A x \in Patterns : mined[x] = 1
<1>1. Kids(Root) = {} /\ Root \in Nodes
  <2>1. Root \in Nodes
    BY DEF Nodes
  <2>2. Cardinality(Kids(Root)) = 0 /\ IsFiniteSet(Kids(Root))
    BY <2>1, BegunAndKids DEF TreeInv
  <2> QED BY <2>1, <2>2, FS_EmptySet
<1>2. Live \ {Root} = {}
  <2>1. Live \ {Root} \subseteq Patterns
    BY DEF TreeInv, Live, Nodes
  <2>2. SUFFICES ASSUME Live \ {Root} # {} PROVE FALSE
    OBVIOUS
  <2>3. PICK y \in Nodes \ (Live \ {Root}) : \E k \in DOMAIN Extensions[y] : Extensions[y][k] \in Live \ {Root}
    BY <2>1, <2>2 DEF TreeAssumption
  <2>4. PICK k \in DOMAIN Extensions[y] : Extensions[y][k] \in Live \ {Root}
    BY <2>3
  <2>5. y \in Frames
    BY <2>4, BegunAndKids DEF TreeInv
  <2>6. y = Root
    BY <2>5 DEF Live
  <2> QED BY <1>1, <2>4, <2>6 DEF Kids
<1>3. Frames = {Root} /\ Queued = {}
  BY <1>2 DEF Live, TreeInv, TreeAssumption
<1>4. ASSUME NEW x \in Patterns PROVE mined[x] = 1
  <2> DEFINE S == {w \in Patterns : mined[w] # 1}
  <2>1. SUFFICES ASSUME S # {} PROVE FALSE
    OBVIOUS
  <2>2. PICK y \in Nodes \ S : \E k \in DOMAIN Extensions[y] : Extensions[y][k] \in S
    BY <2>1 DEF TreeAssumption
  <2>3. PICK k \in DOMAIN Extensions[y] : Extensions[y][k] \in S
    BY <2>2
  <2>4. k \in Begun(y) \/ Finished(y)
    BY <1>3, <2>2 DEF Finished, Nodes
  <2>5. mined[Extensions[y][k]] = 1
    BY <1>3, <2>4 DEF TreeInv
  <2> QED BY <2>3, <2>5
<1> QED BY <1>3, <1>4

(* At the start only that frame is there, and nothing has been spawned.  *)
LEMMA GspanStarts == TreeAssumption /\ GspanInit => GspanInv
<1> SUFFICES ASSUME TreeAssumption, GspanInit PROVE GspanInv
  OBVIOUS
<1>1. /\ tasks_ = <<>> /\ main = "mine" /\ pending = [x \in {Root} |-> 0] /\ mined = [x \in Patterns |-> 0]
      /\ stack = [t \in MinerThreads |-> IF t = Caller THEN <<Frame(Root, Root)>> ELSE <<>>]
      /\ Caller \in MinerThreads /\ Root \in Nodes
  BY DEF GspanInit, MinerThreads, Nodes
<1>2. tasks_ \in Seq(TaskRecords) /\ DOMAIN tasks_ = {} /\ Queued = {}
  <2>1. tasks_ \in Seq(TaskRecords) /\ DOMAIN tasks_ = {}
    BY <1>1, EmptySeq
  <2> QED BY <2>1 DEF Queued, QueuedIn
<1> DEFINE f == Frame(Root, Root)
<1>3. f \in FrameRecords /\ f.pattern = Root /\ f.next = 1
  BY <1>1 DEF Frame, FrameRecords
<1> HIDE DEF f
<1>4. /\ <<f>> \in Seq(FrameRecords) /\ DOMAIN <<f>> = {1} /\ <<f>>[1] = f /\ <<f>> # <<>>
      /\ <<>> \in Seq(FrameRecords) /\ \A i : i \notin DOMAIN <<>>
  BY <1>3
<1>5. /\ stack \in [MinerThreads -> Seq(FrameRecords)] /\ stack[Caller] = <<f>>
      /\ \A t \in MinerThreads : \A i \in DOMAIN stack[t] : t = Caller /\ i = 1 /\ stack[t][i] = f
      /\ 1 \in DOMAIN stack[Caller]
  BY <1>1, <1>4 DEF f
<1>6. Extensions[Root] \in Seq(Patterns) /\ Len(Extensions[Root]) \in Nat
      /\ \A k \in DOMAIN Extensions[Root] : k \in Nat /\ ~(k < 1)
  <2>1. Extensions[Root] \in Seq(Patterns)
    BY <1>1 DEF TreeAssumption
  <2> QED BY <2>1, LenProperties
<1>7. StackOK(stack)
  <2>1. f.next \in 1 .. Len(Extensions[f.pattern]) + 1
    BY <1>3, <1>6
  <2> QED BY <1>3, <1>5, <2>1 DEF StackOK
<1>8. Frames = {Root}
  <2>1. Root \in FramesOn(Caller)
    BY <1>3, <1>5 DEF FramesOn
  <2>2. \A t \in MinerThreads : FramesOn(t) \subseteq {Root}
    BY <1>3, <1>5 DEF FramesOn
  <2> QED BY <1>1, <2>1, <2>2 DEF Frames
<1>9. \A y \in Nodes : Begun(y) = {}
  <2> SUFFICES ASSUME NEW y \in Nodes, NEW k \in Begun(y) PROVE FALSE
    OBVIOUS
  <2>1. k \in DOMAIN Extensions[y] /\ y = Root /\ k < 1
    BY <1>3, <1>5 DEF Begun, BegunIn
  <2> QED BY <1>6, <2>1
<1>10. \A y \in Nodes : Kids(y) = {} /\ ~Finished(y)
  <2> SUFFICES ASSUME NEW y \in Nodes PROVE Kids(y) = {} /\ ~Finished(y)
    OBVIOUS
  <2>1. \A k \in DOMAIN Extensions[y] : Extensions[y][k] \notin Live
    BY <1>2, <1>8, ExtensionsArePatterns DEF Live, TreeAssumption
  <2>2. ~Finished(y)
    BY <1>1, <1>8 DEF Finished, Nodes
  <2> QED BY <2>1, <2>2 DEF Kids
<1>11. TreeInv
  <2>1. pending \in [Frames -> Nat] /\ \A y \in Frames : pending[y] = Cardinality(Kids(y))
    <3>1. Kids(Root) = {} /\ Cardinality({}) = 0
      BY <1>1, <1>10, FS_EmptySet
    <3> QED BY <1>1, <1>8, <3>1
  <2>2. mined \in [Patterns -> {0, 1}]
    BY <1>1
  <2>3. \A y \in Nodes : \A k \in DOMAIN Extensions[y] :
          Extensions[y][k] \notin Live /\ mined[Extensions[y][k]] = 0
    BY <1>1, <1>10, ExtensionsArePatterns DEF Kids
  <2> QED BY <1>1, <1>2, <1>8, <1>9, <1>10, <2>1, <2>2, <2>3 DEF TreeInv
<1>12. MainInv
  BY <1>1, <1>3, <1>4, <1>5 DEF MainInv, RootIsFirst
<1> QED BY <1>2, <1>7, <1>11, <1>12 DEF GspanInv, QueueOK

(* Nothing that the others of its parts speak of changes.                  *)
LEMMA TreeUnchanged ==
  ASSUME TreeInv, Frames' = Frames, Queued' = Queued, \A y \in Nodes : Begun(y)' = Begun(y),
         pending' = pending, mined' = mined
  PROVE  TreeInv'
<1>1. Live' = Live /\ \A y \in Nodes : Kids(y)' = Kids(y) /\ Finished(y)' = Finished(y)
  BY DEF Live, Kids, Finished
<1> QED BY <1>1 DEF TreeInv

(* The frame on top of a stack, while there is one the caller mines.       *)
LEMMA TopFrame ==
  ASSUME TreeAssumption, GspanInv, NEW t \in MinerThreads, Busy(t)
  PROVE  /\ Top(t) \in FrameRecords /\ Top(t).pattern \in Frames /\ Top(t).pattern \in Nodes
         /\ Top(t).next \in 1 .. Len(Extensions[Top(t).pattern]) + 1
         /\ Top(t).pattern # Root => IsExtension(Top(t).pattern, Top(t).parent)
         /\ Begun(Top(t).pattern) = Before(Top(t).pattern, Top(t).next)
         /\ DOMAIN Extensions[Top(t).pattern] = 1 .. Len(Extensions[Top(t).pattern])
         /\ Len(Extensions[Top(t).pattern]) \in Nat
         /\ main = "mine"
<1> DEFINE n == Len(stack[t])
<1>1. StackOK(stack) /\ stack[t] # <<>> /\ MainInv
  BY DEF GspanInv, Busy
<1>2. n \in DOMAIN stack[t] /\ Top(t) = stack[t][n] /\ stack[t][n] \in FrameRecords /\ stack[t][n].pattern \in Nodes
  BY <1>1, FramesOfStack DEF Top
<1> HIDE DEF n
<1>3. stack[t][n].pattern \in Frames
  BY <1>2 DEF Frames, FramesOn
<1>4. BegunIn(stack, stack[t][n].pattern) = Before(stack[t][n].pattern, stack[t][n].next)
  BY <1>1, <1>2, BegunByFrame
<1>5. Extensions[stack[t][n].pattern] \in Seq(Patterns)
  BY <1>2 DEF TreeAssumption
<1>6. /\ DOMAIN Extensions[stack[t][n].pattern] = 1 .. Len(Extensions[stack[t][n].pattern])
      /\ Len(Extensions[stack[t][n].pattern]) \in Nat
  BY <1>5, LenProperties
<1>7. /\ stack[t][n].next \in 1 .. Len(Extensions[stack[t][n].pattern]) + 1
      /\ stack[t][n].pattern # Root => IsExtension(stack[t][n].pattern, stack[t][n].parent)
  BY <1>1, <1>2 DEF StackOK
<1>8. main = "mine"
  BY <1>1, <1>3 DEF MainInv
<1> QED BY <1>2, <1>3, <1>4, <1>6, <1>7, <1>8 DEF Begun

(* Spawning an extension: the counter of its parent, whose frame is on   *)
(* top of t's stack, rises with the task that is queued.                 *)
LEMMA SpawnKeeps ==
  ASSUME TreeAssumption, GspanInv, NEW t \in MinerThreads, Spawn(t) PROVE GspanInv'
<1>1. Busy(t) /\ stack[t] # <<>> /\ ~Spawned(t) /\ StackOK(stack) /\ QueueOK(tasks_) /\ TreeInv /\ MainInv
  BY DEF Spawn, Busy, GspanInv
<1>2. PICK f : f = [Top(t) EXCEPT !.next = @ + 1]
  OBVIOUS
<1>3. PICK y : y = Top(t).pattern
  OBVIOUS
<1>4. PICK n : n = Top(t).next
  OBVIOUS
<1>5. /\ y \in Nodes /\ y \in Frames /\ n \in DOMAIN Extensions[y] /\ n \in Nat
      /\ Begun(y) = Before(y, n)
      /\ DOMAIN Extensions[y] = 1 .. Len(Extensions[y]) /\ Len(Extensions[y]) \in Nat /\ main = "mine"
  <2>1. n <= Len(Extensions[y])
    BY <1>1, <1>3, <1>4, TopFrame DEF Spawned
  <2> QED BY <1>1, <1>3, <1>4, <2>1, TopFrame
<1>6. /\ f \in FrameRecords /\ f.pattern = y /\ f.parent = Top(t).parent /\ f.next = n + 1
      /\ f.next \in 1 .. Len(Extensions[y]) + 1
  <2>1. Top(t) \in FrameRecords
    BY <1>1, TopFrame
  <2>2. f \in FrameRecords /\ f.pattern = Top(t).pattern /\ f.parent = Top(t).parent /\ f.next = Top(t).next + 1
    BY <1>2, <2>1 DEF FrameRecords
  <2> QED BY <1>3, <1>4, <1>5, <2>2
<1>7. stack' = WithTop(stack, t, f)
  BY <1>2 DEF Spawn, Top, Last, WithTop
<1>8. /\ StackOK(stack') /\ FramesIn(stack') = FramesIn(stack) /\ (RootIsFirst(stack) => RootIsFirst(stack'))
      /\ \A z : z # y => BegunIn(stack', z) = BegunIn(stack, z)
      /\ BegunIn(stack', y) = Before(y, n + 1)
  <2>1. f.pattern = Last(stack[t]).pattern /\ f.parent = Last(stack[t]).parent
    BY <1>3, <1>6 DEF Top
  <2> QED BY <1>1, <1>6, <1>7, <2>1, TopChanged
<1>9. Begun(y)' = Begun(y) \cup {n} /\ \A z \in Nodes : z # y => Begun(z)' = Begun(z)
  <2>1. Before(y, n + 1) = Before(y, n) \cup {n}
    BY <1>5 DEF Before
  <2> QED BY <1>5, <1>8, <2>1 DEF Begun
<1>10. Frames' = Frames
  BY <1>8 DEF Frames, FramesOn, FramesIn
<1>11. PICK task : task = [parent |-> y, pattern |-> Extensions[y][n]]
  OBVIOUS
<1>12. /\ task \in TaskRecords /\ task.pattern = Extensions[y][n] /\ tasks_' = Append(tasks_, task)
       /\ IsExtension(task.pattern, task.parent)
  BY <1>3, <1>4, <1>5, <1>11, ExtensionsArePatterns DEF Spawn, TaskRecords, IsExtension
<1>13. n \notin Begun(y)
  BY <1>5 DEF Before
<1>14. task.pattern \notin QueuedIn(tasks_)
  BY <1>1, <1>5, <1>12, <1>13 DEF TreeInv, Live, Queued
<1>15. QueueOK(tasks_') /\ Queued' = Queued \cup {Extensions[y][n]}
  BY <1>1, <1>12, <1>14, QueueAppended DEF Queued
<1>16. pending' = [pending EXCEPT ![y] = @ + 1] /\ mined' = mined /\ main' = main
  BY <1>3 DEF Spawn
<1>17. TreeInv'
  BY <1>1, <1>5, <1>9, <1>10, <1>13, <1>15, <1>16, SpawnKeepsTree
<1>18. MainInv'
  BY <1>1, <1>5, <1>8, <1>16 DEF MainInv
<1> QED BY <1>8, <1>15, <1>17, <1>18 DEF GspanInv

(* Only whether the thread on top is about to look at the queue.           *)
LEMMA FlagKeeps ==
  ASSUME TreeAssumption, GspanInv, NEW t \in MinerThreads, Busy(t), NEW b \in BOOLEAN,
         NEW st2, st2 = WithFlag(stack, t, b)
  PROVE  /\ StackOK(st2) /\ FramesIn(st2) = Frames /\ RootIsFirst(st2) /\ st2[t] # <<>>
         /\ \A y : BegunIn(st2, y) = Begun(y)
<1>1. stack[t] # <<>> /\ StackOK(stack) /\ MainInv
  BY DEF Busy, GspanInv
<1>2. PICK f : f = [Top(t) EXCEPT !.popping = b]
  OBVIOUS
<1>3. /\ f \in FrameRecords /\ f.pattern = Top(t).pattern /\ f.parent = Top(t).parent /\ f.next = Top(t).next
      /\ f.next \in 1 .. Len(Extensions[f.pattern]) + 1
  <2>1. Top(t) \in FrameRecords /\ Top(t).next \in 1 .. Len(Extensions[Top(t).pattern]) + 1
    BY TopFrame
  <2>2. f \in FrameRecords /\ f.pattern = Top(t).pattern /\ f.parent = Top(t).parent /\ f.next = Top(t).next
    BY <1>2, <2>1 DEF FrameRecords
  <2> QED BY <2>1, <2>2
<1>4. st2 = WithTop(stack, t, f)
  BY <1>2 DEF Top, Last, WithTop, WithFlag
<1>5. /\ StackOK(st2) /\ FramesIn(st2) = FramesIn(stack) /\ st2[t] # <<>> /\ (RootIsFirst(stack) => RootIsFirst(st2))
      /\ \A z : z # f.pattern => BegunIn(st2, z) = BegunIn(stack, z)
      /\ BegunIn(st2, f.pattern) = Before(f.pattern, f.next)
  <2>1. f.pattern = Last(stack[t]).pattern /\ f.parent = Last(stack[t]).parent
    BY <1>3 DEF Top
  <2> QED BY <1>1, <1>3, <1>4, <2>1, TopChanged
<1>6. Begun(f.pattern) = Before(f.pattern, f.next) /\ main = "mine"
  BY <1>3, TopFrame
<1>7. FramesIn(stack) = Frames
  BY DEF FramesIn, Frames, FramesOn
<1> QED BY <1>1, <1>5, <1>6, <1>7 DEF Begun, MainInv

(* The pattern queued last is in a frame now, wherever its parent is.      *)
LEMMA TakeKeeps ==
  ASSUME TreeAssumption, GspanInv, NEW t \in MinerThreads, Take(t), UNCHANGED main PROVE GspanInv'
<1>1. StackOK(stack) /\ QueueOK(tasks_) /\ TreeInv /\ MainInv /\ tasks_ # <<>>
  BY DEF Take, GspanInv
<1>2. PICK st : st = [stack EXCEPT ![t] = Back(stack[t])]
  OBVIOUS
<1>3. /\ stack \in [MinerThreads -> Seq(FrameRecords)]
      /\ st[t] = Back(stack[t]) /\ DOMAIN st = MinerThreads /\ \A u \in MinerThreads : u # t => st[u] = stack[u]
  BY <1>1, <1>2 DEF StackOK
<1>4. /\ StackOK(st) /\ FramesIn(st) = Frames /\ (RootIsFirst(stack) => RootIsFirst(st))
      /\ \A y : BegunIn(st, y) = Begun(y)
  <2>1. CASE stack[t] = <<>>
    <3>1. st = stack
      BY <1>2, <1>3, <2>1 DEF Back
    <3> QED BY <1>1, <3>1 DEF Frames, FramesIn, FramesOn, Begun
  <2>2. CASE stack[t] # <<>>
    <3>1. st = WithFlag(stack, t, FALSE)
      BY <1>2, <2>2 DEF Back, WithFlag
    <3> QED BY <2>2, <3>1, FlagKeeps DEF Busy
  <2> QED BY <2>1, <2>2
<1>5. PICK task : task = Last(tasks_)
  OBVIOUS
<1>6. /\ QueueOK(Front(tasks_)) /\ QueuedIn(Front(tasks_)) = Queued \ {task.pattern}
      /\ task \in TaskRecords /\ task.pattern \in Queued /\ IsExtension(task.pattern, task.parent)
  BY <1>1, <1>5, QueueTaken DEF Queued
<1>7. PICK f : f = Frame(task.pattern, task.parent)
  OBVIOUS
<1>8. f \in FrameRecords /\ f.pattern = task.pattern /\ f.parent = task.parent /\ f.next = 1
  BY <1>6, <1>7 DEF Frame, FrameRecords, TaskRecords, Nodes
<1>9. f.pattern \notin FramesIn(st)
  BY <1>1, <1>4, <1>6, <1>8 DEF TreeInv, TreeAssumption
<1>10. stack' = Pushed(st, t, f)
  <2>1. stack' = [stack EXCEPT ![t] = Append(Back(stack[t]), f)]
    BY <1>5, <1>7 DEF Take
  <2> QED BY <1>2, <1>3, <2>1 DEF Pushed
<1>11. /\ StackOK(stack') /\ FramesIn(stack') = FramesIn(st) \cup {f.pattern} /\ (RootIsFirst(st) => RootIsFirst(stack'))
       /\ \A y \in Nodes : BegunIn(stack', y) = BegunIn(st, y)
  <2>1. Extensions \in [Nodes -> Seq(Patterns)] /\ IsExtension(f.pattern, f.parent)
    BY <1>6, <1>8 DEF TreeAssumption
  <2> QED BY <1>4, <1>8, <1>9, <1>10, <2>1, FramePushed
<1>12. Frames' = Frames \cup {task.pattern}
  <2>1. Frames' = FramesIn(stack')
    BY DEF Frames, FramesIn, FramesOn
  <2> QED BY <1>4, <1>8, <1>11, <2>1
<1>13. \A y \in Nodes : Begun(y)' = Begun(y)
  BY <1>4, <1>11 DEF Begun
<1>14. tasks_' = Front(tasks_) /\ QueueOK(tasks_') /\ Queued' = Queued \ {task.pattern}
  BY <1>6 DEF Take, Queued
<1>15. /\ mined' = [mined EXCEPT ![task.pattern] = @ + 1]
       /\ pending' = [y \in DOMAIN pending \cup {task.pattern} |-> IF y = task.pattern THEN 0 ELSE pending[y]]
  BY <1>5 DEF Take
<1>16. TreeInv'
  BY <1>1, <1>6, <1>12, <1>13, <1>14, <1>15, TakeKeepsTree
<1>17. main = "mine"
  BY <1>1, <1>6 DEF MainInv
<1>18. MainInv'
  BY <1>1, <1>4, <1>11, <1>17 DEF MainInv
<1> QED BY <1>11, <1>14, <1>16, <1>18 DEF GspanInv

(* Wait's two steps: the flag changes, or a task is taken onto the stack *)
(* of the thread that waits.                                             *)
LEMMA WaitKeeps ==
  ASSUME TreeAssumption, GspanInv, NEW t \in MinerThreads, WaitLoad(t) \/ WaitPop(t) PROVE GspanInv'
<1>1. ASSUME NEW b \in BOOLEAN, Busy(t), stack' = WithFlag(stack, t, b),
             UNCHANGED <<tasks_, pending, mined, main>>
      PROVE  GspanInv'
  <2>1. /\ StackOK(stack') /\ FramesIn(stack') = Frames /\ RootIsFirst(stack')
        /\ \A y : BegunIn(stack', y) = Begun(y)
    BY <1>1, FlagKeeps
  <2>2. Frames' = Frames /\ Queued' = Queued /\ \A y \in Nodes : Begun(y)' = Begun(y)
    <3>1. Frames' = FramesIn(stack')
      BY DEF Frames, FramesIn, FramesOn
    <3> QED BY <1>1, <2>1, <3>1 DEF Begun, Queued
  <2>3. TreeInv'
    BY <1>1, <2>2, TreeUnchanged DEF GspanInv
  <2>4. MainInv'
    BY <1>1, <2>1, <2>2 DEF GspanInv, MainInv
  <2> QED BY <1>1, <2>1, <2>3, <2>4 DEF GspanInv
<1>2. CASE WaitLoad(t)
  BY <1>1, <1>2 DEF WaitLoad, WithFlag
<1>3. CASE WaitPop(t) /\ tasks_ # <<>>
  <2>1. Take(t) /\ UNCHANGED main
    BY <1>3 DEF WaitPop
  <2> QED BY <2>1, TakeKeeps
<1>4. CASE WaitPop(t) /\ tasks_ = <<>>
  BY <1>1, <1>4 DEF WaitPop, WithFlag
<1> QED BY <1>2, <1>3, <1>4

(* The frame on top, and what a thread that leaves it leaves behind.       *)
LEMMA TopPopped ==
  ASSUME TreeAssumption, GspanInv, NEW t \in MinerThreads, Busy(t), Spawned(t), PopFrame(t),
         NEW x, x = Top(t).pattern
  PROVE  /\ StackOK(stack') /\ Frames' = Frames \ {x} /\ x \in Frames
         /\ x # Root => RootIsFirst(stack')
         /\ \A z \in Nodes : z # x => Begun(z)' = Begun(z)
         /\ Begun(x) = DOMAIN Extensions[x]
<1>1. StackOK(stack) /\ stack[t] # <<>> /\ x = Last(stack[t]).pattern /\ stack' = Popped(stack, t)
  BY DEF GspanInv, Busy, Top, PopFrame, Popped
<1>2. /\ StackOK(stack') /\ FramesIn(stack') = FramesIn(stack) \ {x} /\ (RootIsFirst(stack) /\ x # Root => RootIsFirst(stack'))
      /\ \A z : z # x => BegunIn(stack', z) = BegunIn(stack, z)
  BY <1>1, FramePopped
<1>3. Frames' = Frames \ {x}
  BY <1>2 DEF Frames, FramesIn, FramesOn
<1>4. x \in Frames /\ main = "mine" /\ Begun(x) = Before(x, Top(t).next)
      /\ DOMAIN Extensions[x] = 1 .. Len(Extensions[x]) /\ Len(Extensions[x]) \in Nat /\ Top(t).next \in Nat
  BY TopFrame
<1>5. Top(t).next > Len(Extensions[x])
  BY DEF Spawned
<1>6. Begun(x) = DOMAIN Extensions[x]
  BY <1>4, <1>5 DEF Before
<1>7. RootIsFirst(stack)
  BY <1>4 DEF GspanInv, MainInv
<1> QED BY <1>2, <1>3, <1>4, <1>6, <1>7 DEF Begun

(* A frame is left when its counter is zero: everything it spawned is    *)
(* done, so that nothing points into it, and its parent's counter falls. *)
LEMMA LeaveFrameKeeps ==
  ASSUME TreeAssumption, GspanInv, NEW t \in MinerThreads, LeaveFrame(t) PROVE GspanInv'
<1>1. PICK x : x = Top(t).pattern
  OBVIOUS
<1>2. PICK y : y = Top(t).parent
  OBVIOUS
<1>3. /\ Busy(t) /\ Spawned(t) /\ PopFrame(t) /\ x # Root /\ pending[x] = 0
      /\ pending' = [WithoutPending(x) EXCEPT ![y] = @ - 1] /\ UNCHANGED <<tasks_, mined, main>>
  BY <1>1, <1>2 DEF LeaveFrame
<1>4. /\ StackOK(stack') /\ Frames' = Frames \ {x} /\ x \in Frames /\ RootIsFirst(stack')
      /\ (\A z \in Nodes : z # x => Begun(z)' = Begun(z)) /\ Begun(x) = DOMAIN Extensions[x]
  BY <1>1, <1>3, TopPopped
<1>5. y \in Nodes /\ IsExtension(x, y) /\ main = "mine"
  <2>1. Top(t) \in FrameRecords /\ main = "mine" /\ IsExtension(x, y)
    BY <1>1, <1>2, <1>3, TopFrame
  <2> QED BY <1>2, <2>1 DEF FrameRecords
<1>6. Queued' = Queued /\ QueueOK(tasks_')
  BY <1>3 DEF Queued, GspanInv
<1>7. TreeInv'
  BY <1>3, <1>4, <1>5, <1>6, LeaveKeepsTree DEF GspanInv
<1>8. MainInv'
  BY <1>3, <1>4, <1>5 DEF MainInv, GspanInv
<1> QED BY <1>4, <1>6, <1>7, <1>8 DEF GspanInv

(* The caller leaves the frame of MineSubgraphs: with it everything is.  *)
LEMMA CallerReturnsKeeps == ASSUME TreeAssumption, GspanInv, CallerReturns PROVE GspanInv'
<1>0. Caller \in MinerThreads /\ StackOK(stack) /\ TreeInv
  BY DEF MinerThreads, GspanInv
<1>1. Len(stack[Caller]) = 1 /\ Spawned(Caller) /\ pending[Root] = 0 /\ PopFrame(Caller)
      /\ pending' = WithoutPending(Root) /\ main' = "stop" /\ UNCHANGED <<tasks_, mined>>
  BY DEF CallerReturns
<1>2. Busy(Caller) /\ Top(Caller) = stack[Caller][1]
  <2>1. stack[Caller] \in Seq(FrameRecords)
    BY <1>0, FramesOfStack
  <2>2. Len(<<>>) = 0
    BY EmptySeq
  <2>3. stack[Caller] # <<>>
    BY <1>1, <2>2
  <2> QED BY <1>1, <2>3 DEF Busy, Top, Last
<1>3. main = "mine" /\ Top(Caller).pattern = Root
  <2>1. main = "mine"
    BY <1>0, <1>2, TopFrame
  <2> QED BY <1>2, <2>1 DEF GspanInv, MainInv, RootIsFirst
<1>4. /\ StackOK(stack') /\ Frames' = Frames \ {Root} /\ Root \in Frames
      /\ Begun(Root) = DOMAIN Extensions[Root]
  BY <1>0, <1>1, <1>2, <1>3, TopPopped
<1>5. Frames = {Root} /\ Queued = {} /\ \A x \in Patterns : mined[x] = 1
  BY <1>0, <1>1, <1>4, RootIsLast
<1>6. Frames' = {} /\ Queued' = {} /\ QueueOK(tasks_') /\ Live' = {}
  <2>1. Queued' = {} /\ QueueOK(tasks_') /\ Frames' = {}
    BY <1>1, <1>4, <1>5 DEF Queued, GspanInv
  <2> QED BY <2>1 DEF Live
<1>7. pending' \in [Frames' -> Nat]
  BY <1>0, <1>1, <1>5, <1>6 DEF WithoutPending, TreeInv
<1>8. \A y \in Nodes : Finished(y)'
  BY <1>1, <1>5, <1>6 DEF Finished, Nodes
<1>9. TreeInv'
  <2>1. mined' \in [Patterns -> {0, 1}] /\ \A x \in Patterns : mined'[x] = 1
    BY <1>0, <1>1, <1>5 DEF TreeInv
  <2> QED BY <1>6, <1>7, <1>8, <2>1, ExtensionsArePatterns DEF TreeInv
<1>10. MainInv'
  BY <1>1, <1>5, <1>6 DEF MainInv
<1> QED BY <1>4, <1>6, <1>9, <1>10 DEF GspanInv

(* The rest of the caller's steps follow when nothing is left to mine.     *)
LEMMA GspanUnchanged ==
  ASSUME GspanInv, UNCHANGED <<tasks_, stack, pending, mined>>,
         main' = main \/ (main # "mine" /\ main' \in {"stop", "join", "done"})
  PROVE  GspanInv'
<1>1. Frames' = Frames /\ Queued' = Queued /\ \A y \in Nodes : Begun(y)' = Begun(y)
  BY DEF Frames, FramesOn, Queued, Begun
<1>2. TreeInv'
  BY <1>1, TreeUnchanged DEF GspanInv
<1>3. MainInv'
  BY <1>1 DEF GspanInv, MainInv
<1> QED BY <1>2, <1>3 DEF GspanInv

(* One case per action of the search.                                    *)
LEMMA GspanKeeps == TreeAssumption /\ GspanInv /\ [GspanNext]_gspanVars => GspanInv'
<1> SUFFICES ASSUME TreeAssumption, GspanInv, [GspanNext]_gspanVars PROVE GspanInv'
  OBVIOUS
<1>1. ASSUME NEW t \in MinerThreads, MinerStep(t) PROVE GspanInv'
  BY <1>1, SpawnKeeps, WaitKeeps, LeaveFrameKeeps DEF MinerStep
<1>2. CASE CallerMoves
  <2>1. CASE MinerStep(Caller)
    BY <1>1, <2>1 DEF MinerThreads
  <2>2. CASE CallerReturns
    BY <2>2, CallerReturnsKeeps
  <2>3. CASE StopPool \/ NotifyAll \/ JoinPool
    BY <2>3, GspanUnchanged DEF StopPool, NotifyAll, JoinPool
  <2> QED BY <1>2, <2>1, <2>2, <2>3 DEF CallerMoves
<1>3. ASSUME NEW w \in PoolThreads, WorkerMoves(w) \/ WakesUp(w) PROVE GspanInv'
  <2>1. w \in MinerThreads
    BY DEF MinerThreads
  <2>2. CASE MinerStep(w)
    BY <1>1, <2>1, <2>2
  <2>3. CASE WorkerTakes(w)
    BY <2>1, <2>3, TakeKeeps DEF WorkerTakes
  <2>4. CASE WorkerSleeps(w) \/ WakesUp(w)
    BY <2>4, GspanUnchanged DEF WorkerSleeps, WakesUp
  <2> QED BY <1>3, <2>2, <2>3, <2>4 DEF WorkerMoves
<1>4. CASE GspanEnded \/ UNCHANGED gspanVars
  BY <1>4, GspanUnchanged DEF GspanEnded, gspanVars
<1> QED BY <1>2, <1>3, <1>4 DEF GspanNext

(* A parent that has spawned has a frame.                                  *)
LEMMA GspanParents == TreeAssumption /\ GspanInv => ParentsAreAlive
<1> SUFFICES ASSUME TreeAssumption, GspanInv PROVE ParentsAreAlive
  OBVIOUS
<1>1. ASSUME NEW x \in Live, NEW y \in Nodes, IsExtension(x, y) PROVE y \in Frames
  BY <1>1, BegunAndKids DEF GspanInv, TreeInv, IsExtension
<1>2. ASSUME NEW i \in DOMAIN tasks_ PROVE tasks_[i].parent \in Frames
  <2>1. tasks_ \in Seq(TaskRecords) /\ IsExtension(tasks_[i].pattern, tasks_[i].parent)
    BY DEF GspanInv, QueueOK
  <2>2. tasks_[i] \in TaskRecords
    BY <2>1, LenProperties, ElementOfSeq
  <2>3. tasks_[i].pattern \in Live /\ tasks_[i].parent \in Nodes
    BY <2>2 DEF Live, Queued, QueuedIn, TaskRecords
  <2> QED BY <1>1, <2>1, <2>3
<1>3. ASSUME NEW t \in MinerThreads, NEW i \in DOMAIN stack[t], stack[t][i].pattern # Root
      PROVE  stack[t][i].parent \in Frames
  <2>1. IsExtension(stack[t][i].pattern, stack[t][i].parent) /\ stack[t][i].parent \in Nodes
    BY <1>3, FramesOfStack DEF GspanInv, StackOK
  <2>2. stack[t][i].pattern \in Live
    BY DEF Live, Frames, FramesOn
  <2> QED BY <1>1, <2>1, <2>2
<1> QED BY <1>2, <1>3 DEF ParentsAreAlive

(* When the search has ended every pattern was mined, and once.          *)
LEMMA GspanMined == TreeAssumption /\ GspanInv => AllMinedOnce
<1> SUFFICES ASSUME TreeAssumption, GspanInv PROVE AllMinedOnce
  OBVIOUS
<1>1. \A x \in Patterns : mined[x] <= 1
  BY DEF GspanInv, TreeInv
<1>2. ASSUME main # "mine"
      PROVE  (\A x \in Patterns : mined[x] = 1) /\ tasks_ = <<>> /\ \A t \in MinerThreads : ~Busy(t)
  <2>1. Frames = {} /\ Queued = {} /\ \A x \in Patterns : mined[x] = 1
    BY <1>2 DEF GspanInv, MainInv
  <2>2. tasks_ = <<>>
    BY <2>1, QueueTaken DEF GspanInv, Queued
  <2>3. ASSUME NEW t \in MinerThreads PROVE ~Busy(t)
    <3>1. StackOK(stack) /\ FramesIn(stack) = {}
      BY <2>1 DEF GspanInv, Frames, FramesOn, FramesIn
    <3>2. stack[t] # <<>> => Len(stack[t]) \in DOMAIN stack[t] /\ \A i \in DOMAIN stack[t] : stack[t][i].pattern \in FramesIn(stack)
      BY <3>1, FramesOfStack
    <3> QED BY <3>1, <3>2 DEF Busy
  <2> QED BY <2>1, <2>2, <2>3
<1> QED BY <1>1, <1>2 DEF AllMinedOnce

(* For any number of threads and any search tree, however the waits nest:  *)
(* what a task points into is there until it is done.                      *)
THEOREM ParentsAreAlwaysAlive == ASSUME TreeAssumption PROVE GspanSpec => []ParentsAreAlive
<1>1. GspanInit => GspanInv
  BY GspanStarts
<1>2. GspanInv /\ [GspanNext]_gspanVars => GspanInv'
  BY GspanKeeps
<1>3. GspanInv => ParentsAreAlive
  BY GspanParents
<1> QED BY <1>1, <1>2, <1>3, PTL DEF GspanSpec

(* Likewise every pattern is mined once, and the search returns to the     *)
(* caller only when all are.                                               *)
THEOREM AllAreMinedOnce == ASSUME TreeAssumption PROVE GspanSpec => []AllMinedOnce
<1>1. GspanInit => GspanInv
  BY GspanStarts
<1>2. GspanInv /\ [GspanNext]_gspanVars => GspanInv'
  BY GspanKeeps
<1>3. GspanInv => AllMinedOnce
  BY GspanMined
<1> QED BY <1>1, <1>2, <1>3, PTL DEF GspanSpec
=============================================================================
