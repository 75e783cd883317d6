# Desbordante in TLA+

Desbordante is a C++ library (with Python bindings) that finds and verifies
patterns in data: functional dependencies, unique column combinations, inclusion
dependencies, order dependencies, episodes, graph dependencies and so on. This
directory holds TLA+ models of its concurrent and long-lived parts and of many of
its algorithms, the TLC configurations that check them, and proofs about them that
TLAPS checks.

All paths below are relative to `src/src/core/` unless they start with `src/`.

## 1. Inventory

### What every algorithm shares

| Part | State | Operations | What is hard |
| --- | --- | --- | --- |
| `algorithms/algorithm.{h,cpp}`, `config/option.h`, `algorithms/algo_factory.h`, `src/src/python_bindings/bind_main_classes.cpp` | per option: `is_set_`, the algorithm's field; `available_options_`, `opt_parents_`, `data_loaded_` | `SetOption`, `UnsetOption`, `GetNeededOptions`, `ConfigureFromFunction`, `LoadData`, `Execute` | conditional options, checks and defaults that read other options' values, calls that fail half way, any number of rounds |
| `util/worker_thread_pool.{h,cpp}`, `util/barrier.h` | `work_`, `is_working_`, the workers' tasks and futures, `count_` and `phase_` of the barrier | constructor, `SetWork`, `Wait`, `Work`, `Completion`, `Arrive`, destructor; on top of them `ExecIndexWithResource`, `SubmitSingleTask` | unlocked writes, wake-ups, reuse of a barrier, exceptions in any thread, failure to create a thread |
| `util/parallel_for.h`, `util/auto_join_thread.h` | iterators of the parts, threads | `ParallelForeach` | thread creation fails in the middle |
| `model/table/*` | position list indexes, encoded columns, sorted domains on disk, caches | intersection, inserts, deletes, swapping | counters that must agree with the clusters, a memory limit |
| `parser/*`, `model/types/*` | stream position | reading, comparing | quoting, numeric edges |

### The algorithms

| Part | Its core logic | Kind of difficulty |
| --- | --- | --- |
| `algorithms/fd/fd_verifier/dynamic_fd_verifier.cpp` with `model/table/dynamic_position_list_index.cpp` | batches of inserts, updates and deletes on a table, indexes kept up to date | long histories, a batch that fails half way |
| `algorithms/fem/tke` | top-k episode mining by several threads over lock-free queues, over episodes of one timestamp and then over sequences of them | termination, a threshold that rises while others work, pruning that must lose nothing, data renamed in place |
| `algorithms/fsm/gspan` | subgraph mining as tasks of a pool, waiting inside tasks | nested waits, per-thread state |
| `algorithms/fd/hyfd`, `algorithms/ucc/hyucc`, `algorithms/fd/hycommon` | sampling and validation in turns until nothing is left | when to stop |
| `algorithms/md/hymd`, `algorithms/md/md_verifier`, `algorithms/dc/FastADC`, `algorithms/gdd` | searches that run on the worker thread pool | as for the pool |
| `algorithms/fd/tane`, `fun`, `fd_mine`, `depminer`, `fastfds`, `fdep`, `algorithms/od`, `algorithms/ucc/hpivalid`, `algorithms/ar` | sequential lattice searches | pruning must lose nothing |
| `algorithms/fd/dfd`, `pyro`, `aidfd`, `eulerfd`, `sfd`, `algorithms/nar`, `ind/faida` | randomised or approximate searches | statistics; for DFD, the order of the walk |
| `algorithms/ind/spider`, `mind` | merging sorted columns | order of candidates |
| verifiers (`fd`, `afd`, `ucc`, `ar`, `cfd`, `cind`, `dc`, `dd`, `gfd`, `md`, `metric`, `nd`, `od`, `pac`, `sd`) | one computation per execute | counting of violations, numeric edges; options, see the lifecycle |

Threads appear in the worker thread pool, in `ParallelForeach`, in TKE, gSpan, the
GFD validators and the statistics; nothing is persisted (the files of the domain
manager live as long as its object) and nothing is sent over a network. The other
sources of hard behaviour are time - an algorithm object lives through any
sequence of `SetOption`, `load_data` and `execute` calls, some of them failing -
and pruning: nearly every miner leaves out work by an argument about what it has
seen, and a wrong argument loses answers on inputs that no test has.

What makes each of the modelled parts correct, in a sentence:

* pool and parallel loops: every thread runs every job exactly once, each piece of
  work is done once, errors of any thread reach the owner, and every call returns;
* options: an algorithm runs only on values that pass their checks under the other
  values, and on those the caller of this call gave;
* dynamic FD: after any history of batches the verdict is that of the table;
* TKE: whatever the interleaving, no episode is lost that the answer needs, the
  search ends, and the supports reported are those of the data;
* a miner: what it returns is the set of minimal dependencies (or the maximal ones,
  or all, as it promises) of the table, whatever order hash tables, sorting and
  random choices put things in;
* a verifier: its verdict, its counts and its highlights are those of the
  definition of the dependency on pairs of rows.

## 2. Modules

State machines, composed for TLC by the MC modules:

| Module | Models | Role |
| --- | --- | --- |
| `WorkerThreadPool` | `util/worker_thread_pool.*`, `util/barrier.h` | the pool, thread by thread |
| `ForkJoin` | what a pool promises | abstract specification |
| `ParallelLoops` | `ExecIndexWithResource`, `SubmitSingleTask`, `util/parallel_for.h` | the pool's jobs, on top of `ForkJoin`; a range split over threads |
| `GspanTasks` | `fsm/gspan/utils/thread_pool.h` and the calls to it | tasks that wait for their subtasks |
| `MCParallel` | | the pool's jobs, the loop and gSpan, each by itself |
| `AlgorithmOptions` | the option registry and the lifecycle of an algorithm | generic in what is registered |
| `VerifierOptions` | what three verifiers register | data for `AlgorithmOptions`, composed by `MCAlgorithmOptions` |
| `TopKMiner` | `fem/tke/parallel_topk_miner.cpp`, `composite_topk_miner.cpp` | the search by threads, generic in the episodes |
| `TkeEpisodes` | `fem/tke/model/*`, parts of `fem/tke/tke.cpp` | location lists, bound lists, extensions, as operators |
| `CompositeEpisode` | `CompositeEpisode::TryExtend`, repeated | bound lists against the definition of an occurrence |
| `Tke` | `fem/tke/tke.cpp` | Execute, from the loaded sequence to the answer |
| `MCTopK` | | both miners over small databases, the episodes, `Tke` and the graphs, each by itself |
| `DynamicFd` | `fd_verifier/dynamic_*`, `model/table/dynamic_*` | a verifier over the whole life of a table |
| `ColumnDomain` | `model/table/column_domain*` | domains swapped to disk under a memory limit |
| `Dfd` | `fd/dfd/lattice_traversal` | a random walk over a lattice |
| `HpiValid` | `ucc/hpivalid` | a tree search that samples as it goes |

Algorithms as operators, from the table to the result, each with its definition
of what is looked for below a line at the end of the module:

| Module | Models |
| --- | --- |
| `Tables` | position list indexes and their intersection; minimal dependencies and unique columns by definition |
| `LatticeMiners` | TANE and PFDTane, FUN, FD_Mine, the measures of approximate dependencies |
| `AgreeSets` | the agree sets in all their ways to be found, DepMiner, FastFDs |
| `SetContainers` | bitsets, maps from sets of columns, search trees of sets, as data structures |
| `NegativeCovers` | AID-FD and EulerFD, on those trees, and FDep |
| `Hybrid`, `HyFd`, `HyUcc` | preprocessing and sampling, and the rounds of HyFD and HyUCC |
| `Inds` | Spider (exact, with an error), Mind, the IND verifier |
| `FastOd`, `Order` | FASTOD with its partitions and the AOD verifier, ORDER |
| `Sd` | the verifier of sequential dependencies |
| `Verifiers` | the verifiers of functional, unique, probabilistic, numerical, differential and conditional dependencies and of association rules |
| `Apriori` | frequent itemsets, hash tree and rules |
| `FastAdc` | predicate space, clues, evidences, inversion and minimization of denial constraints |
| `Gfds` | the three validators of graph functional dependencies, with the balancer and the index of candidates |
| `Statistics` | the deduction of a column's type and all statistics of a column |

`MCMiners` runs the miners of one relation on every table of some bounds, and
`Dfd` and `HpiValid` by themselves; `MCDiscovery` runs everything else on every
input of some shapes, and `ColumnDomain` and `DynamicFd` by themselves. (The tables, for
any set of shapes, and the properties that are proved of them are in `DiscoveryTables`;
`MCDiscovery` gives the shapes and the other properties.) Both build
a table row by row: the rows are the state, and the answer of an algorithm is an
expression of it. That a table is one state is what makes "for every table" a
question for TLC. The proofs are in `Parallel_proofs` (for `WorkerThreadPool` and
`MCParallel`), `Tke_proofs`, `AlgorithmOptions_proofs`, `Discovery_proofs` (for
`DynamicFd`, `ColumnDomain` and `Inds`), `Verifiers_proofs` (for `Verifiers`, and for the
tables of `DiscoveryTables`), `Miners_proofs` (for `Dfd` and `HpiValid`), and at the end of
`ParallelLoops` and `GspanTasks`.

### WorkerThreadPool

One process per worker and one for the owner (`Main`). `pc` says where each is:
the owner goes through the constructor, `SetWork` (`set`, `notify`), its own share
of the job, `Wait` and the destructor; a worker waits (`wwait`, `wsleep`), checks
`work_`, resets its task, runs it, arrives at the barrier and waits for the phase to
end. A critical section is one step. `Barrier::Arrive` is the exception: its last
arriver runs the completion callback and swaps the phase under the mutex, and it is
split in three steps with the mutex held, since the other threads read `work_` and
`is_working_` meanwhile. `work_` is a plain variable, read and written at the steps
where the code does so without a lock. A functor is a number, and running it either
returns or throws (`RunWork`); a packaged task is the state of its future. Spurious
wake-ups of a condition variable are steps. When `std::thread` cannot be created
(`CreateThreadFails`) the catch block of the constructor runs.

`ForkJoin` is what a client may rely on: a job begins, every thread executes it
exactly once, and it ends only then, with an error exactly if some thread threw.
`ParallelLoops` builds the two kinds of jobs on that promise: threads draw indices from
an atomic counter, each with a resource of its own that it hands in under a lock,
and one thread runs a single task, which another takes over when it throws
(`std::call_once`). Its other half takes `ParallelForeach` thread by thread, with the
serial fall-back when a thread cannot be created. `GspanTasks` has a stack per
thread: a task that waits for its extensions runs other tasks on top of itself.

### AlgorithmOptions

The registry is one record: the algorithm, its available options, the set ones, the
fields and `opt_parents_` as `children`. `SetOption`, `UnsetOption` and
`ExcludeOptions` are operators on it that follow the code's order of effects: an
option is erased from the available ones before `UnsetOption` is called on it. The
caller's `load_data` and `execute` are a sequential program with a control state
(`stage`): one pass over a snapshot of the needed options, in any order, then the
defaults, until nothing is needed, then `LoadData` or `Execute`, each of which may
throw. Users of an algorithm in `DirectlyUsed` also call `SetOption` and
`UnsetOption` between those calls. What is registered is a parameter; the three
instances have conditional options that depend on one value or on two, defaults and
checks that read other fields, and options required only while another one is not
set. `disturbed` is not in the code: it records that options may be set that the
present caller did not ask for, because a call failed ("once", until an `Execute`
unsets them) or because of direct calls or a second `load_data` ("forever").
The properties that speak of the caller's own values hold without a disturbance,
and do not hold with one: an `execute` that throws leaves its options set,
`GetNeededOptions` passes over them, and the next `execute` silently runs on them.

### DynamicFd

The table (`rows`, `deleted`), the two position list indexes (a value per record, the
next record's number, and `valid_records_number_` with its drift, modulo
`SizeLimit`), the statistics, and the batch that the algorithm's options and streams
still hold (`held`). `Load`, `Reload`, and three ways an `execute` can go: the
options' checks reject it (after some of them are set), `DynamicTableData::Update`
throws half way through (after both indexes have taken the whole batch), or it
succeeds. A batch is any combination of inserts, deletes and updates, also of rows
that do not exist or are updated twice. `Intersect`, the frequencies and the count
of conflicts are computed as the code does, from clusters; `Truth` is the definition
on pairs of rows.

### TKE

`TopKMiner` is one search: the two C++ classes run the same code over different
episodes, and differ in how they choose the extensions of an episode
(`CutsExtensions`). The caller's loops are steps at the granularity of its accesses
to what it shares with the workers: a drained result, a pushed task, the count, the
token, the check of the count, the last drain, the flag, the tokens that release the
workers. A worker's steps are acquire, read the flag, pop, compare the parent's
support, extend by one, push, count down. The relaxed loads of the minimal support
return any value it has had, which includes every outcome the memory model allows.
A lock-free queue is a bounded sequence; a spinning push is a step that waits for
room. A heap gives up any of several least episodes. What an episode is, its
extensions and its supports are constants with the assumptions the search needs
(`SearchTreeAssumption`: each episode is reached in exactly one way, and is no more
frequent than what it extends), evaluated by TLC for the episodes that `MCTopK`
builds with `TkeEpisodes`.

`TkeEpisodes` translates the data side: the merge of location lists, and
`BoundList::Extend`, one pass with a budget of misses that wraps around when the
minimal support exceeds the parent's (which happens: another thread raised it).
`CompositeEpisode` calls `TryExtend` again and again with any minimal support and
compares with `Starts`, the definition of an occurrence.

`Tke` composes them: `Execute` drops the infrequent events, renames the others in
place, asks the two miners, and decodes. The miners' answers are any that
`TopKIsRight`, their contract checked in the same run, allows.

### The miners and verifiers

An algorithm is translated function by function: a class's members that change are
the fields of a record, a loop is a fold or a recursive function over what it loops
over, an early return is a case. What a hash table or a sort leaves open is either
shown not to matter (sets) or tried in two ways (`up` in `Hybrid`, `ascending` in
`FdMineFds`, `upward` in `Order`). Random choices are nondeterministic steps (`Dfd`, `HpiValid`). Doubles
are exact fractions; where rounding changes an answer the README or a finding says
so. Thread pools inside an algorithm are modelled in `WorkerThreadPool` and
`ParallelLoops`; the algorithms then see only that every index is processed once, and
are translated as loops, with the data that threads gather in any order as sets.

* `HyFd`: what one round leaves to the next is a record (tree, candidate pairs, level
  of the validator); the rounds are a recursive function whose argument bounds them.
* `SetContainers`: the words of a bitset (`BitsPerWord`, 2 when the bitsets are checked)
  and the tries behind `VerticalMap` and the search tree, as the code lays them out;
  compared with sets and with maps from sets after every short history of operations.
* `NegativeCovers`: EulerFD's queues, thresholds and rounds are a record; averages are
  whole numbers of a unit. Besides the program's limits it is run with `Coarse` ones,
  with which it looks at its results after every round.
* `HpiValid`: `calls` is the stack of recursive calls; marks of edges are the edges.
  The samples taken at a node are any pairs of rows of the clusters.
* `ColumnDomain`: `DomainNext` is one block of the stream, with the swapping that it
  causes; a file is the partition it was made of.
* `FastOd`, `Order`: levels of a lattice as in the code, with the candidate sets and
  the partitions of each node. In ORDER two loops over the candidate sets also insert
  into them; which lists they then pass over is a parameter (`passed`).
* `FastAdc`: evidences are built per shard and pair of shards, as clues, with the
  corrections of the clue of a pair; the inversion is the search with its stack of
  candidates, as a fold: a node leads to nodes of later evidences, so that there are at
  most as many steps as sets of evidences. The closure of a predicate's constraints is
  one too, since each step but the last adds a predicate between two operands.
* `Sd`: the dynamic program over positions with a Fenwick and a segment tree, whose
  nodes the model keeps as the code does, for what an untouched node returns matters.
* `Gfds`: a graph is a record; what `boost::vf2_subgraph_iso` visits is the set of images.
  The messages of the threads are sequences, dealt out by the balancer as the code
  does, with the index that stands in each processor's vector. The index of EGfd is a
  record of candidate sets and maps per edge of the tree, refined as a fold over the
  levels; the search keeps for each place of the order what is still to be tried, as
  the pairs of iterators do. An `at()` that throws is an answer ("throws"), and so is
  undefined behaviour ("undefined"): `FinalRefinement` erases from a list inside the loop
  over that list.
* `Statistics`: a column is its cells or its typed values; each statistic is computed
  from the ones that the code stores in `all_stats_` before it. What `GetZeroPercent`
  asserts is a definition of its own (`TotalIsAsserted`).

## 3. What is checked

TLC, two workers, each run within its five minutes; 12 runs, 5 of which pass and 7 of
which exhibit a disagreement of the code with its own documentation. Independent
parts share a run: a behaviour chooses one of them at the start (`part`, `shape`).

| Run | Instance | Shows |
| --- | --- | --- |
| `parallel` | the pool: 2 workers and the owner, 2 jobs, any thread throws, thread creation may fail; jobs of up to 3 indices; loops over up to 5 elements with up to 3 threads; gSpan's tasks over a tree of 5 patterns | no stray work, every thread runs every job once, errors are reported, the barrier's counter is consistent; each piece of work is done once; the pool implements `ForkJoin`; every call returns |
| `options` | 3 verifiers, 2 or 3 values per option (a good and a bad one), any sequence of calls; direct calls for the AOD verifier | values are checked under each other, the set of available options is right, the request is used, the loop ends |
| `topk` | 15 episodes over 4 events, K = 7, 2 workers or none, queues of 2; composites of up to 4 blocks, K = 5; all episodes of up to 3 blocks over 4 timestamps; every sequence of three sets of up to three events; graphs of 4 to 7 vertices with up to 2^7 choices of edges, for six patterns and sets of labels | no episode needed is lost, a popped task is there, the count in flight is exact, nothing is left, the answer is the best, the search ends; bound lists are the occurrences; supports are exact and the answer complete; the validators of graph dependencies answer right where they can, and the balancer loses nothing |
| `miners` | every table of at most 4 rows, 4 columns and 3 values; DFD's walk for every family of determining sets over 3 columns; HPIValid on tables of two values; up to four operations on sets of three columns, bitsets of up to six bits in words of two | TANE, FUN, FDep, DepMiner, FastFDs, AID-FD, HyFD find the minimal dependencies, HyUCC and HPIValid the minimal unique columns (HyFD and HyUCC where they do not stop early, nor make a second pool), FD_Mine an equivalent set, EulerFD what the pairs it can sample allow; agree sets; containers of sets; measures; the walk and the search end |
| `discovery` | see below | everything else against its definition |
| `pool_spawn_fails` | 2 workers | *violation*: the constructor does not rethrow, it waits for ever |
| `metric_reset` | the metric verifier with direct calls | *violation*: an assertion of its check fails |
| `dynamic_fd_failed` | one batch | *violation*: after a failed batch `FDHolds()` is true whatever the table holds |
| `tke_repeat` | two executes | *violation*: the second one decodes with new names and reports episodes the data does not hold |
| `agree_sets` | the default way to find maximal classes | *violation*: it loses classes, and with them agree sets |
| `hyfd` | one table of six rows and columns | *violation*: HyFD returns dependencies that do not hold |
| `sd_ops` | gaps over columns of up to 4 values | *violation*: the verifier finds fewer operations than are needed |

The properties of `discovery`: `IndexesAreRight` and `VerdictIsRight` (the dynamic
verifier over any two batches of up to 2 statements, on up to 3 rows, data loaded
again), `DomainsAreRight` (the domain manager on streams of up to 4 blocks of two
tables under four memory limits), `IndsAreRight`, `OrdersAreRight` (FASTOD, ORDER, the
verifiers of order and of sequential dependencies), `VerifiersAreRight` (the seven
verifiers of `Verifiers`), `ReportsAreRight` (Apriori, FastADC, and the statistics and
type of a column). What these do not claim: of ORDER, that it finds everything when a
rehash makes its loops pass over lists (`OrdersAreRight` then only says that what it
finds holds); of Apriori, that it finds the rules with four or more items on the right
(what it finds are rules, and all others are found); of the statistics, anything of a
column with more nulls than values, where the assertion ends the execution. The shapes of `MCDiscovery` give columns, values and rows of
each.

### Bounds

* Pool: the second job is the first that can meet the leftovers of another (late
  waiters, old futures), and a third meets nothing else. The invariants among the
  properties are proved for any number of workers and jobs. A loop over five elements
  with three threads has parts of different sizes and a thread that fails to start
  at every place.
* Options: each value's check, default and conditions have a value on either side.
  There is no bound on the number of calls: the state space is finite.
* Dynamic FD: two statements per batch are enough for every pair of them to
  collide (delete and update of one row, two updates, insert and delete); two
  batches for what one leaves to the next. `SizeLimit` stands for 2^64, so that the
  drift of the counter could wrap.
* TKE: two workers and queues of two: a full queue of each kind, a task overtaken
  by the minimal support, a worker that is behind by a whole task all happen (each
  disjunct of the next-state relation is taken). 10000 and four tasks per thread are
  scaled to 2 and 2. K is below the number of episodes that reach the floor, so
  that the heap gives up episodes, also one of several equally rare ones, and there
  are exactly K episodes more frequent than the floor: losing any one of them, at
  any depth of the search, changes the answer.
* Miners: rows are built in ascending order, because a dependency of a table does not
  depend on the order of its rows, and values are named in the order in which they
  come up; later rows take fewer values, which keeps the count down. Four columns
  are needed for left sides of three, whose pruning goes through two levels; four
  rows for two disjoint classes. A parameter with a limit in the code (a level that
  stops, a block of a size, a list that is cut) is scaled so that it is reached.
* Discovery: two tables for inclusion, with empty strings; three columns and four
  rows for orders (a swap and a split need two rows each); gaps on both sides of
  every distance that occurs; strings over a space, letters of both cases and a
  sign; columns of nulls only, of empty values only, and of one value.

The runs that bound a number of calls, rows or blocks stop there and do not check
deadlock; `parallel` and `options` do.

Symmetry is used only where no liveness is checked and where all permuted values
are interchangeable: the cell values of the dynamic FD verifier. TLC evaluates
constants' assumptions in every run.

### Fairness

The pool, its jobs, the loops, gSpan's tasks and the top-k search are checked under
weak fairness of each thread: a thread that can take its next step takes it
eventually. This is what the operating system gives; mutexes are held for a bounded
number of steps, a `notify_all` makes all the sleepers runnable, and a released token
stays until it is taken. No strong fairness is needed: no property depends on a race
being won now and then. The configuration loop, DFD's walk and HPIValid's search
are sequential code, so weak fairness of their own steps is all that "it does not
stop" means; calls by the user are not fair. That the walk ends whatever its random
choices are is therefore a property of the walk. In a spinning push the weak
fairness of the caller, who drains the queue, makes room.

### Disagreements found

The seven *violation* runs each check one property taken from the repository's own
text; `PROJECT.json` quotes the lines.

* `util/worker_thread_pool.cpp:19`: when a thread cannot be created, the catch block
  waits at a barrier that the created workers never reach, so its `throw;` is not
  executed. `ConstructorNeverRethrows` proves it for any number of workers.
* `algorithm.cpp:47`: withdrawing an option does not withdraw its own conditional
  options, so that setting the metric a second time runs into an `assert`.
* `dynamic_table_data.h:80`: a batch that deletes and updates the same row fails
  after the highlights were cleared, and `FDHolds()` is true.
* `tke.cpp:107`: `Execute` renames the events of the loaded sequence; a second one
  works on the renamed events.
* `agree_set_factory.cpp:518`: a `break` leaves the loop over a partition whose later
  classes are then lost.
* `hyfd/validator.cpp:319`: the validator returns without suggestions from an
  inefficient level, and the caller takes that for the end.
* `sd_verifier.cpp:218`: a query returns a node of the segment tree that no value has
  reached, and its rank is used as an index.

The passing runs state their properties so that these cases are excluded by name
(`Undisturbed`, `disturbed`, one execute, `exact`, `r.done`, `~r.reused`, `MaxConsequent`,
`TotalIsAsserted`, positive values).

### Observations without a run

Met while translating; each is in the models as the code has it, or excluded by a
named precondition, and is listed for whoever maintains the code.

* `tke.cpp:61`: `episodes_num_` is not checked; with 0 the best list is read when empty.
* `parallel_topk_miner.cpp:91`: a worker that cannot be created leaves joinable threads
  behind, and the process terminates.
* `cfd_verifier.cpp:62`: a constant that is not in the table becomes -1, the wildcard of
  the first column.
* `sd_verifier.cpp`: `std::lround` of quotients of both signs whose remainder is half a
  gap: on 1, -5, -3, -1, 3, 5, 7 with the gap [2, 2] it finds 3 operations instead of 2
  (`RoundedAlike` names the tables where this cannot happen).
* `pfd_verifier.cpp`: the lock-step walk over two lists of clusters relies on a stable
  order, which `std::sort` gives for at most 16 clusters only; the model is of those.
* `nd_verifier/.../highlight.cpp:24-35`: the most frequent right values of a highlight are
  taken by the greatest frequency of the whole table and may be none (not modelled).
* `data_stats.cpp`: `GetZeroPercent` subtracts the nulls from a count that has none of them
  (328), so that the assertion of the next line fails on a numeric column with more nulls
  than values (a number and two nulls), and with fewer the share is of too small a number;
  `ReportsAreRight` claims nothing where the assertion fails (`TotalIsAsserted`);
  `GetJarqueBera` subtracts 3 from a kurtosis that is already excess (1321);
  `ShowSample` writes at absolute positions of a sample-sized matrix (218-230);
  `GetQuantile(1.0)` reads past the end; `IsCategorical` of a column without values
  computes `count - 1` unsigned.
* `typed_column_data.cpp`: with `treat_mixed_as_string`, a conflict found through the
  checker of the first type still yields `kMixed`.
* `ar_algorithm.cpp:108`: `generated_any` is overwritten for every node, and the last node
  of the third level has no siblings to merge, so that on five items that occur together
  no rule with four items on the right is found, whatever the support
  (`examples/basic/mining_ar.py:105-107` says that all rules are). `ReportsAreRight` claims
  the rules with at most `MaxConsequent` items on the right, and of what is found beyond
  them only that they are rules.
* `ar_algorithm.cpp:122`: `std::prev(children.end())` of a list without children, which
  libstdc++ makes the end again: the loop does nothing, and so the model.
* `transactional` input of `ar`: the tabular format with identifiers keeps the first row
  of each.
* `fastod.cpp:54, 269-273`: nothing sets `is_complete_` to true, and every search is
  logged as timed out; `(1 << columns) - 1` overflows from 31 columns on; the AOD
  verifier keeps its cache of partitions over a second execute with another table and
  its `assert` (`verifier.cpp:116`) can fail (rows (1,2), (2,1)).
* `order.cpp`: `candidate_sets_[...]` at 255 and 281 inserts into the map that the loop goes
  through, and a rehash may make it pass over lists; `ResetState` is empty, and a second execute keeps the lists of the first;
  a table all of whose rows have nulls reads `front()` of an empty vector.
* `ind_verifier.cpp:44-63`: the check of the left indices reads the right ones through a
  reference of the wrong name.
* `column_domain.cpp`: `per_block_mem_usage` divides by the number of blocks read;
  `mem_limit_ - mem_usage_` wraps; a partition with only the empty string is skipped;
  values with line breaks do not survive the swap files.
* `hpivalid.cpp`: a search that hits its time limit registers what it has without saying
  so; a table of one row reports single columns.
* `hycommon/sampler.cpp:251`: with threads no task sees a violation and nothing is pushed
  (182-185), so that the queue is empty again when the validator hands over suggestions, and
  the assertion that there is no pool yet fails: on the rows (1,1,1,1), (1,1,2,2), (1,2,1,2),
  (2,2,1,1), and on 25 of the 1822 tables of the `miners` run. Without assertions a new pool
  takes the place of the old one. `HybridIsRight` claims nothing of such an execution
  (`~r.reused`).
* `fd_tree_vertex.cpp`: `FDTree::GetLevelRecursive` skips vertices without dependencies.
* `tane.cpp`: on a table of one row the measures are not numbers and nothing is found.
* `agree_set_factory.cpp`: `GenAsUsingMapOfIDSets` with threads waits for ever when a
  thread cannot be created.
* `gfd_validator.cpp:335`: `all_weighted_messages.emplace` keeps the messages of the first
  thread for each weight only, and of those only the first is checked (347): other
  candidates with an equal neighbourhood are not (`WeightsDiffer` names the graphs where
  this does not matter). `GetCenter` returns an identifier that is used as an index, and
  `Balancer::PutWeight` adds the processor's index to its load.
* `naivegfd_validator.cpp:57`: the second token of a literal is looked up at the vertex of
  the first; `result_` is not cleared between executes (nor in `egfd_validator.cpp`).
* `egfd_validator.cpp`: the search gives up, and the dependency counts as satisfied, when the
  first candidate that fits at each place leads nowhere (`FullMatch`, `CheckTrivially`); the
  first match of the core is checked before its trees are there, and the first match of the
  trees not at all; `at()` throws when an edge of the tree has no candidates left;
  `OddDeletion` erases a vertex from the maps of every edge, which is wrong when labels
  repeat; `FinalRefinement` (541) erases from a set it iterates over, which is undefined
  behaviour, when a vertex above has a candidate in its list that the level below has lost;
  `MatchingOrder` can put a vertex of a tree twice. Where nothing is undefined, the answer is
  right for patterns that are trees with different labels and have an image, and "violated" is
  right for all (`EgfdIsRight`).
* `model/types/bitset.h:286-290`: `DoRightShift` writes the last word inside the loop and
  shifts garbage in when a bitset has three words or more, or when the shift leaves
  only the last word (`RightShiftWorks` names the shifts for which this does not matter).
* `vertical_map.cpp:61`: `SetTrie::IsEmpty` says the opposite, so that removing a key that
  is not there can drop one that is, while `size_` stays (`RemovesWhatIsThere`).
  `VerticalMap::Shrink` fills its queue with `size_` empty entries first, and takes the
  median over them (not modelled).
* `eulerfd.cpp`: pairs that agree on constant columns only, or nowhere, are never sampled:
  rows (1,1), (1,1), (2,2) give a dependency on nothing; without clusters or with one
  column nothing is found. `MLFQ::Clear` leaves its counters as they are.
* `aid.cpp`: `neg_cover_` is not cleared between executes; a bound of 0 on the left side
  violates the assertion of `HandleInvalidFd`.

## 4. What is proved

A theorem holds for every value of the constants that satisfies the assumptions it
names; the runs check the same properties on small instances. Each proof of a safety
property goes through an invariant that is stronger than the property, and whose
parts say why the code is right.

### The worker thread pool: `Parallel_proofs`

For every finite set of workers, every number of jobs, with and without failing
thread creation, and whoever throws: `TypeOK`, `NoStrayWork`, `RunsCurrentJob`,
`EachThreadRanEachJob`, `BarrierIsConsistent`, `ErrorsAreReported`; that the
constructor's rethrow is never reached; and that the pool implements `ForkJoin`.
The only assumption is `PoolAssumption`. The invariant `IInv` is `TypeOK` and
`PoolInv`:

* `BarrierIsConsistent`: `count_` is what the threads that have not arrived will
  subtract (`HasArrived` says who has, also on behalf of threads never created), and a
  waiting thread is at most one phase behind: only the last arriver can end a phase;
* `MutexInv`: exactly while `count_` is zero, the thread between counting and
  swapping the phase holds the mutex;
* `WorkInv`: `work_` is the last submitted job, and what `is_working_` implies for
  everyone's place: while it is up the owner has not left the job and nobody is past
  lowering it; while it is down nobody is engaged in one;
* `RanInv`: how many jobs each thread has run, by its place: one less than submitted
  while the job is open (`JobOpen`) and the thread has not reset its task for it;
* `ClosingInv`: after the destructor or a failed constructor has emptied `work_`, no
  worker gets past the check of it.

`TaskInv` adds what becomes of the packaged tasks: the task of a thread that is in the
job has no result yet; once the job is over each holds the verdict of this job, not of
an earlier one; and while the owner collects, those it has collected held no error.

The refinement maps the state of the pool to the client's view: the owner is idle, runs
a job or has closed the pool (`OwnerState`), the threads that have executed the job
(`DoneBy`: they have reset their task for it and are past running it), those of them
that threw (`ThrewIn`), and the outcome. Submitting maps to `Begin`, the step that ends
a thread's functor to `Execute`, the owner's collecting to `End`, the destructor and the
catch block of the constructor to `Close`; everything else, the whole barrier included,
stutters.

### Users of threads: `ParallelLoops`, `GspanTasks`, `Parallel_proofs`

* `EachElementOnceAlways`: for any range and number of threads, wherever a thread could
  not be created. `ForeachInv`: each element is owed by one thread, or is done, or is
  still the caller's; the equal parts fit into the range (`PartsFit`).
* `JobsAreAlwaysWhole`: for any pool and limit of the index (`JobsAssumption`).
  `JobsInv`: an index below the counter was drawn by one thread, which holds it or has
  handed it in; the counter exceeds the size by at most one per thread that is past its
  last draw, so that it cannot wrap around.
* `ParentsAreAlwaysAlive`, `AllAreMinedOnce`: for any number of threads and any tree
  (`TreeAssumption`: a pattern is an extension of one other, once, and among any
  patterns there is one whose parent is not among them). `GspanInv`: no pattern has two
  frames; a frame's counter is the number of its spawned extensions that are queued or
  mined by someone, whichever stack they are on.

`Parallel_proofs` puts them together: the two properties that the `parallel` run checks,
over the composition of that run, whose tree is shown to satisfy `TreeAssumption`.

### The options: `AlgorithmOptions_proofs`

`SnapshotStaysValid`, `RunsOnCheckedValues`, `RegistryIsRight` and
`RequestIsUsedUndisturbed` hold over any sequence of calls, failing ones included, for
every `LayeredRegistration`: the functions of an option (its check, its default, what it
makes available) read only options on the way to it, and what is asked for again before
an `Execute` was not asked for by loading. Without the first the order of a snapshot
would matter, without the second a failed `Execute` would undo the loading.
`OptionsInv`: as long as nobody sets options directly (`disturbed`), the available
options are the base ones and those that the set ones call for, everything that an
available option reads is set, and all set values pass their checks (`Layered`).

For the three verifiers (`ThreeVerifiers`: the constants are what
`VerifierOptions` says; the registration is then shown to be layered) two more:
`AlgoCheckInCalls`, and the action property `OneContextIsEnough`, with `ContextInv`.

### Domains and the dynamic verifier: `Discovery_proofs`

`DomainsAreRight`, for any tables, blocks and limits of the memory, whatever is swapped
out when. `DomainInv`: of the present table the last partition of each column is in
memory, and what was read is in its partitions (`RawInv`); the stored domains hold what
was read of the columns that have a value, in order (`StoredInv`); while the next blocks
are counted, the memory counted is that used but for a unit for each stored domain with
an empty string that was passed over (`MemoryIsRight`). That the merging iterator hands
out each value once and in order, however the values are spread over the partitions, is
shown by recursion over what the readers have left (`IteratorIsRight`). Recursive
functions are within reach of the provers after all, when their domain is finite:
`RecursionWorks` says that one defined by what is less exists, and `ByRank`, `BySubsets`
and `CountingUp` are inductions that are stated with sets in place of operators; the
sums over sequences rest on them.

For the dynamic verifier, for any values, batches and bounds, and any limit at which the counter of records
wraps around: `IndexesAreRight` and `VerdictIsRight`, and the action property
`FailureStays`. `DynamicInv`: the table is what its rows and deleted numbers
say (`TableInv`), each index is well formed and both hold the same records
(`IndexInv`), they describe the live rows unless a batch failed or data were
reloaded, and the batch still held was checked, or is one that will fail again
(`HeldInv`). The verdict is a sum over clusters, as the code counts, and the definition
counts pairs of rows; that they agree is shown with the cardinality of unions of
disjoint sets, by well-foundedness of inclusion among the clusters.

### The miners of inclusion dependencies: `Discovery_proofs`, `Verifiers_proofs`

Spider and Mind are functions of the tables, and the theorems about them speak of all
tables with rows (`AreTables`), of any number of rows, columns and values.

`SpiderFinds`: for any error, and with nulls equal or not. A step of Spider takes the
group of all attributes that stand at the least value. `SpiderInv`, of the state between
two groups: an attribute refers to another exactly when the other has all values it has
passed; who refers to whom is kept in both directions; with an error the counted common
values are those passed by both; and whatever the others still have to read is greater
than what has been passed (`Behind`), unless the attribute left the queue because
nothing refers to it any more and it refers to nothing: no group after that can say
anything of it (`SpiderStepPasses`). Each step shortens what is left to read
(`SpiderProgresses`), so that the recursion reaches an empty queue.

`MindFindsWide` and `MindIsAlwaysRight`: for tables that are not wider than the largest
arity Mind is run with, as everywhere in the run. A level is a sequence (`IsLevel`):
each dependency once, with increasing columns on the left, and of two that differ only
in the last column of the left the smaller first, since a candidate is made of a
dependency and a later one. This order is kept by joining and pruning
(`CandidatesAreInOrder`), so that each candidate all of whose parts are in the level is
made, once (`CandidatesAreRight`). `UpTo` says what was found of each arity so far, and
`MindInv` adds that the level is what was found of the last. The verifier counts
clusters of violating rows and Mind the distinct values; they are as many
(`ErrorsAgree`). That without an error nothing is missed for want of its parts is shown by
going up the arities (`ExactIsFound`).

`IndsAreAlwaysRight` is `IndsAreRight` over the specification of the run `discovery`
(`DiscoverySpec`), for any shapes that satisfy `ShapesAssumption`: tables of numbers, none
of more than nine columns. What is read for the IND miners are then always such tables
(`TablesInv`).

### The verifiers: `Verifiers_proofs`

Each of the seven verifiers in `Verifiers` is a function of a table and of the columns
in question, and is right on every table, of any number of rows and columns; for the
differential dependencies the distances are not negative, for the association rules the
left side is not empty, and the columns that are compared hold numbers. The definitions
speak of rows and pairs of rows, the code counts in classes of equal rows of which those
with one row are left out.

* Classes: an index holds the classes with more than one row, however it was intersected
  from those of its columns (`IndexIs`). Sums over sets of classes are sizes of unions,
  in whatever order they are taken (`SumsUp`), also of pairs of rows
  (`PairsAreSummed`). Hence `UccIsAlwaysRight`.
* `FdIsAlwaysRight`: of a class of the left side the index of the right one misses the
  rows that are alone with their value; how many values there are and how often the most
  frequent one occurs follow from the others (`CountParts`, `HighlightIs`), and the early
  answer, when both indexes have as many clusters, is given only if the dependency
  holds (`NoneBroken`).
* `CfdIsAlwaysRight`: a value that most rows of a group have is the one to keep
  (`ExpectedIs`), and what any other way to repair the rule removes is, group by group, no
  less (`SumsAreLess`).
* `NdIsAlwaysRight`: as rows come, each combination of values gets a number;
  `NumbersAre` is the invariant of going through the rows: rows get the same number
  exactly if they are alike, and each number is that of a row.
* `PfdIsAlwaysRight`: two sorted lists are gone through together. What is sorted has
  each member once and in order (`SortedIs`); the invariant of the rows of one cluster is
  `Taken` (the parts of earlier clusters and those of this one whose first row was passed
  are behind the place in the second list, the one at the place is the next, and
  the greatest of this cluster so far is known), that of the clusters `Passed`. The
  place is never ahead nor behind, so no part is missed. This rests on the order among
  equal classes, which `std::sort` keeps for up to 16.

The folds over positions that the last two use are recursive functions from the library;
`FoldExists` and `PrefixOfFold` say that they go through a sequence from front to back.
`VerifiersAreAlwaysRight` is `VerifiersAreRight` over `DiscoverySpec`, again for any shapes
that satisfy `ShapesAssumption`: a table of two or three columns of any numbers and of any
number of rows.

### The two searches that jump about: `Miners_proofs`

`WalkIsRight`, for DFD's walk over the left sides of one column, whatever they
determine, any number of columns, and whichever seed, next set or way back it
takes. `WalkInv`: the categories of the visited sets are true, and so are the
two maps (`MapsInv`), what is registered is least and is never missed (`LhsInv`),
above each visited set that does not determine the column there is a maximal one in
the map, or the trace leads back to it (`UpInv`), and each column was a seed or will
be one (`SeedsInv`). At the end no seed can be made: every least set that meets the
complements of all the maximal ones is already found, and a least left side contains
such a set.

`UccsAreRight`, for HPIValid on any table, whatever pairs of rows it samples. `HpiInv`
is larger, since edges of the hypergraph are added in the middle of the recursion and
make others superfluous, which go from every mark on every level: the stacks are as deep
as the path (`DepthInv`); no set is reached in two ways (`TreeInv`); `uncov`, `crit` and
`removed_critical_stack` are what they stand for in the current hypergraph
(`MarksInv`); edges come from pairs of rows, and each call on the stack had an edge to
hit (`EdgesInv`); the computed intersections and those put off are along the path
(`PlisInv`); what was found is minimal (`UccsInv`); and whatever hits all edges
contains a set that was found, or will be met (`CoverInv`).

### TKE: `Tke_proofs`

The miners. For any episodes and supports, at least two workers, any K and any capacity of the
queues, under `TopKMinerAssumption` only: `TypeOK`, `TaskIsThere` (the assertion in the
workers' loop), `InFlightIsExact`, `NothingIsLeft`. That the machinery of queues, tokens
and the count is right does not depend on what an episode is. `MinerInv` is the types and
`QueueInv`:

* `InFlightIsExact`: the count is the queued and the held tasks;
* `TokensMatch`: while the flag is down, the tokens, those already taken by a worker
  that has not popped yet, and the one the caller is about to release, are as many as
  the tasks, and no worker has left;
* `Quiet`: outside the parallel loop there is no task and no worker holds one; the
  caller gets there only through `Check`, where a count of zero means (by the two
  parts above) that all workers wait;
* `Closing`: in which of the last phases the flag is up and what is empty.

With `SearchTreeAssumption`, also `TopKIsRight`, and so `MineIsRight`, and `NothingIsLost`, however stale the
minimal support that a worker reads. `SearchInv` adds what each place holds: the queued
tasks and the workers extensions of their parents (`PlacesInv`); that no episode is
tried twice, since what two places hold has no extension in common, and none that was
found (`OnceInv`; the list of the best would otherwise hold one twice); that no minimal
support a worker may read is above the present one (`SupportInv`); and that an episode
that is still wanted is in the best list, or something it extends is still to be
extended (`NothingIsLost`). `SearchTreeAssumption` is evaluated by TLC for the episodes
of the runs, the composite ones included.

Two lemmas about the operators carry the types: `LowestIsLeast` (the least support
of a finite set exists and is a member's; by well-foundedness of inclusion, since
induction over the set is out of reach) and `ExtensionsAreEpisodes`.

The episodes. `EpisodesAreRight`, for any number of timestamps and blocks and any
window, under `SizeAssumption` and `EpisodeAssumption` (no more timestamps than a size
counts). `Walk` is one pass over the bounds and the locations; from each place it leads
to the bounds that can be continued (`Continues`), with the first location after their
ends, unless more of those before it missed than are allowed (`IsWalked`, by the
recursion). What makes the single pass right is that the ends ascend with the starts
(`IsBoundList`): a location passed over for one bound serves none of the later ones.
`Represents` says that a bound list has the starts of an episode, each with its earliest
end, and `ExtendIsRight` that an extension keeps this: an occurrence of the longer
episode is one of the shorter and a later location, and the earliest end of the shorter
leaves the most room. With a count of misses that has wrapped around the pass goes on to
the end, and the support is compared after it.

TKE as a whole. `AnswerIsRight` after the first `Execute`, for any data, number of
episodes and window (`TkeAssumption`); after a second one it does not hold, as the run
`tke_repeat` shows. The argument follows the pipeline, with a lemma for what each stage
hands on: the threshold is at least one and at least k events reach it, if there are
more than k (`ThresholdIs`); the renaming is a bijection under which blocks have the
locations they had (`RenamedIs`); the search tree of the parallel episodes reaches each
set of renamed events that occurs, once (`OccurringAre`); whichever answer the first
miner gives, a block that is not in it is no more frequent than the minimal support
handed to the second (`ParallelAreRight`: an infrequent event makes every block it is in
infrequent, and k more frequent ones are there); the second search finds all composite
episodes of those blocks that reach the minimal support, once, with their supports
(`CompositesAre`: the support falls along extensions, `SupportGoesDown`, so that a
prefix is never pruned); and decoding gives each back its events, two episodes never
the same ones (`DecodedAre`). `MinersAnswer` ties this to the miners: what `TopKMiner`
has when `Mine` returns is one of the answers that `Tke` takes.

### What stays with TLC

* Everything under fairness: `EveryCallReturns`, `ConfigurationEnds`, `SearchEnds`,
  `SearchesEnd`. The provers have no `ENABLED`.
* The properties of the other miners and verifiers that are translated as functions of a
  table. `MinersAreRight`, `HybridIsRight`, `SetsAreRight` and
  `GraphsAreRight` are about modules with RECURSIVE operators, which the provers do not
  read. `MeasuresAreRight`, `OrdersAreRight` and `ReportsAreRight` are made of recursive
  functions and folds: the way of `IndsAreRight` and `VerifiersAreRight` is open to them,
  a proof of several thousand lines for each, and is not taken here.
* That the recursive functions compute what they should for every input is shown where
  it was needed (`RecursionWorks`, with inductions over sets); the induction theorems of
  the library take an operator and cannot be used by these provers.
* `CompositesAreRight`, which is `TopKIsRight` and `NothingIsLost` for the instance of
  `TopKMiner` that the run builds from three blocks. The theorems hold for any such
  instance, and TLC evaluates that this one is one (`CompositeAssumption`).

Except for `WorkIsAlwaysDoneOnce`, `ParentsStayAlive`, `IndsAreAlwaysRight` and
`VerifiersAreAlwaysRight`, which are about the composition that the run checks,
the theorems speak of each component's own specification (`Spec`, `DfdSpec`, `HpiSpec`,
`DynamicSpec`, `DomainSpec`, `TopKMinerSpec`, `CompositeEpisodeSpec`, `TkeSpec`, `GspanSpec`, `JobsSpec`, `ForeachSpec`); runs that put
several side by side take the actions of one at a time.

## 5. What is not modelled, and why

`PROJECT.json` lists every component. In the modelled ones these are left out:

* options: `SetExternalOption` and `AddSpecificNeededOptions`, which only pipelines
  override;
* dynamic FD: rows of a wrong width, which are rejected while loading; the order of
  highlights, which is presentation;
* TKE: a worker that cannot be created (the process terminates), `k = 0` (excluded by
  the documentation, undefined behaviour in the code), empty records and timestamps
  out of order, which `load_data` rejects; ownership of the pointers in the queues
  beyond `NothingIsLeft` (a part of `MineIsRight`): the queues are empty at the end;
* miners and verifiers: caches that do not change an answer (partition storage, PLI
  cache), logarithms and roots, doubles where they round, sorting and printing of
  results, reading of the input;
* `ParallelForeach` and gSpan: a functor that throws ends the process.

Algorithms whose difficulty is in large data or in statistics (Pyro's sampling,
HyperLogLog in Faida, differential evolution in NAR) would be abstracted to a
nondeterministic answer and are not worth a model.

## 6. Plan

In this order:

1. The parts that are still `not_modelled` in `PROJECT.json` and have a search whose
   pruning can be wrong: HyMD's lattice traversal, the conditional miners, the graph
   miners.
2. Lemmas on the operators of `Tables` that the miners share (intersection of position
   list indexes, minimal sets), as a base for the pruning rules of single miners.
