--------------------------- MODULE NegativeCovers ---------------------------
(***************************************************************************)
(* The miners that turn what does not hold into what may.  AID-FD and      *)
(* EulerFD (src/src/core/algorithms/fd/aidfd/aid.cpp and                   *)
(* algorithms/fd/eulerfd): both sample pairs of rows that agree somewhere, *)
(* until that brings little new, and invert the agree sets into what       *)
(* determines a column, in a search tree.  Ratios are whole numbers of     *)
(* Unit; of a threshold what is below a Unit is left out, no average comes *)
(* near it.                                                                *)
(*                                                                         *)
(* FDep (algorithms/fd/fdep): from the dependencies that some pair of rows *)
(* violates to the most general that none does.  A tree of dependencies is *)
(* the set it stores (is_fd_ at the end of the path of the left side,      *)
(* columns ascending) and its marks: rhs_attributes_ of each node, without *)
(* which a search does not enter it.                                       *)
(***************************************************************************)
EXTENDS Tables
Tree == INSTANCE SetContainers WITH BitsPerWord <- 64

Unit == 720720
ConstantColumns(t) == {c \in Columns : \A r, s \in Rows(t) : t[r][c] = t[s][c]}
BuildAgreeSet(t, t1, t2) == {c \in Columns : t[t1][c] = t[t2][c]}

(* Columns by how many of the sets have them, of equal ones the first or   *)
(* the last first: the column at each place, and the place of each column. *)
Frequency(sets, c) == Cardinality({X \in sets : c \in X})
AttributesSortedByFrequency(sets, descending, up) ==
  Sorted(Columns, LAMBDA a, b : IF Frequency(sets, a) = Frequency(sets, b) THEN (a < b) = up /\ a # b
                                ELSE (Frequency(sets, a) > Frequency(sets, b)) = descending)
InverseOrder(order) == [c \in Columns |-> CHOOSE i \in Columns : order[i] = c]
ChangeAttributesOrder(set, new_order) == {new_order[bit] : bit \in set}
ByCount(sets) ==
  Sorted(sets, LAMBDA X, Y : IF Cardinality(X) = Cardinality(Y) THEN Before(X, Y)
                             ELSE Cardinality(X) > Cardinality(Y))

(* The generalizations of a set leave the tree, and come back with one     *)
(* column more that the set does not have.                                 *)
Specialize(tree, subset, columns) ==
  FoldSet(LAMBDA c, acc : IF Tree!ContainsAnySubsetOf(acc, subset \cup {c}) THEN acc
                          ELSE Tree!AddSet(acc, subset \cup {c}), tree, columns)
HandleInvalidFd(tree, invalid, columns, max_lhs) ==
  LET subsets == Tree!ForEachSubset(tree, invalid)
      without == FoldSet(LAMBDA X, acc : Tree!RemoveSet(acc, X), tree, subsets)
  IN FoldSet(LAMBDA X, acc : IF Cardinality(X) = max_lhs THEN acc ELSE Specialize(acc, X, columns \ invalid),
             without, subsets)
-----------------------------------------------------------------------------
(* AID-FD: a row is compared, round after round, with one before it in     *)
(* each of its clusters.                                                   *)
kPrime == 10619863
kWindowSize == 10
BuildClusters(t, c, r) == SelectSeq([k \in Rows(t) |-> k], LAMBDA k : t[k][c] = t[r][c])
GenerateSecondClusterIndex(index_in_cluster, iteration_num) == (iteration_num * kPrime) % index_in_cluster
HandleTuple(t, r, iteration_num) ==
  LET Handle(c, cluster) ==
        LET index_in_cluster == CHOOSE i \in 0 .. Len(cluster) - 1 : cluster[i + 1] = r
        IN IF iteration_num > index_in_cluster THEN {}
           ELSE {BuildAgreeSet(t, r, cluster[GenerateSecondClusterIndex(index_in_cluster, iteration_num) + 1])}
  IN UNION {Handle(c, BuildClusters(t, c, r)) : c \in Columns}
RatioOf(prev_size, curr_size) ==
  IF prev_size = 0 THEN IF curr_size = 0 THEN 0 ELSE Unit ELSE ((curr_size - prev_size) * Unit) \div prev_size
RECURSIVE AidNegativeCover(_, _, _, _)
AidNegativeCover(t, index, prev_ratios, neg_cover) ==
  LET grown == neg_cover \cup (UNION {HandleTuple(t, r, index) : r \in Rows(t)})
      ratios == [prev_ratios EXCEPT ![index % kWindowSize] = RatioOf(Cardinality(neg_cover), Cardinality(grown))]
  IN IF Sum(LAMBDA i : ratios[i], DOMAIN ratios) < (kWindowSize * Unit) \div 100 THEN grown
     ELSE AidNegativeCover(t, index + 1, ratios, grown)

SingleElementSets(columns) == FoldSet(LAMBDA c, tree : Tree!AddSet(tree, {c}), Tree!EmptyTree, columns)
(* For one column, by its place in the order.                              *)
InvertFor(rhs, neg_cover, columns, max_lhs) ==
  FoldLeft(LAMBDA tree, X : IF rhs \in X THEN tree ELSE HandleInvalidFd(tree, X, columns \ {rhs}, max_lhs),
           SingleElementSets(columns \ {rhs}), neg_cover)
InvertNegativeCover(t, sets, max_lhs, attr_indices) ==
  LET inv == InverseOrder(attr_indices)
      neg_cover == ByCount({ChangeAttributesOrder(X, inv) : X \in sets})
      columns == ChangeAttributesOrder(Columns \ ConstantColumns(t), inv)
  IN {<<{}, c>> : c \in ConstantColumns(t)} \cup
     UNION {{<<ChangeAttributesOrder(X, attr_indices), attr_indices[rhs]>> :
               X \in Tree!ForEach(InvertFor(rhs, neg_cover, columns, max_lhs))} : rhs \in columns}
AidFds(t, max_lhs, up) ==
  LET neg_cover == AidNegativeCover(t, 1, [i \in 0 .. kWindowSize - 1 |-> Unit], {})
  IN InvertNegativeCover(t, neg_cover, max_lhs, AttributesSortedByFrequency(neg_cover, TRUE, up))
-----------------------------------------------------------------------------
(* EulerFD.  The limits: what sends a cluster to the last queue, how much  *)
(* it must promise there, and how little growth ends the cycles.           *)
kInitialWindow == 3
kWindow == 3
Limits == [last |-> Unit \div 1000, effective |-> Unit \div 100, ncover |-> Unit \div 100, pcover |-> Unit \div 100]
NewCluster(data) ==
  [data |-> data, hist_effects |-> [i \in 0 .. kInitialWindow - 1 |-> Unit], window |-> 0, sample_number |-> 0]

(* The classes of more than one row of the columns that are not constant,  *)
(* shuffled: forwards or backwards.                                        *)
BuildPartition(t, up) ==
  LET of == {<<c, K>> \in Columns \X UNION {CreateFor(t, c) : c \in Columns} :
               c \notin ConstantColumns(t) /\ K \in CreateFor(t, c)}
      order == Sorted(of, LAMBDA a, b : a[1] < b[1] \/ (a[1] = b[1] /\ Before(a[2], b[2])))
  IN Tuple([i \in DOMAIN order |-> NewCluster(IF up THEN Sorted(order[i][2], <) ELSE Sorted(order[i][2], >))])
GetAverage(cluster) == Sum(LAMBDA i : cluster.hist_effects[i], 0 .. kInitialWindow - 1) \div kInitialWindow

(* Cluster::Sample: the pairs of rows window_ apart, each worth as many    *)
(* columns as it tells apart if its agree set is new.  With no pair left   *)
(* the effect is zero, also when their number has wrapped around.          *)
Sample(e, c) ==
  LET cluster == e.clusters[c]
      window == cluster.window + 1
      pairs == Max({0, Len(cluster.data) - window})
      found == {BuildAgreeSet(e.t, cluster.data[i], cluster.data[i + window]) : i \in 1 .. pairs} \ e.invalids
      new_non_fds == Sum(LAMBDA X : NumColumns - Cardinality(X), found)
      cur_eff == IF pairs = 0 THEN 0 ELSE (new_non_fds * Unit) \div pairs
  IN [e EXCEPT !.invalids = @ \cup found, !.new_invalids = @ \cup found,
               !.clusters[c] = [@ EXCEPT !.window = window, !.sample_number = @ + 1,
                                         !.hist_effects[cluster.sample_number % kInitialWindow] = cur_eff]]

(* MLFQ.  The last queue hands out one of the greatest averages.           *)
QueueOf(limits, priority) == Cardinality({k \in 1 .. 4 : priority \div (10 ^ k) >= limits.last})
AddAtLast(e, c) == IF GetAverage(e.clusters[c]) > 0 THEN [e EXCEPT !.last_queue = @ \cup {c}] ELSE e
AddToQueues(e, c, priority, add_if_zero) ==
  IF priority = 0 /\ ~add_if_zero THEN e
  ELSE IF priority < e.limits.last THEN AddAtLast(e, c)
  ELSE [e EXCEPT !.queues[QueueOf(e.limits, priority)] = Append(@, c)]
EffectiveSize(e) == Sum(LAMBDA q : Len(e.queues[q]), DOMAIN e.queues)
ActualQueue(e) == Max({q \in DOMAIN e.queues : e.queues[q] # <<>>})
MaxEffectInLastQueue(e) == Max({GetAverage(e.clusters[c]) : c \in e.last_queue})
TopOfLast(e) == CHOOSE c \in e.last_queue : GetAverage(e.clusters[c]) = MaxEffectInLastQueue(e)

RECURSIVE SampleQueues(_)
SampleQueues(e) ==
  IF EffectiveSize(e) = 0 THEN e
  ELSE LET c == Head(e.queues[ActualQueue(e)])
           sampled == Sample([e EXCEPT !.queues[ActualQueue(e)] = Tail(@)], c)
       IN SampleQueues(AddToQueues(sampled, c, GetAverage(sampled.clusters[c]), FALSE))
RECURSIVE SampleLast(_)
SampleLast(e) ==
  IF e.last_queue = {} \/ MaxEffectInLastQueue(e) < e.threshold THEN e
  ELSE LET c == TopOfLast(e) IN SampleLast(AddAtLast(Sample([e EXCEPT !.last_queue = @ \ {c}], c), c))
NewThreshold(e, threshold) ==
  IF e.last_queue = {} THEN e
  ELSE [e EXCEPT !.threshold = Min({threshold, MaxEffectInLastQueue(e) \div 2})]
FirstSample(e, c) ==
  LET sampled == Sample(e, c)
      cluster == sampled.clusters[c]
  IN AddToQueues(sampled, c, cluster.hist_effects[(cluster.sample_number - 1) % kInitialWindow], TRUE)
SampleAll(e) == FoldLeft(FirstSample, [e EXCEPT !.first = FALSE], [c \in DOMAIN e.clusters |-> c])
Sampling(e) ==
  IF e.first THEN NewThreshold(SampleAll(e), e.threshold)
  ELSE SampleLast(NewThreshold(SampleQueues([e EXCEPT !.new_invalids = {}]), e.threshold \div 4))

(* The covers, a tree for each place in the order.                         *)
InitCovers(e) ==
  [e EXCEPT !.positive_cover = [c \in Columns |-> Tree!AddSet(Tree!EmptyTree, {})],
            !.negative_cover = [c \in Columns |-> Tree!EmptyTree], !.counted = {}, !.attribute_indexes = <<>>]
AddInvalidAtTree(tree, invalid) ==
  IF Tree!ContainsAnySupersetOf(tree, invalid) THEN tree
  ELSE Tree!AddSet(FoldSet(LAMBDA X, acc : Tree!RemoveSet(acc, X), tree, Tree!ForEachSubset(tree, invalid)), invalid)
CreateNegativeCover(tree, rhs, neg_cover) ==
  FoldLeft(LAMBDA acc, X : IF rhs \in X THEN acc ELSE AddInvalidAtTree(acc, X), tree, neg_cover)
Invert(tree, rhs, neg, columns) ==
  FoldLeft(LAMBDA acc, X : HandleInvalidFd(acc, X, columns \ {rhs}, NumColumns + 1), tree, neg)

(* If the order of the columns is no more the one they were sorted in, the *)
(* covers are made anew of everything found.                               *)
OrderOf(e) == AttributesSortedByFrequency(e.counted, FALSE, e.up)
CoversFor(e, columns, neg_cover) ==
  [e EXCEPT !.negative_cover =
     [c \in Columns |-> IF c \in columns THEN CreateNegativeCover(@[c], c, neg_cover) ELSE @[c]]]
ResultsFor(e, columns) ==
  [e EXCEPT !.positive_cover =
     [c \in Columns |-> IF c \notin columns THEN @[c]
                        ELSE Invert(@[c], c, ByCount(Tree!ForEach(e.negative_cover[c])), columns)]]
CountFds(e, columns) == [e EXCEPT !.fd_num = Sum(LAMBDA c : e.positive_cover[c].cardinality, columns)]
ExtendCovers(e, columns, neg_cover) == CountFds(ResultsFor(CoversFor(e, columns, neg_cover), columns), columns)
InOrder(e, sets, inv) ==
  ExtendCovers(e, ChangeAttributesOrder(Columns \ ConstantColumns(e.t), inv),
               ByCount({ChangeAttributesOrder(X, inv) : X \in sets}))
Rebuilt(e, order) == InOrder([e EXCEPT !.attribute_indexes = order], e.invalids, InverseOrder(order))
Generate(e, order) ==
  IF e.attribute_indexes = order THEN InOrder(e, e.new_invalids, InverseOrder(order))
  ELSE LET rebuilt == [InitCovers(e) EXCEPT !.counted = e.invalids] IN Rebuilt(rebuilt, OrderOf(rebuilt))
GenerateResults(e) ==
  IF e.old_invalid_size = Cardinality(e.invalids) THEN e
  ELSE LET counted == [e EXCEPT !.old_invalid_size = Cardinality(e.invalids), !.counted = @ \cup e.new_invalids]
       IN Generate(counted, OrderOf(counted))

(* Fewer dependencies than before wrap around: a huge growth.              *)
GrowthOf(before, after) ==
  IF after = 0 THEN 0 ELSE IF after < before THEN 100 * Unit ELSE ((after - before) * Unit) \div after
IsGrowthSmall(growth, ratios) == Sum(LAMBDA i : ratios[i], 0 .. kWindow - 1) < kWindow * growth
WithNcoverRatio(e, sampled, i) ==
  [sampled EXCEPT !.ncover_ratios[i] = GrowthOf(Cardinality(e.invalids), Cardinality(sampled.invalids))]
WithPcoverRatio(e, generated, i) == [generated EXCEPT !.pcover_ratios[i] = GrowthOf(e.fd_num, generated.fd_num)]
FirstCycle(e, iteration_number) ==
  LET sampled == WithNcoverRatio(e, Sampling(e), iteration_number % kWindow)
  IN [e |-> IF IsGrowthSmall(e.limits.ncover, sampled.ncover_ratios)
            THEN WithPcoverRatio(e, GenerateResults(sampled), iteration_number % kWindow) ELSE sampled,
      second |-> IsGrowthSmall(e.limits.ncover, sampled.ncover_ratios)]
RECURSIVE Cycles(_, _)
Cycles(e, iteration_number) ==
  LET cycle == FirstCycle(e, iteration_number)
  IN IF cycle.second /\ IsGrowthSmall(e.limits.pcover, cycle.e.pcover_ratios) THEN cycle.e
     ELSE Cycles(cycle.e, iteration_number + 1)

(* SaveAnswer; without clusters, or with one column, nothing is found.     *)
SaveAnswer(e) ==
  IF e.attribute_indexes = <<>> THEN {}
  ELSE UNION {{<<ChangeAttributesOrder(X, e.attribute_indexes), e.attribute_indexes[i]>> :
                 X \in Tree!ForEach(e.positive_cover[i])} : i \in Columns}
EulerFds(t, limits, up) ==
  LET clusters == BuildPartition(t, up)
      ones == [i \in 0 .. kWindow - 1 |-> Unit]
      e == [t |-> t, limits |-> limits, up |-> up, clusters |-> clusters, first |-> TRUE,
            queues |-> [q \in 0 .. 4 |-> <<>>], last_queue |-> {}, threshold |-> limits.effective,
            invalids |-> {}, new_invalids |-> {}, counted |-> {}, old_invalid_size |-> 0, fd_num |-> 0,
            attribute_indexes |-> <<>>, positive_cover |-> <<>>, negative_cover |-> <<>>,
            ncover_ratios |-> ones, pcover_ratios |-> ones]
  IN IF NumColumns = 1 \/ clusters = <<>> THEN {} ELSE SaveAnswer(Cycles(InitCovers(e), 0))
-----------------------------------------------------------------------------
(* FDep.                                                                   *)
EmptyTree == [fds |-> {}, marks |-> {}]
Entered(tree, X, A) == \A Q \in PathsTo(X) \ {{}} : <<Q, A>> \in tree.marks

AddFunctionalDependency(tree, X, A) ==
  [fds |-> tree.fds \cup {<<X, A>>}, marks |-> tree.marks \cup {<<Q, A>> : Q \in PathsTo(X)}]
Generalizations(tree, X, A) == {Y \in SUBSET X : <<Y, A>> \in tree.fds /\ Entered(tree, Y, A)}
HasSpecialization(tree, X, A) == \E f \in tree.fds : f[2] = A /\ X \subseteq f[1]

(* On the way back up a mark goes where no child is marked (IsFinalNode).  *)
Delete(tree, X, A) ==
  LET final(marks, Q) == ~\E c \in Columns : (Q # {} => c > Max(Q)) /\ <<Q \cup {c}, A>> \in marks
      up == Sorted(PathsTo(X) \ {X}, LAMBDA P, Q : Q \subseteq P /\ P # Q)
  IN [fds |-> tree.fds \ {<<X, A>>},
      marks |-> FoldLeft(LAMBDA marks, Q : IF final(marks, Q) THEN marks \ {<<Q, A>>} ELSE marks,
                         tree.marks \ {<<X, A>>}, up)]

(* BuildNegativeCover.  FilterSpecializations keeps the most special, from *)
(* the depth of the tree up.                                               *)
Violated(t) ==
  UNION {{<<AgreeOn(t, p[1], p[2]), A>> : A \in Columns \ AgreeOn(t, p[1], p[2])} :
            p \in {p \in Rows(t) \X Rows(t) : p[1] < p[2]}}
Deeper(X, Y) ==
  X # Y /\ \/ Y \in PathsTo(X)
           \/ \E c \in X \ Y : {b \in X : b < c} = {b \in Y : b < c} /\ \E d \in Y : d > c
NegativeCover(t) ==
  LET order == Sorted({f[1] : f \in Violated(t)}, Deeper)
      keep(tree, X) ==
        FoldSet(LAMBDA A, acc : IF HasSpecialization(acc, X, A) THEN acc ELSE AddFunctionalDependency(acc, X, A),
                tree, {f[2] : f \in {f \in Violated(t) : f[1] = X}})
  IN FoldLeft(keep, EmptyTree, order)

(* While a more general one than the violated is there, it is replaced by  *)
(* its extensions, greatest column first.                                  *)
RECURSIVE SpecializePositiveCover(_, _, _)
SpecializePositiveCover(pos, X, A) ==
  LET spec == CHOOSE Y \in Generalizations(pos, X, A) : TRUE
      extend(tree, B) ==
        IF Generalizations(tree, spec \cup {B}, A) = {} THEN AddFunctionalDependency(tree, spec \cup {B}, A)
        ELSE tree
  IN IF Generalizations(pos, X, A) = {} THEN pos
     ELSE SpecializePositiveCover(FoldLeft(extend, Delete(pos, spec, A), Sorted(Columns \ (X \cup {A}), >)), X, A)

MostGeneral == [fds |-> {<<{}, A>> : A \in Columns}, marks |-> {<<{}, A>> : A \in Columns}]
Shallower(f, g) ==
  \/ f[1] = g[1] /\ f[2] < g[2]
  \/ f[1] # g[1] /\ (f[1] \in PathsTo(g[1]) \/ (g[1] \notin PathsTo(f[1]) /\ Deeper(f[1], g[1])))
FDepFds(t, max_lhs) ==
  UpTo(max_lhs, FoldLeft(LAMBDA pos, f : SpecializePositiveCover(pos, f[1], f[2]), MostGeneral,
                         Sorted(NegativeCover(t).fds, Shallower)).fds)
-----------------------------------------------------------------------------
(* The pairs of rows that agree on a column that is not constant, and what *)
(* is least of the sides that they do not tell to be wrong.                *)
SampledSets(t) ==
  {X \in {BuildAgreeSet(t, p[1], p[2]) : p \in {q \in Rows(t) \X Rows(t) : q[1] < q[2]}} :
     ~(X \subseteq ConstantColumns(t))}
Unrefuted(sets, A) == Least(LAMBDA X : \A Y \in sets : X \subseteq Y => A \in Y, Columns \ {A})

(* AID-FD finds the minimal dependencies.  EulerFD finds what is minimal   *)
(* of the pairs it can sample, if there are any: when it samples all it    *)
(* can before it looks at them, and when its limits make it look after     *)
(* every round.                                                            *)
AidIsRight(t) ==
  \A up \in BOOLEAN, max_lhs \in {1, NumColumns} : AidFds(t, max_lhs, up) = UpTo(max_lhs, MinimalFds(t))
Coarse == [last |-> 2 * Unit, effective |-> 2 * Unit, ncover |-> 2 * Unit, pcover |-> (2 * Unit) \div 3]
EulerIsRight(t) ==
  LET sets == SampledSets(t)
      unrefuted == UNION {{<<X, A>> : X \in Unrefuted(sets, A)} : A \in Columns}
  IN \A limits \in {Limits, Coarse}, up \in BOOLEAN : EulerFds(t, limits, up) = IF sets = {} THEN {} ELSE unrefuted
=============================================================================
