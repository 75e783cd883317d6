--------------------------------- MODULE Sd ---------------------------------
(***************************************************************************)
(* The verifier of sequential dependencies (sd/sd_verifier): how few       *)
(* deletions and insertions make the distances of neighbours, in the order *)
(* of another column, lie in the gap [g1, g2].  Numbers are integers, and  *)
(* computed exactly.  Positions count from 1, where the code counts from   *)
(* 0; position 0 is its -1.  Below the line is the least number by         *)
(* definition.                                                             *)
(***************************************************************************)
EXTENDS Integers, Sequences, FiniteSets, FiniteSetsExt, SequencesExt

None == -1
Infinite == -1      \* the g2 of a gap without an upper end
Powers == {1, 2, 4, 8, 16}      \* bound: nodes of a Fenwick tree
Gap(lo, hi) == [g1 |-> lo, g2 |-> hi]
IsExactGap(g) == g.g2 > 0 /\ g.g1 = g.g2

CeilDiv(a, b) == -((-a) \div b)
(* std::lround: halves away from zero.                                     *)
RoundDiv(a, b) == IF a >= 0 THEN (2 * a + b) \div (2 * b) ELSE -((b - 2 * a) \div (2 * b))

(* Steps of the gap that cover a distance; None if none do.                *)
LeastSteps(d, g) == Max({CeilDiv(d, g.g2), 1})
CalculateDCost(d, g) ==
  CASE d < 0 -> None
    [] d >= 0 /\ g.g2 < 0 -> IF d >= g.g1 THEN 1 ELSE None
    [] OTHER -> IF LeastSteps(d, g) * g.g1 <= d THEN LeastSteps(d, g) ELSE None

(* What a value is reached with: the least cost t of a path that ends at a *)
(* position.  A way to go on from it costs the rows between, and the steps *)
(* but one.                                                                *)
Unset == [t |-> None, from |-> 0]
Reached(t, i) == [t |-> t, from |-> i]
Offset(e) == e.t - e.from
Cost(e, i, dcost) == e.t + (i - 1 - e.from) + dcost - 1
NoWay == [cost |-> None, from |-> 0, wild |-> FALSE]

(* The exact gap: one Fenwick tree for the values of each remainder, node  *)
(* p for those with ranks above p - LowBit(p).  A node keeps the first     *)
(* entry of those with the least key, and a query the first node it meets. *)
LowBit(p) == Max({m \in Powers : p % m = 0})
Ranked(values, v, g) == {w \in ToSet(values) : w % g.g1 = v % g.g1 /\ w <= v}
Rank(values, v, g) == Cardinality(Ranked(values, v, g))
Key(u, g) == Offset(u) - RoundDiv(u.value, g.g1)
Node(log, values, v, p, g) ==
  {u \in ToSet(log) : /\ u.value % g.g1 = v % g.g1
                      /\ Rank(values, u.value, g) \in p - LowBit(p) + 1 .. p}
FirstLeast(updates, g) ==
  CHOOSE u \in updates : \A w \in updates :
    Key(u, g) < Key(w, g) \/ (Key(u, g) = Key(w, g) /\ u.from <= w.from)
Path(p) == {(p \div m) * m : m \in Powers} \ {0}
Found(nodes, g) ==
  LET best == [p \in {q \in DOMAIN nodes : nodes[q] # {}} |-> FirstLeast(nodes[p], g)]
      least == {p \in DOMAIN best : \A q \in DOMAIN best : Key(best[p], g) <= Key(best[q], g)}
  IN IF least = {} THEN Unset ELSE best[Max(least)]
QueryExact(log, values, v, g) ==
  Found([p \in Path(Rank(values, v, g) - 1) |-> Node(log, values, v, p, g)], g)
WayInClass(e, i, v, g) ==
  IF e = Unset THEN NoWay
  ELSE [cost |-> Cost(e, i, RoundDiv(v - e.value, g.g1)), from |-> e.from, wild |-> FALSE]

(* Any other gap: a segment tree over the values, a leaf for each, its     *)
(* least cost so far.  Of equal nodes the shape of the tree decides        *)
(* (lowest or highest).  A query of leaves nothing has reached yet         *)
(* returns a node whose rank is no index: what is read in its place is     *)
(* undefined, and so are the steps that follow (garbage).                  *)
Weight(e, v, g) == IF g.g2 < 0 THEN Offset(e) ELSE Offset(e) * g.g2 - v
Leaves(best, S) == {v \in S : best[v] # Unset}
Least(best, S, g) == {v \in S : \A w \in S : Weight(best[v], v, g) <= Weight(best[w], w, g)}
Query(best, S, g, lowest) ==
  LET least == Least(best, Leaves(best, S), g)
  IN IF least = {} THEN None ELSE IF lowest THEN Min(least) ELSE Max(least)
Better(way, cost, from) ==
  IF way.cost = None \/ cost <= way.cost THEN [way EXCEPT !.cost = cost, !.from = from] ELSE way
Improved(way, e, i, dcost) == IF dcost = None THEN way ELSE Better(way, Cost(e, i, dcost), e.from)
(* The node of an unreached leaf holds the cost 0 and the position -1, and *)
(* the first position as j.                                                *)
Wild(way, i, dcost) == IF dcost = None THEN way ELSE Better(way, Cost(Reached(0, 1), i, dcost), 0)
UpdateMin2Interval(way, i, v, S, best, c) ==
  IF S = {} THEN way
  ELSE IF Leaves(best, S) = {} THEN Wild([way EXCEPT !.wild = TRUE], i, c.garbage)
  ELSE LET w == Query(best, S, c.gap, c.lowest)
       IN Improved(way, best[w], i, CalculateDCost(v - w, c.gap))

(* The bands of k steps, up to the one from which on they overlap: there   *)
(* all that is left is queried at once.                                    *)
Overlap(g, k) == k * (g.g2 - g.g1) >= g.g1
BandsBelow(v, low, g) ==
  {k \in 1 .. v - low : v - k * g.g1 >= low /\ \A j \in 1 .. k - 1 : ~Overlap(g, j)}
ProcessBand(way, i, v, k, best, c) ==
  UpdateMin2Interval(way, i, v, {w \in DOMAIN best : v - k * c.gap.g2 <= w /\ w <= v - k * c.gap.g1}, best, c)
BugProcessRest(way, i, v, k, best, c) == way
ProcessRest(way, i, v, k, best, c) ==
  IF Overlap(c.gap, k) THEN UpdateMin2Interval(way, i, v, {w \in DOMAIN best : w <= v - k * c.gap.g1}, best, c) ELSE way
ProcessIntervalBands(i, v, best, c) ==
  CASE c.gap.g2 < 0 -> UpdateMin2Interval(NoWay, i, v, {w \in DOMAIN best : w <= v - c.gap.g1}, best, c)
    [] c.gap.g2 >= 0 /\ c.gap.g1 = 0 -> UpdateMin2Interval(NoWay, i, v, {w \in DOMAIN best : w < v}, best, c)
    [] OTHER -> FoldLeft(LAMBDA way, k : ProcessRest(ProcessBand(way, i, v, k, best, c), i, v, k, best, c),
                         NoWay, SetToSortSeq(BandsBelow(v, Min(DOMAIN best), c.gap), <))

(* The dynamic program.  t: a position kept, ops: a prefix; prev and fromT *)
(* say how.  A gap that may be 0 also chains equal values.                 *)
WayFrom(i, v, p, values, c) ==
  IF IsExactGap(c.gap)
  THEN IF Rank(values, v, c.gap) = 1 THEN NoWay
       ELSE WayInClass(QueryExact(p.log, values, v, c.gap), i, v, c.gap)
  ELSE ProcessIntervalBands(i, v, p.best, c)
EqualWay(i, v, p, c) ==
  IF IsExactGap(c.gap) \/ c.gap.g1 # 0 \/ p.best[v] = Unset THEN NoWay
  ELSE [cost |-> Cost(p.best[v], i, 1), from |-> p.best[v].from, wild |-> FALSE]
DeleteAllBefore(i) == [cost |-> i - 1, from |-> 0, wild |-> FALSE]
Cheaper(way, w) == IF w.cost # None /\ w.cost <= way.cost THEN w ELSE way
Best(i, way, equal) == Cheaper(Cheaper(DeleteAllBefore(i), way), equal)

Insert(p, i, v, t, c) ==
  IF IsExactGap(c.gap) THEN [p EXCEPT !.log = Append(@, [value |-> v, t |-> t, from |-> i])]
  ELSE IF p.best[v] # Unset /\ t - i >= Offset(p.best[v]) THEN p
  ELSE [p EXCEPT !.best[v] = Reached(t, i)]
Record(p, t, w) ==
  [p EXCEPT !.prev = Append(@, t.from), !.wild = @ \/ w,
            !.fromT = Append(@, ~(Last(p.ops) + 1 < t.cost)),
            !.ops = Append(@, Min({Last(p.ops) + 1, t.cost}))]
Step(p, i, v, way, t, c) == Insert(Record(p, t, way.wild), i, v, t.cost, c)
StepWith(p, i, v, way, c) == Step(p, i, v, way, Best(i, way, EqualWay(i, v, p, c)), c)
Row(p, i, values, c) == StepWith(p, i, values[i], WayFrom(i, values[i], p, values, c), c)
First(values, c) ==
  Insert([prev |-> <<0>>, fromT |-> <<TRUE>>, ops |-> <<0>>, wild |-> FALSE,
          log |-> <<>>, best |-> [v \in ToSet(values) |-> Unset]], 1, values[1], 0, c)
CalculateOps(values, c) ==
  FoldLeft(LAMBDA p, i : Row(p, i, values, c), First(values, c), [i \in 1 .. Len(values) - 1 |-> i + 1])

(* The path is followed back; what is not on it is deleted, and a distance *)
(* of more than one step on it is one violation for all its insertions.    *)
LastKept(p) == Max({i \in DOMAIN p.fromT : p.fromT[i]})
PathTo(p, last) ==
  LET path[i \in 0 .. last] == IF i = 0 THEN <<>> ELSE Append(path[p.prev[i]], i) IN path[last]
DCost(d, g) == IF IsExactGap(g) THEN RoundDiv(d, g.g1) ELSE CalculateDCost(d, g)
MostInsertions(d, g) == IF IsExactGap(g) \/ g.g1 = 0 THEN DCost(d, g) - 1 ELSE d \div g.g1 - 1
InsertionsBetween(values, i, j, g) ==
  [left |-> i, right |-> j, min |-> DCost(values[j] - values[i], g) - 1,
   max |-> MostInsertions(values[j] - values[i], g)]
Violations(values, path, g) ==
  [deletions |-> DOMAIN values \ ToSet(path),
   insertions |-> {x \in {InsertionsBetween(values, path[k], path[k + 1], g) : k \in 1 .. Len(path) - 1} : x.min > 0}]
ReconstructPath(values, p, g) == Violations(values, PathTo(p, LastKept(p)), g)

(* Rows by the left column, then by the right one, then as they come.      *)
RowBefore(rows, a, b) ==
  \/ rows[a][1] < rows[b][1]
  \/ rows[a][1] = rows[b][1] /\ (rows[a][2] < rows[b][2] \/ (rows[a][2] = rows[b][2] /\ a < b))
Selected(rows, indices) == {r \in DOMAIN rows : indices = {} \/ r \in indices}
RowOrder(rows, S) == [k \in 1 .. Cardinality(S) |-> CHOOSE r \in S : Cardinality({x \in S : RowBefore(rows, x, r)}) = k - 1]
NoRows == [ops |-> 0, wild |-> FALSE, violations |-> [deletions |-> {}, insertions |-> {}]]
Result(values, p, g) == [ops |-> Last(p.ops), wild |-> p.wild, violations |-> ReconstructPath(values, p, g)]
VerifyValues(values, c) == IF Len(values) <= 1 THEN NoRows ELSE Result(values, CalculateOps(values, c), c.gap)
ValuesIn(rows, order) == [k \in DOMAIN order |-> rows[order[k]][2]]
Verify(rows, indices, c) == VerifyValues(ValuesIn(rows, RowOrder(rows, Selected(rows, indices))), c)
-----------------------------------------------------------------------------
(* By definition: the rows kept, and the steps between them.               *)
Fits(d, k, g) == k * g.g1 <= d /\ (g.g2 = Infinite \/ d <= k * g.g2)
Steps(d, g) == {k \in 1 .. d + 1 : Fits(d, k, g)}
Neighbours(K) == {x \in K \X K : x[1] < x[2] /\ \A k \in K : k <= x[1] \/ x[2] <= k}
Distance(values, x) == values[x[2]] - values[x[1]]
Possible(values, K, g) == \A x \in Neighbours(K) : Steps(Distance(values, x), g) # {}
Price(values, K, g) ==
  Len(values) - Cardinality(K) + FoldSet(LAMBDA x, n : n + Min(Steps(Distance(values, x), g)) - 1, 0, Neighbours(K))
Sets(values, g) == {K \in (SUBSET DOMAIN values) \ {{}} : Possible(values, K, g)}
LeastPrice(values, g) == Min({Price(values, K, g) : K \in Sets(values, g)})

(* Where the code is sure to be right: it has read no node without an      *)
(* index, and the values of a class are all rounded the same way.          *)
RoundedAlike(values, g) ==
  IsExactGap(g) => \/ \A v \in ToSet(values) : v >= 0
                   \/ \A v \in ToSet(values) : 2 * (v % g.g1) # g.g1

Explains(values, v, ops, g) ==
  LET K == DOMAIN values \ v.deletions
  IN /\ Possible(values, K, g) /\ Price(values, K, g) = ops
     /\ {<<x.left, x.right>> : x \in v.insertions} = {x \in Neighbours(K) : 1 \notin Steps(Distance(values, x), g)}
     /\ \A x \in v.insertions :
          LET steps == Steps(Distance(values, <<x.left, x.right>>), g)
          IN x.min + 1 = Min(steps) /\ (g.g1 > 0 => x.max + 1 = Max(steps))
RightResult(values, r, g) == r.ops = LeastPrice(values, g) /\ Explains(values, r.violations, r.ops, g)
RightUnlessWild(values, r, g) == r.wild \/ RightResult(values, r, g)
OpsAreRight(values, g) ==
  Len(values) > 1 /\ RoundedAlike(values, g) =>
    \A lowest \in BOOLEAN : RightUnlessWild(values, VerifyValues(values, [gap |-> g, lowest |-> lowest, garbage |-> None]), g)
(* All rows, or the selected ones, in the order of the left column.        *)
RowsAreRight(rows, g) ==
  IsExactGap(g) \/ g.g2 < 0 =>
    \A S \in SUBSET DOMAIN rows :
      LET order == RowOrder(rows, Selected(rows, S))
          r == Verify(rows, S, [gap |-> g, lowest |-> TRUE, garbage |-> None])
      IN /\ \A j, k \in DOMAIN order : j < k => RowBefore(rows, order[j], order[k])
         /\ r.wild \/ Len(order) <= 1 \/ RightResult(ValuesIn(rows, order), r, g)

(* With any of the steps an unreached leaf may be taken to need.           *)
OpsAreLeast(values, g) ==
  Len(values) > 1 => \A garbage \in {None, 1} :
    VerifyValues(values, [gap |-> g, lowest |-> TRUE, garbage |-> garbage]).ops = LeastPrice(values, g)
=============================================================================
