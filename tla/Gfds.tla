-------------------------------- MODULE Gfds --------------------------------
(***************************************************************************)
(* The validators of graph functional dependencies                         *)
(* (src/src/core/algorithms/gfd/gfd_validator): NaiveGfdValidator, the     *)
(* GfdValidator with its threads and Balancer, and the EGfdValidator with  *)
(* its index of candidates.                                                *)
(* A graph has vertices 0 .. size - 1, a label for each, values for some   *)
(* of its attributes, and a label for each edge, a set of two vertices.  A *)
(* token of a literal is a vertex of the pattern and an attribute, or -1   *)
(* and a constant.                                                         *)
(***************************************************************************)
EXTENDS Integers, Sequences, FiniteSets, FiniteSetsExt, SequencesExt

Vertices(g) == 0 .. g.size - 1
Edge(g, u, v) == {u, v} \in DOMAIN g.edges
Adjacent(g, v) == {u \in Vertices(g) : u # v /\ Edge(g, u, v)}
Degree(g, v) == Cardinality(Adjacent(g, v))
Tuple(s) == SubSeq(s, 1, Len(s))
Ascending(S) == Tuple([i \in 1 .. Cardinality(S) |-> CHOOSE x \in S : Cardinality({y \in S : y < x}) = i - 1])
(* Insertion sort, as std::sort does on few elements.                      *)
StableSort(s, Less(_, _)) ==
  LET order == SortSeq([i \in DOMAIN s |-> i],
                       LAMBDA i, j : Less(s[i], s[j]) \/ (i < j /\ ~Less(s[j], s[i])))
  IN Tuple([k \in DOMAIN s |-> s[order[k]]])
(* std::min_element.                                                       *)
MinElement(s, Less(_, _)) == FoldLeft(LAMBDA least, x : IF Less(x, least) THEN x ELSE least, Head(s), Tail(s))
Total(f(_), S) == FoldSet(LAMBDA x, acc : f(x) + acc, 0, S)
TotalOf(s) == FoldLeft(LAMBDA acc, x : acc + x, 0, s)

(* Satisfied: f is where the vertices of the pattern are.                  *)
HasValue(g, f, token) == token[1] = -1 \/ token[2] \in DOMAIN g.attributes[f[token[1]]]
ValueOf(g, f, token) == IF token[1] = -1 THEN token[2] ELSE g.attributes[f[token[1]]][token[2]]
Satisfied(g, f, literals) ==
  \A l \in ToSet(literals) :
    HasValue(g, f, l[1]) /\ HasValue(g, f, l[2]) /\ ValueOf(g, f, l[1]) = ValueOf(g, f, l[2])
Violates(g, gfd, f) == Satisfied(g, f, gfd.premises) /\ ~Satisfied(g, f, gfd.conclusion)

(* What vf2_subgraph_iso visits, vertex after vertex of the pattern: the   *)
(* images that have just its edges (or those and more), pinned or not.     *)
ECompare(q, g, u, v, fu, fv) == Edge(q, u, v) => Edge(g, fu, fv) /\ q.edges[{u, v}] = g.edges[{fu, fv}]
CanMap(q, g, f, u, to, induced) ==
  \A v \in DOMAIN f : /\ f[v] # to /\ ECompare(q, g, u, v, to, f[v])
                      /\ induced /\ Edge(g, to, f[v]) => Edge(q, u, v)
ImagesOf(q, g, VCompare(_, _), induced) ==
  LET Upto[n \in 0 .. q.size] ==
        IF n = 0 THEN {<<>>}
        ELSE UNION {{f @@ n - 1 :> v : v \in {v \in Vertices(g) : VCompare(n - 1, v) /\ CanMap(q, g, f, n - 1, v, induced)}} :
                      f \in Upto[n - 1]}
  IN Upto[q.size]
SubgraphIsos(q, g) == ImagesOf(q, g, LAMBDA u, v : q.label[u] = g.label[v], TRUE)
PinnedAt(q, g, u, v) ==
  ImagesOf(q, g, LAMBDA fr, to : IF fr = u \/ to = v THEN fr = u /\ to = v ELSE q.label[fr] = g.label[to], TRUE)
-----------------------------------------------------------------------------
(* NaiveGfdValidator.  It looks for the second token of a literal where    *)
(* the vertex of the first is.                                             *)
SecondAtFirst(literals) ==
  [i \in DOMAIN literals |->
     <<literals[i][1], IF literals[i][2][1] = -1 THEN literals[i][2] ELSE <<literals[i][1][1], literals[i][2][2]>> >>]
NaiveValidate(g, gfd) ==
  LET read == [gfd EXCEPT !.premises = SecondAtFirst(@), !.conclusion = SecondAtFirst(@)]
  IN \A f \in SubgraphIsos(gfd.pattern, g) : ~Violates(g, read, f)
-----------------------------------------------------------------------------
(* Balancer.  A processor is its index, which stands first in its vector,  *)
(* and its weights; large is what is more than half of the optimum, the    *)
(* sum of all by the number m of processors.                               *)
IsLarge(b, weight) == 2 * b.m * weight > b.sum
SmallPart(b, weights) == SelectSeq(weights, LAMBDA w : ~IsLarge(b, w))
HasLarge(b, p) == IsLarge(b, Last(p.weights))
Dealt(weights, m) ==
  [i \in 1 .. m |->
     [index |-> i - 1,
      weights |-> SortSeq(Tuple([k \in 1 .. (Len(weights) - i) \div m + 1 |-> weights[(k - 1) * m + i]]), <)]]

(* Of the large weights of a processor the least stays.                    *)
Kept(b, p) == Min({Len(p.weights), Len(SmallPart(b, p.weights)) + 1})
DeleteLarge(b) ==
  [b EXCEPT
     !.deleted_large = FlattenSeq([i \in 1 .. b.m |->
        Reverse(SubSeq(b.result[i].weights, Kept(b, b.result[i]) + 1, Len(b.result[i].weights)))]),
     !.result = [i \in 1 .. b.m |-> [@[i] EXCEPT !.weights = SubSeq(@, 1, Kept(b, b.result[i]))]]]

(* Prepare: how many weights from the end on must go, of the small ones    *)
(* until they are half the optimum, and of all until they are the optimum. *)
TooMany(s, Fits(_)) == Min({k \in 0 .. Len(s) : Fits(TotalOf(SubSeq(s, 1, Len(s) - k)))})
QualityA(b, p) == TooMany(SmallPart(b, p.weights), LAMBDA t : ~IsLarge(b, t))
QualityB(b, p) ==
  IF SmallPart(b, p.weights) = <<>> THEN 0 ELSE TooMany(p.weights, LAMBDA t : b.m * t <= b.sum)
Quality(b, p) == QualityA(b, p) - QualityB(b, p)

(* Processors without a large weight go first.  From the border on small   *)
(* weights are taken out until they are half the optimum, before it until  *)
(* all are the optimum.                                                    *)
ByQuality(b, large) ==
  StableSort(SelectSeq(b.result, LAMBDA p : HasLarge(b, p) = large), LAMBDA p, q : Quality(b, p) > Quality(b, q))
LargeProcs(b) == Len(SelectSeq(b.result, LAMBDA p : HasLarge(b, p)))
Border(b) == Max({0, b.m - LargeProcs(b) - Len(b.deleted_large)})
Small(b, p) == SmallPart(b, p.weights)
FirstSmall(b, p) == Len(Small(b, p)) - QualityA(b, p)
SecondSmall(b, p) == Len(p.weights) - QualityB(b, p)
DeletedSmall(b, i) ==
  LET p == b.result[i]
  IN IF i > Border(b) THEN SubSeq(Small(b, p), FirstSmall(b, p) + 1, Len(Small(b, p)))
     ELSE SubSeq(p.weights, SecondSmall(b, p) + 1, Len(p.weights))
LeftOver(b, i) ==
  LET p == b.result[i]
  IN IF i <= Border(b) THEN SubSeq(p.weights, 1, SecondSmall(b, p))
     ELSE SubSeq(Small(b, p), 1, FirstSmall(b, p)) \o SubSeq(p.weights, Len(Small(b, p)) + 1, Len(p.weights))
DeleteSmall(b) ==
  [b EXCEPT !.result = [i \in 1 .. b.m |-> [@[i] EXCEPT !.weights = LeftOver(b, i)]],
            !.large_procs_num = LargeProcs(b),
            !.deleted_small = FlattenSeq([k \in 1 .. b.m |->
               DeletedSmall(b, IF k + Border(b) <= b.m THEN k + Border(b) ELSE k + Border(b) - b.m)])]

(* PutWeight adds up the index too.                                        *)
Load(p) == p.index + TotalOf(p.weights)
GiveTo(result, i, weight) == [result EXCEPT ![i].weights = Append(@, weight)]
PutWeight(result, weight) == GiveTo(StableSort(result, LAMBDA p, q : Load(p) < Load(q)), 1, weight)
FullLarge(b) ==
  [b EXCEPT !.result =
     FoldLeft(LAMBDA acc, i : IF i <= b.m - b.large_procs_num THEN GiveTo(acc, i, b.deleted_large[i])
                              ELSE PutWeight(acc, b.deleted_large[i]),
              @, [i \in DOMAIN b.deleted_large |-> i])]
FullSmall(b) == FoldLeft(PutWeight, b.result, b.deleted_small)
Rearranged(b) == FullSmall(FullLarge(DeleteSmall([b EXCEPT !.result = ByQuality(b, FALSE) \o ByQuality(b, TRUE)])))
Balance(weights, processors_num) ==
  LET m == Min({processors_num, Len(weights)})
      b == [m |-> m, sum |-> TotalOf(weights), result |-> Dealt(weights, m),
            deleted_large |-> <<>>, deleted_small |-> <<>>, large_procs_num |-> 0]
      result == IF weights = <<>> THEN <<>> ELSE Rearranged(DeleteLarge(b))
  IN [i \in 1 .. processors_num |-> IF i <= m THEN result[i].weights ELSE <<>>]
-----------------------------------------------------------------------------
(* GfdValidator.  The candidates for the center of a pattern are shared    *)
(* out to the threads, which make a message of each, weighted with the     *)
(* size of what is around it.                                              *)
GetPartition(candidates, threads_num) ==
  LET musthave == Len(candidates) \div threads_num
      oversized_num == Len(candidates) % threads_num
      To(i) == i * musthave + Min({i, oversized_num})
  IN [i \in 1 .. threads_num |-> SubSeq(candidates, To(i - 1) + 1, To(i))]
GetCandidates(g, label) == Ascending({v \in Vertices(g) : g.label[v] = label})
Around(g, v, radius) ==
  LET Reached[k \in 0 .. radius] ==
        IF k = 0 THEN {v} ELSE Reached[k - 1] \cup UNION {Adjacent(g, u) : u \in Reached[k - 1]}
  IN Reached[radius]
Eccentricity(g, v) == Min({k \in Vertices(g) : Around(g, v, k) = Vertices(g)})
Radius(q) == Min({Eccentricity(q, v) : v \in Vertices(q)})
GetCenter(q) == Min({v \in Vertices(q) : Eccentricity(q, v) = Radius(q)})

Weight(g, around) == Cardinality(around) + 2 * Cardinality({e \in DOMAIN g.edges : e \subseteq around})
MessagesFor(g, gfds, i, part) ==
  [k \in DOMAIN part |->
     [gfd |-> i, center |-> GetCenter(gfds[i].pattern), candidate |-> part[k],
      weight |-> Weight(g, Around(g, part[k], Radius(gfds[i].pattern)))]]
CalculateMessages(g, gfds, threads_num, t) ==
  FlattenSeq([i \in DOMAIN gfds |->
    MessagesFor(g, gfds, i,
      GetPartition(GetCandidates(g, gfds[i].pattern.label[GetCenter(gfds[i].pattern)]), threads_num)[t])])
(* Of a weight the messages of the first thread that has any are kept, and *)
(* the first of them is handed on.                                         *)
WeightsOf(messages) == {m.weight : m \in ToSet(messages)}
MessageOf(messages, weight) ==
  LET first == Min({t \in DOMAIN messages : weight \in WeightsOf(messages[t])})
  IN Head(SelectSeq(messages[first], LAMBDA m : m.weight = weight))
IsUnsatisfied(g, gfd, message) ==
  \E f \in PinnedAt(gfd.pattern, g, message.center, message.candidate) : Violates(g, gfd, f)
Unsatisfied(g, gfds, messages, balanced) ==
  {i \in DOMAIN gfds :
     \E t \in DOMAIN balanced : \E weight \in ToSet(balanced[t]) :
       LET message == MessageOf(messages, weight) IN message.gfd = i /\ IsUnsatisfied(g, gfds[i], message)}
AllMessages(g, gfds, threads_num) == Tuple([t \in 1 .. threads_num |-> CalculateMessages(g, gfds, threads_num, t)])
BalancedWeights(messages) ==
  Balance(Ascending(UNION {WeightsOf(messages[t]) : t \in DOMAIN messages}), Len(messages))
SatisfiedOf(g, gfds, messages) == DOMAIN gfds \ Unsatisfied(g, gfds, messages, BalancedWeights(messages))
GenerateSatisfiedGfds(g, gfds, threads_num) == SatisfiedOf(g, gfds, AllMessages(g, gfds, threads_num))
-----------------------------------------------------------------------------
(* EGfdValidator.  The pattern is a core and trees that hang on it.  What  *)
(* moved up to a root before it comes itself takes its place.              *)
IsTree(q) == q.size = Cardinality(DOMAIN q.edges) + 1
FstStepForest(q) ==
  LET Leaves(u) == {v \in Adjacent(q, u) : Degree(q, v) = 1}
  IN [u \in {v \in Vertices(q) : Leaves(v) # {}} |-> [tree |-> Leaves(u), amount |-> Cardinality(Leaves(u))]]
IsInner(q, forest, u) == Degree(q, u) = forest[u].amount + 1
MoveUp(q, forest, temp, u) ==
  LET above == Min(Adjacent(q, u) \ forest[u].tree)
      tree == forest[u].tree \cup {u}
  IN IF ~IsInner(q, forest, u) THEN temp @@ u :> forest[u]
     ELSE IF above \notin DOMAIN temp THEN temp @@ above :> [tree |-> tree, amount |-> 1]
     ELSE [temp EXCEPT ![above] = [tree |-> @.tree \cup tree, amount |-> @.amount + 1]]
RECURSIVE BuildForest(_, _)
BuildForest(q, forest) ==
  IF \A u \in DOMAIN forest : ~IsInner(q, forest, u) THEN forest
  ELSE BuildForest(q, FoldLeft(LAMBDA temp, u : MoveUp(q, forest, temp, u), <<>>, Ascending(DOMAIN forest)))
CfDecompose(q) ==
  LET forest == BuildForest(q, FstStepForest(q))
      roots == Ascending(DOMAIN forest)
  IN IF IsTree(q) THEN [core |-> Vertices(q), forest |-> <<>>]
     ELSE [core |-> Vertices(q) \ UNION {forest[u].tree : u \in DOMAIN forest},
           forest |-> Tuple([k \in DOMAIN roots |-> forest[roots[k]].tree \cup {roots[k]}])]

(* CandVerify: as many neighbours of each label, and one of such a degree. *)
Mnd(g, v) == Max({Degree(g, u) : u \in Adjacent(g, v)} \cup {0})
LabelDegree(g, v, label) == Cardinality({u \in Adjacent(g, v) : g.label[u] = label})
CandVerify(g, v, q, u) ==
  /\ Mnd(g, v) >= Mnd(q, u)
  /\ \A w \in Adjacent(q, u) : LabelDegree(g, v, q.label[w]) >= LabelDegree(q, u, q.label[w])

(* The root: the fewest candidates by edge of its own.                     *)
Complexity(g, q, u) ==
  Cardinality({v \in Vertices(g) : g.label[v] = q.label[u] /\ Degree(g, v) >= Degree(q, u)}) \div Degree(q, u)
AccurateComplexity(g, q, u) ==
  Cardinality({v \in Vertices(g) : g.label[v] = q.label[u] /\ CandVerify(g, v, q, u)}) \div Degree(q, u)
GetRoot(g, q, core) ==
  LET order == StableSort(Ascending(core), LAMBDA a, b : Complexity(g, q, a) < Complexity(g, q, b))
  IN MinElement(SubSeq(order, 1, Min({Len(order), 3})),
                LAMBDA a, b : AccurateComplexity(g, q, a) < AccurateComplexity(g, q, b))

(* BfsTree: the level of each vertex, its parent, and the edges that are   *)
(* not of the tree.                                                        *)
LevelOf(q, root, v) == Min({k \in 0 .. q.size : v \in Around(q, root, k)})
MakeLevels(q, root) ==
  [level |-> [v \in Vertices(q) |-> LevelOf(q, root, v)],
   parent |-> [v \in Vertices(q) \ {root} |->
                 Min({u \in Adjacent(q, v) : LevelOf(q, root, u) = LevelOf(q, root, v) - 1})]]
MakeNte(q, parent) ==
  {e \in DOMAIN q.edges : e \subseteq DOMAIN parent /\ \A u \in e : parent[u] \notin e}

(* The index: a set of candidates for each vertex of the pattern, and for  *)
(* each edge of the tree from a candidate of the upper vertex to those of  *)
(* the lower one.  What has a neighbour in each of the sets:               *)
Supported(g, q, u, sets) ==
  {v \in Vertices(g) :
     sets # {} => /\ g.label[v] = q.label[u] /\ Degree(g, v) >= Degree(q, u)
                  /\ \A S \in sets : Adjacent(g, v) \cap S # {}}
DirectConstruction(g, q, tree, candidates, u) ==
  LET visited == {w \in Adjacent(q, u) : tree.level[w] < tree.level[u] \/ (tree.level[w] = tree.level[u] /\ w < u)}
  IN [candidates EXCEPT ![u] = {v \in Supported(g, q, u, {candidates[w] : w \in visited}) : CandVerify(g, v, q, u)}]
ReverseConstruction(g, q, tree, candidates, u) ==
  LET unvisited == {w \in Adjacent(q, u) : tree.level[w] = tree.level[u] /\ w > u}
  IN [candidates EXCEPT ![u] = @ \cap Supported(g, q, u, {candidates[w] : w \in unvisited})]
EdgeMap(g, q, up, u, candidates) ==
  LET Lower(vp) == {v \in Adjacent(g, vp) \cap candidates[u] :
                      /\ g.label[v] = q.label[u] /\ Degree(g, v) >= Degree(q, u)
                      /\ q.edges[{up, u}] = g.edges[{vp, v}]}
  IN [vp \in {v \in candidates[up] : Lower(v) # {}} |-> Lower(vp)]
LevelAt(q, tree, k) == {v \in Vertices(q) : tree.level[v] = k}
ConstructLevel(g, q, tree, candidates, level) ==
  LET direct == FoldLeft(LAMBDA c, u : DirectConstruction(g, q, tree, c, u), candidates, level)
  IN FoldLeft(LAMBDA c, u : ReverseConstruction(g, q, tree, c, u), direct, Reverse(level))
CandidatesOf(g, q, root, tree) ==
  LET first == [u \in Vertices(q) |->
                  IF u # root THEN {}
                  ELSE {v \in Vertices(g) : /\ g.label[v] = q.label[u] /\ Degree(g, v) >= Degree(q, u)
                                            /\ CandVerify(g, v, q, u)}]
      levels == Tuple([k \in 1 .. Max({tree.level[v] : v \in Vertices(q)}) |-> Ascending(LevelAt(q, tree, k))])
  IN FoldLeft(LAMBDA c, level : ConstructLevel(g, q, tree, c, level), first, levels)
CpiOf(g, q, tree, candidates) ==
  LET Made(u) == EdgeMap(g, q, tree.parent[u], u, candidates)
      made == {u \in DOMAIN tree.parent : DOMAIN Made(u) # {}}
  IN [candidates |-> candidates, missing |-> FALSE, undefined |-> FALSE,
      cpi |-> [e \in {<<tree.parent[u], u>> : u \in made} |-> Made(e[2])]]
TopDownConstruct(g, q, root, tree) == CpiOf(g, q, tree, CandidatesOf(g, q, root, tree))

(* Level by level from below: what has no candidate under it goes, with    *)
(* all entries of that name; missing: at() has thrown.  To take what has   *)
(* gone out of a list of candidates, the list is erased from by the loop   *)
(* that goes through it, and what the loop does next is undefined: where   *)
(* nothing is undefined, no list has changed.                              *)
ChildrenOf(parent, u) == {w \in DOMAIN parent : parent[w] = u}
HasEntry(cpi, e, v) == e \in DOMAIN cpi /\ v \in DOMAIN cpi[e]
OddDeletion(x, u, kept) ==
  [x EXCEPT !.candidates[u] = kept,
            !.cpi = [e \in DOMAIN @ |-> [v \in DOMAIN @[e] \ (x.candidates[u] \ kept) |-> @[e][v]]]]
FinalRefinement(x, u, children) ==
  LET own == {<<u, w>> : w \in children}
      Erased(e, v) == HasEntry(x.cpi, e, v) /\ x.cpi[e][v] \ x.candidates[e[2]] # {}
  IN [x EXCEPT !.undefined = @ \/ (~x.missing /\ \E e \in own, v \in x.candidates[u] : Erased(e, v)),
               !.missing = @ \/ \E e \in own, v \in x.candidates[u] : ~HasEntry(x.cpi, e, v)]
RefineAt(g, q, parent, x, u) ==
  LET children == ChildrenOf(parent, u)
      kept == x.candidates[u] \cap Supported(g, q, u, {x.candidates[w] : w \in children})
  IN FinalRefinement(OddDeletion(x, u, kept), u, children)
BottomUpRefinement(g, q, tree, x) ==
  FoldLeft(LAMBDA acc, u : RefineAt(g, q, tree.parent, acc, u), x,
           StableSort(Ascending(Vertices(q)), LAMBDA a, b : tree.level[a] > tree.level[b]))

(* GetPaths: from the top of some vertices down to each leaf.              *)
RECURSIVE PathTo(_, _, _)
PathTo(u, indices, parent) ==
  IF u \in DOMAIN parent /\ u \in indices /\ parent[u] \in indices
  THEN Append(PathTo(parent[u], indices, parent), u) ELSE <<u>>
GetPaths(indices, parent) ==
  LET keys == indices \cap DOMAIN parent
      leaves == Ascending(keys \ {parent[u] : u \in keys})
  IN Tuple([i \in DOMAIN leaves |-> PathTo(leaves[i], indices, parent)])

(* NumOfEmbeddings of a path from some vertex of it on.                    *)
RECURSIVE NumFrom(_, _, _, _)
NumFrom(cpi, path, i, can) ==
  IF i = Len(path) THEN 1
  ELSE Total(LAMBDA v : NumFrom(cpi, path, i + 1, v), cpi[<<path[i], path[i + 1]>>][can])
At(path, u) == Min({i \in DOMAIN path : path[i] = u})
NumOfEmbeddings(cpi, path, origin) ==
  LET i == At(path, origin)
  IN Total(LAMBDA can : NumFrom(cpi, path, i, can), DOMAIN cpi[<<path[i], path[i + 1]>>])
CandidatesCardinality(cpi, u) ==
  LET below == {e[2] : e \in {d \in DOMAIN cpi : d[1] = u}}
  IN IF below = {} THEN 1 ELSE Cardinality(DOMAIN cpi[<<u, Min(below)>>])
NtsOf(path, nte) == Cardinality({e \in nte : e \cap ToSet(path) # {}})

(* MatchingOrder: the path that promises least first, and then, again and  *)
(* again, the rest of another one where it leaves what is there.           *)
Common(s, t) == Max({k \in 0 .. Min({Len(s), Len(t)}) : \A i \in 1 .. k : s[i] = t[i]})
BuildOptimalSeq(cpi, paths, nte) ==
  MinElement(paths, LAMBDA a, b :
    /\ NtsOf(a, nte) # 0
    /\ NtsOf(b, nte) # 0 => NumOfEmbeddings(cpi, a, a[1]) \div NtsOf(a, nte) <
                            NumOfEmbeddings(cpi, b, b[1]) \div NtsOf(b, nte))
OriginOf(path, pi) == IF path = pi THEN path[1] ELSE path[Common(path, pi)]
PerCandidate(cpi, path, origin) == NumOfEmbeddings(cpi, path, origin) \div CandidatesCardinality(cpi, origin)
BuildAccurateOptimalSeq(cpi, paths, pi) ==
  MinElement(paths, LAMBDA a, b : PerCandidate(cpi, a, OriginOf(a, pi)) < PerCandidate(cpi, b, OriginOf(b, pi)))
Insert(seq, path) ==
  LET k == Common(seq, path) IN SubSeq(seq, 1, k) \o SubSeq(path, k + 1, Len(path)) \o SubSeq(seq, k + 1, Len(seq))
RECURSIVE InsertPaths(_, _, _, _)
InsertPaths(cpi, paths, pi, seq) ==
  IF paths = <<>> THEN seq
  ELSE LET next == BuildAccurateOptimalSeq(cpi, paths, pi)
       IN InsertPaths(cpi, SelectSeq(paths, LAMBDA p : p # next), pi, Insert(seq, next))
MatchingOrder(cpi, paths, nte) ==
  LET pi == BuildOptimalSeq(cpi, paths, nte) IN InsertPaths(cpi, SelectSeq(paths, LAMBDA p : p # pi), pi, pi)
CompleteSeq(cpi, d, parent, nte) ==
  MatchingOrder(cpi, GetPaths(d.core, parent), nte) \o
  FlattenSeq([k \in DOMAIN d.forest |-> Tail(MatchingOrder(cpi, GetPaths(d.forest[k], parent), nte))])

(* The search.  For each place of the order what is still to be tried, the *)
(* first of it being tried: nothing where the search has not come.         *)
ListAt(w, match, i) ==
  LET up == w.parent[w.seq[i]] IN Ascending(w.cpi[<<up, w.seq[i]>>][Head(match[At(w.seq, up)])])
Visited(match, v, i) == \E j \in DOMAIN match \ {i} : match[j] # <<>> /\ Head(match[j]) = v
(* Mutant: the vertex before is not looked at                              *)
BugValidateNt(w, match, v, i) ==
  \A j \in 1 .. At(w.seq, w.seq[i]) - 2 :
    LET e == {w.seq[j], w.seq[i]}
    IN w.seq[j] # w.parent[w.seq[i]] /\ e \in DOMAIN w.q.edges =>
         /\ {Head(match[j]), v} \in DOMAIN w.g.edges
         /\ w.g.edges[{Head(match[j]), v}] = w.q.edges[e]

ValidateNt(w, match, v, i) ==
  \A j \in 1 .. At(w.seq, w.seq[i]) - 1 :
    LET e == {w.seq[j], w.seq[i]}
    IN w.seq[j] # w.parent[w.seq[i]] /\ e \in DOMAIN w.q.edges =>
         /\ {Head(match[j]), v} \in DOMAIN w.g.edges
         /\ w.g.edges[{Head(match[j]), v}] = w.q.edges[e]

Advanced(w, match, i, list) ==
  LET fits == {k \in DOMAIN list : ~Visited(match, list[k], i) /\ (i > w.core \/ ValidateNt(w, match, list[k], i))}
  IN [match EXCEPT ![i] = IF fits = {} THEN <<>> ELSE SubSeq(list, Min(fits), Len(list))]
(* IncrementMatch, and the same for the trees in CheckMatch: like an       *)
(* odometer, from place i, between the places lo and hi.                   *)
RECURSIVE IncrementMatch(_, _, _, _, _)
IncrementMatch(w, match, i, lo, hi) ==
  IF i < lo \/ i > hi THEN [match |-> match, i |-> i]
  ELSE LET next == Advanced(w, match, i, IF match[i] = <<>> THEN ListAt(w, match, i) ELSE Tail(match[i]))
       IN IncrementMatch(w, next, IF next[i] = <<>> THEN i - 1 ELSE i + 1, lo, hi)
Image(w, match) == [u \in {x \in ToSet(w.seq) : match[At(w.seq, x)] # <<>>} |-> Head(match[At(w.seq, u)])]
IsViolated(w, match) == Violates(w.g, w.gfd, Image(w, match))
(* FullMatch and CheckTrivially take the first that fits at each place and *)
(* give up if there is none.                                               *)
FirstFits(w, match, places) ==
  FoldLeft(LAMBDA x, i : IF x.failed THEN x
                         ELSE LET next == Advanced(w, x.match, i, ListAt(w, x.match, i))
                              IN [match |-> next, failed |-> next[i] = <<>>],
           [match |-> match, failed |-> FALSE], places)
Places(from, to) == [i \in 1 .. to - from + 1 |-> from + i - 1]
RECURSIVE CheckMatch(_, _)
CheckMatch(w, match) ==
  LET next == IncrementMatch(w, match, Len(w.seq), w.core + 1, Len(w.seq))
  IN next.i > w.core => ~IsViolated(w, next.match) /\ CheckMatch(w, next.match)
RECURSIVE CheckNext(_, _)
CheckNext(w, match) ==
  LET next == IncrementMatch(w, match, w.core, 1, w.core)
      trees == FirstFits(w, next.match, Places(w.core + 1, Len(w.seq)))
  IN \/ next.i = 0
     \/ w.core = Len(w.seq) /\ ~IsViolated(w, next.match) /\ CheckNext(w, next.match)
     \/ w.core < Len(w.seq) /\ (trees.failed \/ (CheckMatch(w, trees.match) /\ CheckNext(w, next.match)))
Check(w) ==
  LET roots == Ascending(DOMAIN w.cpi[<<w.seq[1], w.seq[2]>>])
      first == FirstFits(w, [i \in DOMAIN w.seq |-> IF i = 1 THEN roots ELSE <<>>], Places(2, w.core))
  IN first.failed \/ (~IsViolated(w, first.match) /\ CheckNext(w, first.match))

(* Where an entry is missing that the search may ask for, at() throws.     *)
MayThrow(x, parent) ==
  \/ x.missing
  \/ \E u \in DOMAIN parent :
       LET e == <<parent[u], u>>
           reached == UNION {UNION {x.cpi[d][v] : v \in DOMAIN x.cpi[d]} : d \in {d \in DOMAIN x.cpi : d[2] = e[1]}}
           siblings == UNION {DOMAIN x.cpi[d] : d \in {d \in DOMAIN x.cpi : d[1] = e[1]}}
       IN e \notin DOMAIN x.cpi \/ DOMAIN x.cpi[e] = {} \/ \E v \in reached \cup siblings : ~HasEntry(x.cpi, e, v)
Answer(g, gfd, d, parent, x) ==
  IF x.undefined THEN "undefined" ELSE IF MayThrow(x, parent) THEN "throws"
  ELSE IF Check([g |-> g, q |-> gfd.pattern, gfd |-> gfd, parent |-> parent, cpi |-> x.cpi, core |-> Cardinality(d.core),
                 seq |-> CompleteSeq(x.cpi, d, parent, MakeNte(gfd.pattern, parent))])
       THEN "satisfied" ELSE "violated"
RefinedCpi(g, q, root, tree) == BottomUpRefinement(g, q, tree, TopDownConstruct(g, q, root, tree))
CpiFor(g, q) ==
  LET root == GetRoot(g, q, CfDecompose(q).core) IN RefinedCpi(g, q, root, MakeLevels(q, root))
EgfdValidate(g, gfd) ==
  LET q == gfd.pattern
      d == CfDecompose(q)
      tree == MakeLevels(q, GetRoot(g, q, d.core))
  IN IF \E u \in Vertices(q) : \A v \in Vertices(g) : g.label[v] # q.label[u] THEN "satisfied"
     ELSE Answer(g, gfd, d, tree.parent, CpiFor(g, q))
-----------------------------------------------------------------------------
(* The balancer hands out every weight, and none twice.                    *)
BalanceIsRight(weights, processors_num) ==
  LET balanced == FlattenSeq(Balance(weights, processors_num))
  IN StableSort(balanced, <) = weights

(* The naive validator finds the dependencies that hold, if the second     *)
(* token of no literal is at another vertex than the first.                *)
Holds(g, gfd) == \A f \in SubgraphIsos(gfd.pattern, g) : ~Violates(g, gfd, f)
NaiveIsRight(g, gfd) ==
  SecondAtFirst(gfd.premises \o gfd.conclusion) = gfd.premises \o gfd.conclusion => (NaiveValidate(g, gfd) <=> Holds(g, gfd))

(* The validator with threads finds all that hold, and no other if no two  *)
(* messages have one weight.                                               *)
WeightsDiffer(messages) ==
  Cardinality(UNION {WeightsOf(messages[t]) : t \in DOMAIN messages}) = TotalOf([t \in DOMAIN messages |-> Len(messages[t])])
GfdValidatorIsRight(g, gfds, threads_num) ==
  LET satisfied == GenerateSatisfiedGfds(g, gfds, threads_num)
      holding == {i \in DOMAIN gfds : Holds(g, gfds[i])}
  IN holding \subseteq satisfied /\ (WeightsDiffer(AllMessages(g, gfds, threads_num)) => satisfied = holding)

(* Where making the index has no undefined behaviour: what is said to be   *)
(* violated is; the index has every image of a pattern whose labels        *)
(* differ, extra edges allowed; and if the pattern is a tree and has an    *)
(* image, the answer is right.                                             *)
Images(q, g) == ImagesOf(q, g, LAMBDA u, v : q.label[u] = g.label[v], FALSE)
LabelsDiffer(q) == \A u, v \in Vertices(q) : u # v => q.label[u] # q.label[v]
InIndex(x, f) ==
  /\ \A u \in DOMAIN f : f[u] \in x.candidates[u]
  /\ \A e \in DOMAIN x.cpi : f[e[2]] \in x.cpi[e][f[e[1]]]
EgfdIsRight(g, gfd) ==
  LET images == Images(gfd.pattern, g)
      violated == \E f \in images : Violates(g, gfd, f)
      answer == EgfdValidate(g, gfd)
  IN /\ answer = "violated" => violated
     /\ LabelsDiffer(gfd.pattern) /\ images # {} /\ answer # "undefined" =>
          /\ answer # "throws" /\ \A f \in images : InIndex(CpiFor(g, gfd.pattern), f)
          /\ IsTree(gfd.pattern) => answer = IF violated THEN "violated" ELSE "satisfied"
=============================================================================
