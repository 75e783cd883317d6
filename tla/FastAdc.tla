------------------------------- MODULE FastAdc ------------------------------
(***************************************************************************)
(* Denial constraints by FastADC (dc/FastADC): the predicate space, the    *)
(* indexes of the shards, what they say of every pair of rows (the clues,  *)
(* from which the evidences follow), the search that inverts the           *)
(* evidences, and the minimization of what it finds.                       *)
(* A relation is its rows and the set of its numeric columns; the others   *)
(* hold strings, which are compared for equality only.  A clue is the set  *)
(* of its bits, a bit a pair of columns with "eq" or "gt"; the arrays of   *)
(* clues are the pairs of rows that have a bit.  A constraint is the set   *)
(* of its predicates, which no pair of rows satisfies all.  A fraction is  *)
(* a pair of numerator and denominator.  Below the line is what is looked  *)
(* for, by definition.                                                     *)
(***************************************************************************)
EXTENDS Integers, Sequences, FiniteSets, FiniteSetsExt, SequencesExt

Sum(f(_), S) == FoldSet(LAMBDA x, acc : f(x) + acc, 0, S)
Tuple(s) == SubSeq(s, 1, Len(s))
(* The same for sets small enough: each at the place of the number of      *)
(* those before it.                                                        *)
Sorted(S, less(_, _)) ==
  Tuple([i \in 1 .. Cardinality(S) |-> CHOOSE x \in S : Cardinality({y \in S : less(y, x)}) = i - 1])

(* Operators (model/operator.h).                                           *)
AllOperators == <<"eq", "ne", "gt", "lt", "ge", "le">>
InverseOperator == [eq |-> "ne", ne |-> "eq", gt |-> "le", lt |-> "ge", ge |-> "lt", le |-> "gt"]
SymmetricOperator == [eq |-> "eq", ne |-> "ne", gt |-> "lt", lt |-> "gt", ge |-> "le", le |-> "ge"]
ImpliedOperators ==
  [eq |-> {"eq", "ge", "le"}, ne |-> {"ne"}, gt |-> {"gt", "ge", "ne"}, lt |-> {"lt", "le", "ne"},
   ge |-> {"ge"}, le |-> {"le"}]
TransitiveOperators ==
  [eq |-> {"eq"}, ne |-> {"eq"}, gt |-> {"gt", "ge", "eq"}, lt |-> {"lt", "le", "eq"},
   ge |-> {"gt", "ge", "eq"}, le |-> {"lt", "le", "eq"}]
Eval(op, a, b) == [eq |-> a = b, ne |-> a # b, gt |-> a > b, lt |-> a < b, ge |-> a >= b, le |-> a <= b][op]

(* Predicates: an operand is a column of the first row or of the second.   *)
Operand(row, c) == <<row, c>>
Predicate(op, left, right) == [op |-> op, left |-> left, right |-> right]
InvertedRow == [t |-> "s", s |-> "t"]
InvTS(p) == Predicate(p.op, <<InvertedRow[p.left[1]], p.left[2]>>, <<InvertedRow[p.right[1]], p.right[2]>>)
SymmetricOf(p) == Predicate(SymmetricOperator[p.op], p.right, p.left)
InverseOf(p) == [p EXCEPT !.op = InverseOperator[@]]
ImplicationsOf(p) == {[p EXCEPT !.op = o] : o \in ImpliedOperators[p.op]}
HasSameOperandsAs(p, q) == p.left = q.left /\ p.right = q.right
IsCrossColumn(g) == g.i # g.j

(* The predicate space (PredicateBuilder): columns that share values are   *)
(* joined, numeric ones whose averages are close enough compared.          *)
Frequency(r, c, v) == Cardinality({k \in DOMAIN r.rows : r.rows[k][c] = v})
MinOf(a, b) == IF a < b THEN a ELSE b
MaxOf(a, b) == IF a < b THEN b ELSE a
Exceeds(a, b, least) == b # 0 /\ (IF b > 0 THEN a * least[2] > least[1] * b ELSE a * least[2] < least[1] * b)
SharedExceeds(r, i, j, least) ==
  LET values == {r.rows[k][i] : k \in DOMAIN r.rows}
  IN Exceeds(Sum(LAMBDA v : MinOf(Frequency(r, i, v), Frequency(r, j, v)), values),
             Sum(LAMBDA v : MaxOf(Frequency(r, i, v), Frequency(r, j, v)), values), least)
Total(r, c) == Sum(LAMBDA k : r.rows[k][c], DOMAIN r.rows)
AverageExceeds(r, i, j, least) ==
  Exceeds(MinOf(Total(r, i), Total(r, j)), MaxOf(Total(r, i), Total(r, j)), least)
SameType(r, i, j) == (i \in r.numeric) = (j \in r.numeric)
IsJoinable(r, i, j, o) ==
  IF ~o.allow_cross_columns THEN i = j
  ELSE SameType(r, i, j) /\ (i = j \/ SharedExceeds(r, i, j, o.minimum_shared_value))
IsComparable(r, i, j, o) ==
  IF ~o.allow_cross_columns THEN i = j /\ i \in r.numeric
  ELSE SameType(r, i, j) /\ i \in r.numeric /\ (i = j \/ AverageExceeds(r, i, j, o.comparable_threshold))
Group(i, j, comparable) == [i |-> i, j |-> j, comparable |-> comparable]
ColumnsOf(r) == DOMAIN r.rows[1]
Groups(r, o) ==
  LET pairs == {x \in ColumnsOf(r) \X ColumnsOf(r) : x[1] <= x[2] /\ (IsJoinable(r, x[1], x[2], o) \/ IsComparable(r, x[1], x[2], o))}
      order == Sorted(pairs, LAMBDA x, y : x[1] < y[1] \/ (x[1] = y[1] /\ x[2] < y[2]))
  IN Tuple([k \in DOMAIN order |-> Group(order[k][1], order[k][2], IsComparable(r, order[k][1], order[k][2], o))])
OperatorsOf(g) == IF g.comparable THEN AllOperators ELSE <<"eq", "ne">>
PredicatesOf(g) ==
  Tuple([k \in DOMAIN OperatorsOf(g) |-> Predicate(OperatorsOf(g)[k], Operand("t", g.i), Operand("s", g.j))])
BuildPredicateSpace(groups) == FoldLeft(LAMBDA ps, g : ps \o PredicatesOf(g), <<>>, groups)

(* The shards and their indexes (PliShardBuilder): keys keep the order of  *)
(* numbers, and are gone through from the greatest.                        *)
NumShards(n, length) == (n - 1) \div length + 1
Shard(n, length, k) == (k - 1) * length + 1 .. MinOf(n, k * length)
Pli(r, c, shard) ==
  LET keys == {r.rows[k][c] : k \in shard}
  IN [keys |-> Sorted(keys, LAMBDA a, b : a > b), clusters |-> [v \in keys |-> {k \in shard : r.rows[k][c] = v}]]
At(pli, i) == pli.clusters[pli.keys[i]]
GetFirstIndexWhereKeyIsLTE(keys, target, l) ==
  Min({i \in l .. Len(keys) : keys[i] <= target} \cup {Len(keys) + 1})
From(pli, j) == UNION {At(pli, k) : k \in j .. Len(pli.keys)}
UpToKey(pli, j) == UNION {At(pli, k) : k \in 1 .. j - 1}

(* The pairs of rows a bit is set for, one shard with itself or with       *)
(* another.                                                                *)
PairsOf(K, L) == {x \in K \X L : x[1] # x[2]}
Reversed(S) == {<<x[2], x[1]>> : x \in S}
CorrectStr(pivot, probe) ==
  UNION {PairsOf(pivot.clusters[v], probe.clusters[v]) : v \in DOMAIN pivot.clusters \cap DOMAIN probe.clusters}
Found(eq, gt) == [eq |-> eq, gt |-> gt]
CorrectNumSingle(pli) ==
  Found(UNION {PairsOf(At(pli, i), At(pli, i)) : i \in DOMAIN pli.keys},
        UNION {PairsOf(At(pli, i), From(pli, i + 1)) : i \in DOMAIN pli.keys})
Walked(s, pivot, probe, i, j, equal) ==
  [s EXCEPT !.j = j + equal, !.eq = IF equal = 1 THEN @ \cup PairsOf(At(pivot, i), At(probe, j)) ELSE @,
            !.gt = @ \cup PairsOf(At(pivot, i), From(probe, j + equal)),
            !.less = @ \cup PairsOf(UpToKey(probe, j), At(pivot, i))]
AllLess(s, pivot, probe, i) == [s EXCEPT !.end = TRUE, !.less = @ \cup PairsOf(From(probe, 1), From(pivot, i))]
NumStep(s, pivot, probe, i, j) ==
  IF j > Len(probe.keys) THEN AllLess(s, pivot, probe, i)
  ELSE Walked(s, pivot, probe, i, j, IF pivot.keys[i] = probe.keys[j] THEN 1 ELSE 0)
NumWalk(pivot, probe) ==
  FoldLeft(LAMBDA s, i : IF s.end THEN s
                         ELSE NumStep(s, pivot, probe, i, GetFirstIndexWhereKeyIsLTE(probe.keys, pivot.keys[i], s.j)),
           [j |-> 1, eq |-> {}, gt |-> {}, less |-> {}, end |-> FALSE], [i \in DOMAIN pivot.keys |-> i])
CorrectNumCross(pivot, probe) == LET w == NumWalk(pivot, probe) IN Found(w.eq, w.gt)
CorrectNumSingleOf(pivot, probe) ==
  LET w == NumWalk(pivot, probe) IN Found(w.eq \cup Reversed(w.eq), w.gt \cup w.less)
Joined(f, g) == Found(f.eq \cup g.eq, f.gt \cup g.gt)
SingleFound(plis, g) ==
  IF ~g.comparable THEN Found(CorrectStr(plis[g.i], plis[g.j]), {})
  ELSE IF IsCrossColumn(g) THEN CorrectNumCross(plis[g.i], plis[g.j])
  ELSE CorrectNumSingle(plis[g.i])
CrossFound(plis1, plis2, g) ==
  IF ~g.comparable THEN Found(CorrectStr(plis1[g.i], plis2[g.j]) \cup CorrectStr(plis2[g.i], plis1[g.j]), {})
  ELSE IF IsCrossColumn(g)
       THEN Joined(CorrectNumCross(plis1[g.i], plis2[g.j]), CorrectNumCross(plis2[g.i], plis1[g.j]))
  ELSE CorrectNumSingleOf(plis1[g.i], plis2[g.j])

(* The clues of two shards, with how many pairs of rows have them.  Pairs  *)
(* of a row with itself have no bit, and are taken off again.              *)
BitsOf(found, x, g) == {<<g.i, g.j, b>> : b \in {b \in {"eq", "gt"} : x \in found[b]}}
ClueOf(found, x, groups) == UNION {BitsOf(found[k], x, groups[k]) : k \in DOMAIN groups}
Count(clues, pairs) == [c \in {clues[x] : x \in pairs} |-> Cardinality({x \in pairs : clues[x] = c})]
AccumulateClues(found, pairs, groups) == Count([x \in pairs |-> ClueOf(found, x, groups)], pairs)
WithoutReflex(counts, range) ==
  LET less == [counts EXCEPT ![{}] = @ - range] IN [c \in {c \in DOMAIN less : c # {} \/ less[c] # 0} |-> less[c]]
Plis(r, shard) == [c \in ColumnsOf(r) |-> Pli(r, c, shard)]
SingleClueSet(plis, shard, groups) ==
  WithoutReflex(AccumulateClues([k \in DOMAIN groups |-> SingleFound(plis, groups[k])], shard \X shard, groups),
                Cardinality(shard))
CrossClueSet(plis1, plis2, shard1, shard2, groups) ==
  AccumulateClues([k \in DOMAIN groups |-> CrossFound(plis1, plis2, groups[k])],
                  (shard1 \X shard2) \cup (shard2 \X shard1), groups)
Merge(counts, more) ==
  [c \in DOMAIN counts \cup DOMAIN more |->
     (IF c \in DOMAIN counts THEN counts[c] ELSE 0) + (IF c \in DOMAIN more THEN more[c] ELSE 0)]

(* A pool runs over the pairs of shards by their numbers, a loop otherwise.*)
(* What each thread counts is added up in the end.                         *)
TasksBefore(i, n) == (i * (2 * n - i + 1)) \div 2
TaskIdToIndices(task, n) ==
  LET i == Min({k \in 0 .. n : k = n \/ TasksBefore(k + 1, n) > task}) IN <<i, i + task - TasksBefore(i, n)>>
TaskCount(n) == (n * (n + 1)) \div 2
Tasks(n, threads) ==
  IF threads /\ TaskCount(n) > 1 THEN {TaskIdToIndices(id, n) : id \in 0 .. TaskCount(n) - 1}
  ELSE {x \in (0 .. n - 1) \X (0 .. n - 1) : x[1] <= x[2]}
TaskClueSet(plis, shards, task, groups) ==
  IF task[1] = task[2] THEN SingleClueSet(plis[task[1] + 1], shards[task[1] + 1], groups)
  ELSE CrossClueSet(plis[task[1] + 1], plis[task[2] + 1], shards[task[1] + 1], shards[task[2] + 1], groups)
BuildClueSet(r, groups, shards, threads) ==
  LET plis == Tuple([k \in DOMAIN shards |-> Plis(r, shards[k])])
  IN FoldSet(LAMBDA task, counts : Merge(counts, TaskClueSet(plis, shards, task, groups)), [c \in {} |-> 0],
             Tasks(Len(shards), threads))
ShardsOf(r, o) ==
  LET length == IF o.shard_length = 0 THEN Len(r.rows) ELSE o.shard_length
  IN Tuple([k \in 1 .. NumShards(Len(r.rows), length) |-> Shard(Len(r.rows), length, k)])

(* The evidences: the predicates a pair with no bit satisfies, each bit    *)
(* turning over those that it decides.                                     *)
CardinalityMask(ps, groups) ==
  UNION {{k \in DOMAIN ps : /\ ps[k].left[2] = g.i /\ ps[k].right[2] = g.j
                            /\ ps[k].op \in IF g.comparable THEN {"ne", "lt", "le"} ELSE {"ne"}} : g \in Range(groups)}
DecidedBy(bit, comparable) ==
  IF bit[3] = "gt" THEN {"lt", "gt", "le", "ge"} ELSE IF comparable THEN {"eq", "ne", "lt", "ge"} ELSE {"eq", "ne"}
GroupOf(groups, bit) == CHOOSE g \in Range(groups) : g.i = bit[1] /\ g.j = bit[2]
CorrectionMask(ps, groups, bit) ==
  {k \in DOMAIN ps : /\ ps[k].left[2] = bit[1] /\ ps[k].right[2] = bit[2]
                     /\ ps[k].op \in DecidedBy(bit, GroupOf(groups, bit).comparable)}
Xor(X, Y) == (X \ Y) \cup (Y \ X)
Evidence(ps, groups, clue, count) ==
  [count |-> count,
   evidence |-> FoldSet(LAMBDA bit, e : Xor(e, CorrectionMask(ps, groups, bit)), CardinalityMask(ps, groups), clue)]
EvidenceSet(ps, groups, counts) == {Evidence(ps, groups, c, counts[c]) : c \in DOMAIN counts}
TotalCount(evidences) == Sum(LAMBDA e : e.count, evidences)

(* Predicates by coverage (PredicateOrganizer): those of few evidences     *)
(* come first, and the search has their places for names.                  *)
Coverage(evidences, k) == Cardinality({e \in evidences : k \in e.evidence})
CreateIndexArray(n, evidences) ==
  LET coverage == [k \in 1 .. n |-> Coverage(evidences, k)]
  IN Sorted(1 .. n, LAMBDA a, b : coverage[a] < coverage[b] \/ (coverage[a] = coverage[b] /\ a < b))
Transform(indexes, E) == {k \in DOMAIN indexes : indexes[k] \in E}
Retransform(indexes, E) == {indexes[k] : k \in E}
MutexMap(ps, indexes) ==
  Tuple([k \in DOMAIN indexes |-> {l \in DOMAIN indexes : HasSameOperandsAs(ps[indexes[k]], ps[indexes[l]])}])
(* The evidences by their counts; either order of equal ones is one that   *)
(* sorting may give.                                                       *)
SetBefore(X, Y) == X # Y /\ Min(Xor(X, Y)) \in X
ByCount(evidences, up) ==
  Sorted(evidences, LAMBDA d, e : d.count > e.count \/ (d.count = e.count /\ SetBefore(d.evidence, e.evidence) = up
                                                        /\ d.evidence # e.evidence))
TransformEvidenceSet(indexes, evidences) == {[e EXCEPT !.evidence = Transform(indexes, @)] : e \in evidences}

(* A trie of candidates: what may still be added to each.  It is gone      *)
(* through as sequences in ascending order, those that go on after those   *)
(* that end.                                                               *)
TrieBefore(X, Y) ==
  /\ X # Y
  /\ LET m == Min(Xor(X, Y)) IN IF m \in X THEN \E y \in Y : y > m ELSE ~\E x \in X : x > m
InOrder(S) == Sorted(S, TrieBefore)
Add(trie, X, cand) == [Y \in DOMAIN trie \cup {X} |-> IF Y = X THEN cand ELSE trie[Y]]
ContainsSubset(trie, X) == \E Y \in DOMAIN trie : Y \subseteq X
Generalizations(trie, evi) == {X \in DOMAIN trie : X \subseteq evi}
Only(trie, S) == [X \in S |-> trie[X]]
EmptyTrie == [X \in {} |-> {}]

(* The search: a node is an evidence that is still to be hit, by what its  *)
(* candidates have or by what is added to them; target is how many more    *)
(* pairs have to be.                                                       *)
Missed(evidences, X, e) ==
  FoldLeft(LAMBDA n, d : IF X \subseteq d.evidence THEN n ELSE n + d.count, 0, SubSeq(evidences, e, Len(evidences)))
IsApproxCover(evidences, X, e, target) == target <= 0 \/ Missed(evidences, X, e) >= target
Node(e, addable, trie, invalid, target) ==
  [e |-> e, addable |-> addable, dcs |-> trie, invalid |-> invalid, target |-> target]
Search(nodes, covers) == [nodes |-> nodes, covers |-> covers]

Unhit(evidences, e, target, trie, s, X) ==
  LET left == trie[X] \cap evidences[e].evidence
  IN IF left # {} THEN [s EXCEPT !.fresh = Add(@, X, left)]
     ELSE IF ~ContainsSubset(s.covers, X) /\ IsApproxCover(evidences, X, e + 1, target)
     THEN [s EXCEPT !.covers = Add(@, X, {})]
     ELSE s
Stopped(w) == [w EXCEPT !.stop = TRUE]
Fresh(w, u) == [w EXCEPT !.covers = u.covers, !.dcs = u.fresh, !.stop = u.fresh = EmptyTrie]
WalkOn(evidences, e, target, w, unhit, addable) ==
  IF addable = {} \/ Missed(evidences, addable, e + 1) < target THEN Stopped(w)
  ELSE Fresh([w EXCEPT !.addable = addable],
             FoldLeft(LAMBDA s, X : Unhit(evidences, e, target, w.dcs, s, X),
                      [fresh |-> EmptyTrie, covers |-> w.covers], InOrder(unhit)))
Pushed(w, e, unhit, target) ==
  [w EXCEPT !.nodes = Append(@, Node(e, w.addable, Only(w.dcs, DOMAIN w.dcs \ unhit), Only(w.dcs, unhit), target))]
WalkStep(evidences, target, w, e, unhit) ==
  IF unhit = {} THEN Stopped(Pushed(w, e, unhit, target))
  ELSE WalkOn(evidences, e, target, Pushed(w, e, unhit, target), unhit, w.addable \cap evidences[e].evidence)
Walk(evidences, s, e0, addable, trie, target) ==
  LET w == FoldLeft(LAMBDA w, e : IF w.stop THEN w
                                  ELSE WalkStep(evidences, target, w, e, Generalizations(w.dcs, evidences[e].evidence)),
                    [nodes |-> s.nodes, covers |-> s.covers, addable |-> addable, dcs |-> trie, stop |-> trie = EmptyTrie],
                    [k \in 1 .. Len(evidences) - e0 + 1 |-> e0 + k - 1])
  IN Search(w.nodes, w.covers)

Ascending(S) == Sorted(S, <)
(* What can be added to a candidate to hit the evidence, each in turn.     *)
AddEach(F(_, _, _), s, invalid, evi) ==
  FoldLeft(LAMBDA s1, X : FoldLeft(LAMBDA s2, i : F(s2, X, i), s1, Ascending(invalid[X] \ evi)), s,
           InOrder(DOMAIN invalid))
ProcessValidCandidates(covers, trie, invalid, evi) ==
  AddEach(LAMBDA c, X, i : IF ContainsSubset(c, X \cup {i}) THEN c ELSE Add(c, X \cup {i}, {}),
          [X \in DOMAIN covers \cup DOMAIN trie |-> {}], invalid, evi)
Extended(evidences, mutex, s, X, left, e, target) ==
  IF ContainsSubset(s.dcs, X) \/ ContainsSubset(s.covers, X) THEN s
  ELSE IF left # {} THEN [s EXCEPT !.dcs = Add(@, X, left)]
  ELSE IF IsApproxCover(evidences, X, e, target) THEN [s EXCEPT !.covers = Add(@, X, {})]
  ELSE s
ProcessInvalidCandidates(evidences, mutex, covers, trie, invalid, e, target) ==
  AddEach(LAMBDA s, X, i : Extended(evidences, mutex, s, X \cup {i}, invalid[X] \ mutex[i], e + 1, target),
          [dcs |-> trie, covers |-> covers], invalid, evidences[e].evidence)
Hit(evidences, mutex, s, nd, target) ==
  IF target <= 0
  THEN Search(s.nodes, ProcessValidCandidates(s.covers, nd.dcs, nd.invalid, evidences[nd.e].evidence))
  ELSE LET p == ProcessInvalidCandidates(evidences, mutex, s.covers, nd.dcs, nd.invalid, nd.e, target)
       IN Walk(evidences, Search(s.nodes, p.covers), nd.e + 1, nd.addable, p.dcs, target)
Visit(evidences, mutex, s, nd) ==
  IF nd.addable = {} THEN s
  ELSE IF nd.addable \subseteq evidences[nd.e].evidence
  THEN Walk(evidences, s, nd.e + 1, nd.addable, nd.dcs, nd.target)
  ELSE Hit(evidences, mutex, s, nd, nd.target - evidences[nd.e].count)
(* A node leads to nodes of later evidences only: there are no more of     *)
(* them than sets of evidences.                                            *)
Drain(evidences, mutex, start) ==
  FoldSet(LAMBDA i, s : IF s.nodes = <<>> THEN s
                        ELSE Visit(evidences, mutex, [s EXCEPT !.nodes = Front(@)], Last(s.nodes)),
          start, 1 .. 2 ^ Len(evidences)).covers
InverseEvidenceSet(evidences, mutex, n, target) ==
  Drain(evidences, mutex,
        Walk(evidences, Search(<<>>, EmptyTrie), 1, 1 .. n, [X \in {{}} |-> 1 .. n], target))

(* Constraints that differ in the names of the rows or in which side of a  *)
(* predicate is which are one; the first of them is kept.                  *)
InvT1T2(P) == {InvTS(p) : p \in P}
ContainedIn(P, Q) == \A p \in P : p \in Q \/ SymmetricOf(p) \in Q
DcEqual(P, Q) ==
  Cardinality(P) = Cardinality(Q) /\ (ContainedIn(P, Q) \/ ContainedIn(InvT1T2(P), Q) \/ ContainedIn(P, InvT1T2(Q)))
PredicatesAt(ps, X) == {ps[k] : k \in X}
Constraints(ps, raw_dcs) ==
  FoldLeft(LAMBDA kept, X : IF \E Y \in kept : DcEqual(PredicatesAt(ps, X), PredicatesAt(ps, Y)) THEN kept ELSE kept \cup {X},
           {}, raw_dcs)

(* What follows from a set of predicates (Closure), a step at a time; of   *)
(* the predicates it started with only what follows from them is grouped.  *)
Implied(S) == UNION {ImplicationsOf(p) \cup ImplicationsOf(SymmetricOf(p)) : p \in S}
TransitiveInferences(grouped) ==
  UNION {{Predicate(p.op, p.left, q.right) : q \in {q \in grouped : q # p /\ q.op \in TransitiveOperators[p.op] /\ p.right = q.left}}
         \cup {Predicate(p.op, q.left, p.right) : q \in {q \in grouped : q # p /\ q.op \in TransitiveOperators[p.op] /\ q.right = p.left}}
         : p \in grouped}
InequalitiesAndEqualities(closure, grouped) ==
  LET ne == {p \in grouped : p.op = "ne"}
      With(p, op) == [p EXCEPT !.op = op]
  IN {With(p, "lt") : p \in {p \in ne : With(p, "le") \in closure}}
     \cup {With(p, "gt") : p \in {p \in ne : With(p, "ge") \in closure}}
     \cup {With(p, "eq") : p \in {p \in grouped : p.op = "le" /\ With(p, "ge") \in closure}}
AddAll(c, additions) ==
  LET new == additions \ c.closure
      all == c.closure \cup new
  IN [closure |-> all, grouped |-> c.grouped \cup new, added |-> new # {},
      consistent |-> \A p \in new : InverseOf(p) \notin all]
TransitivityStep(c) ==
  AddAll(c, Implied(c.closure) \cup TransitiveInferences(c.grouped) \cup InequalitiesAndEqualities(c.closure, c.grouped))
(* A step that is not the last adds a predicate between the operands.      *)
Constructed(start) ==
  LET operands == UNION {{p.left, p.right} : p \in start.closure}
  IN FoldSet(LAMBDA i, c : IF c.consistent /\ c.added THEN TransitivityStep(c) ELSE c,
             start, 1 .. Len(AllOperators) * Cardinality(operands) ^ 2 + 1)
Construct(P) ==
  LET c == AddAll([closure |-> P, grouped |-> {}, added |-> TRUE, consistent |-> TRUE], Implied(P))
  IN Constructed([c EXCEPT !.added = TRUE])

(* Of those with the same closure, the one with fewest predicates, and of  *)
(* these by the order of their bitsets; then from the smallest closures    *)
(* on those that none kept so far follows from.                            *)
BitsetLess(X, Y) == X # Y /\ Min(Xor(X, Y)) \in Y
CandidateLess(X, Y) ==
  Cardinality(X) < Cardinality(Y) \/ (Cardinality(X) = Cardinality(Y) /\ BitsetLess(X, Y))
Candidates(closures) ==
  {X \in DOMAIN closures : /\ closures[X].consistent
                           /\ \A Y \in DOMAIN closures : closures[Y].closure = closures[X].closure => ~CandidateLess(Y, X)}
InClosureOrder(closures) ==
  Sorted(Candidates(closures),
         LAMBDA X, Y : LET m == Cardinality(closures[X].closure)
                           n == Cardinality(closures[Y].closure)
                       IN m < n \/ (m = n /\ CandidateLess(X, Y)))
FollowsFrom(tree, c) == \E P \in tree : P \subseteq c.closure
KeptIfNew(s, P, X, inv) ==
  IF ~inv.consistent \/ FollowsFrom(s.tree, inv) THEN s
  ELSE [result |-> Append(s.result, P), tree |-> s.tree \cup {P, InvT1T2(P)}]
Minimize(ps, dcs) ==
  LET closures == [X \in dcs |-> Construct(PredicatesAt(ps, X))]
  IN FoldLeft(LAMBDA s, X : IF FollowsFrom(s.tree, closures[X]) THEN s
                            ELSE KeptIfNew(s, PredicatesAt(ps, X), X, Construct(InvT1T2(PredicatesAt(ps, X)))),
              [result |-> <<>>, tree |-> {}], InClosureOrder(closures)).result

(* The whole of it; up says how sorting orders equal counts.               *)
Target(total, threshold) == total - (threshold[1] * total) \div threshold[2]
MinCovers(evidences, ps, target, up) ==
  LET indexes == CreateIndexArray(Len(ps), evidences)
      covers == InverseEvidenceSet(ByCount(TransformEvidenceSet(indexes, evidences), up), MutexMap(ps, indexes), Len(ps), target)
      order == InOrder(DOMAIN covers)
  IN Tuple([k \in DOMAIN order |-> Retransform(indexes, order[k])])
BuildDenialConstraints(evidences, ps, target, up) ==
  IF target = 0 THEN <<>> ELSE Minimize(ps, Constraints(ps, MinCovers(evidences, ps, target, up)))
EvidencesOf(r, o, groups, ps) == EvidenceSet(ps, groups, BuildClueSet(r, groups, ShardsOf(r, o), o.threads))
ExecuteOn(evidences, ps, o, up) ==
  BuildDenialConstraints(evidences, ps, Target(TotalCount(evidences), o.evidence_threshold), up)
-----------------------------------------------------------------------------
Value(r, operand, t, s) == r.rows[IF operand[1] = "t" THEN t ELSE s][operand[2]]
Satisfies(r, p, t, s) == Eval(p.op, Value(r, p.left, t, s), Value(r, p.right, t, s))
RowPairs(r) == {x \in (DOMAIN r.rows) \X (DOMAIN r.rows) : x[1] # x[2]}
Violating(r, P) == {x \in RowPairs(r) : \A p \in P : Satisfies(r, p, x[1], x[2])}
(* What follows from predicates, for all values of their operands.         *)
Operands(ps) == {p.left : p \in Range(ps)} \cup {p.right : p \in Range(ps)} \cup {InvTS(p).left : p \in Range(ps)}
Models(P, operands) ==
  {f \in [operands -> 1 .. Cardinality(operands)] : \A p \in P : Eval(p.op, f[p.left], f[p.right])}
Entails(models, Q) == \A f \in models : \A q \in Q : Eval(q.op, f[q.left], f[q.right])
(* Of the sets with at most one predicate on a pair of operands.           *)
PredicateSets(groups) ==
  FoldLeft(LAMBDA S, g : {P \cup Q : P \in S, Q \in {{}} \cup {{p} : p \in Range(PredicatesOf(g))}}, {{}}, groups)

(* The evidences are what the pairs of rows satisfy.                       *)
EvidencesAreRight(r, ps, evidences) ==
  LET satisfied == [x \in RowPairs(r) |-> {k \in DOMAIN ps : Satisfies(r, ps[k], x[1], x[2])}]
  IN evidences = {[count |-> Cardinality({x \in RowPairs(r) : satisfied[x] = E}), evidence |-> E] : E \in Range(satisfied)}
(* The constraints hold but for the pairs the threshold allows, and every  *)
(* other that does and can be violated at all follows from one of them or  *)
(* from its mirror image.                                                  *)
Allowed(r, P, o) == o.evidence_threshold[2] * Cardinality(Violating(r, P)) <= o.evidence_threshold[1] * Cardinality(RowPairs(r))
AreComplete(dcs, allowed, operands) ==
  \A P \in allowed :
    (\E Q \in allowed : Q \subseteq P /\ Q # P) \/
    LET models == Models(P, operands) IN models = {} \/ \E Q \in dcs : Entails(models, Q) \/ Entails(models, InvT1T2(Q))
ConstraintsAreRight(r, o, groups, ps, dcs) ==
  /\ \A P \in dcs : Allowed(r, P, o)
  /\ AreComplete(dcs, {P \in PredicateSets(groups) : Allowed(r, P, o)}, Operands(ps))
DcsOfSpace(r, o, groups, ps, evidences) ==
  /\ EvidencesAreRight(r, ps, evidences)
  /\ \A up \in BOOLEAN : ConstraintsAreRight(r, o, groups, ps, Range(ExecuteOn(evidences, ps, o, up)))
EvidencesOfSpace(r, o, groups, ps) == EvidencesAreRight(r, ps, EvidencesOf(r, o, groups, ps))
DcsOfGroups(r, o, groups, ps) == DcsOfSpace(r, o, groups, ps, EvidencesOf(r, o, groups, ps))
PairsAreRight(r, o) == LET groups == Groups(r, o) IN EvidencesOfSpace(r, o, groups, BuildPredicateSpace(groups))
DcsAreRight(r, o) == LET groups == Groups(r, o) IN DcsOfGroups(r, o, groups, BuildPredicateSpace(groups))
=============================================================================
