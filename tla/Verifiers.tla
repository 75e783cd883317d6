------------------------------ MODULE Verifiers ------------------------------
(***************************************************************************)
(* Verifiers of one given dependency that also say how far the table is    *)
(* from it: functional dependencies (fd/fd_verifier), unique columns       *)
(* (ucc/ucc_verifier), probabilistic (fd/pfd_verifier), numerical          *)
(* (nd/nd_verifier), differential (dd/dd_verifier) and conditional ones    *)
(* (cfd/cfd_verifier) and association rules (ar/ar_verifier).  A table is a    *)
(* sequence of rows of numbers, 0 the empty string.  Fractions are pairs   *)
(* of numerator and denominator.  Below the line are the definitions the   *)
(* results are compared with.                                              *)
(***************************************************************************)
EXTENDS Integers, Sequences, FiniteSets, FiniteSetsExt, SequencesExt

Rows(t) == DOMAIN t
OrderedPairs(n) == n * (n - 1)
Total(S) == FoldSet(LAMBDA K, n : n + Cardinality(K), 0, S)
TotalPairs(S) == FoldSet(LAMBDA K, n : n + OrderedPairs(Cardinality(K)), 0, S)

(* Position list indexes, as in Tables.                                    *)
CreateFor(t, c) == {K \in {{s \in Rows(t) : t[s][c] = t[r][c]} : r \in Rows(t)} : Cardinality(K) > 1}
Intersect(p, q) == {K \in {a \cap b : a \in p, b \in q} : Cardinality(K) > 1}
IndexOf(t, X) ==
  LET c0 == Min(X) IN FoldSet(LAMBDA c, p : Intersect(p, CreateFor(t, c)), CreateFor(t, c0), X \ {c0})
NumCluster(t, p) == Cardinality(p) + Len(t) - Total(p)

(* A functional dependency: a class of the left side with the classes of   *)
(* the right side it meets; rows alone on the right are not among these.   *)
Frequencies(K, p) == {a \cap K : a \in p} \ {{}}
NumDistinctRhsValues(K, fs) == Cardinality(fs) + Cardinality(K) - Total(fs)
NumMostFrequentRhsValue(fs) == IF fs = {} THEN 1 ELSE Max({Cardinality(a) : a \in fs})
BugConflicts(K, fs) == OrderedPairs(Cardinality(K)) - OrderedPairs(Total(fs))
Conflicts(K, fs) == OrderedPairs(Cardinality(K)) - TotalPairs(fs)
HighlightOf(K, fs) ==
  [cluster |-> K, distinct |-> NumDistinctRhsValues(K, fs), frequent |-> NumMostFrequentRhsValue(fs),
   conflicts |-> Conflicts(K, fs)]
Statistics(t, highlights) ==
  [highlights |-> {[cluster |-> h.cluster, distinct |-> h.distinct, frequent |-> h.frequent] : h \in highlights},
   rows |-> Total({h.cluster : h \in highlights}),
   error |-> <<FoldSet(LAMBDA h, n : n + h.conflicts, 0, highlights), OrderedPairs(Len(t))>>]
CalculateStatistics(t, p, q) ==
  Statistics(t, {h \in {HighlightOf(K, Frequencies(K, q)) : K \in p} : h.distinct # 1})
Satisfied(t) == Statistics(t, {})
VerifyFD(t, p, q) ==
  IF NumCluster(t, p) = NumCluster(t, Intersect(p, q)) THEN Satisfied(t) ELSE CalculateStatistics(t, p, q)

(* Columns that should be unique.                                          *)
UccStatistics(t, p) ==
  [clusters |-> p, rows |-> Total(p),
   error |-> <<TotalPairs(p), Len(t) * (IF Len(t) > 1 THEN Len(t) - 1 ELSE 1)>>]

(* A probabilistic dependency: both indexes in the order of their first    *)
(* rows, those of both sides sorted by the class of the left side they     *)
(* are part of, are gone through together.  The sort keeps the order of    *)
(* equal classes: std::sort does for 16 classes and less.  The i-th of     *)
(* what is sorted is the one with i - 1 others before it.                  *)
Sorted(S, Before(_, _)) ==
  [i \in 1 .. Cardinality(S) |-> CHOOSE a \in S : Cardinality({b \in S : Before(b, a)}) = i - 1]
ByFirst(p) == Sorted(p, LAMBDA a, b : Min(a) < Min(b))
ClassAt(ks, K) == CHOOSE i \in DOMAIN ks : Min(K) \in ks[i]
ByClass(ks, p) ==
  Sorted(p, LAMBDA a, b : \/ ClassAt(ks, a) < ClassAt(ks, b)
                          \/ ClassAt(ks, a) = ClassAt(ks, b) /\ Min(a) < Min(b))
NextRow(s, r, parts) ==
  IF s.at > Len(parts) \/ r # Min(parts[s.at]) THEN s
  ELSE [s EXCEPT !.at = @ + 1, !.max = Max({@, Cardinality(parts[s.at])})]
ClusterMax(s, K, parts) ==
  FoldLeft(LAMBDA u, r : NextRow(u, r, parts), [s EXCEPT !.max = 1], Sorted(K, LAMBDA q, x : q < x))
WithCluster(s, K) ==
  [at |-> s.at, max |-> s.max, rows |-> s.rows + Cardinality(K) - s.max,
   violating |-> s.violating \cup (IF s.max # Cardinality(K) THEN {K} ELSE {}),
   maxima |-> Append(s.maxima, <<s.max, Cardinality(K)>>)]
PfdSteps(ks, parts) ==
  FoldLeft(LAMBDA s, K : WithCluster(ClusterMax(s, K, parts), K),
           [at |-> 1, max |-> 1, violating |-> {}, rows |-> 0, maxima |-> <<>>], ks)
VerifyPFD(p, q, ks) == PfdSteps(ks, ByClass(ks, Intersect(p, q)))
(* The error 1 - (sum + unique rows) / n, per tuple.                       *)
PerTuple(t, p, s) ==
  <<Len(t) - (FoldLeft(LAMBDA n, m : n + m[1], 0, s.maxima) + Len(t) - Total(p)), Len(t)>>

(* A numerical dependency: combinations of values get numbers as they      *)
(* come; one with an empty value gets a new one unless empty values are    *)
(* equal, and is found by no later row.                                    *)
HasNull(v) == \E i \in DOMAIN v : v[i] = 0
IndexIn(values, v) == IF \E i \in DOMAIN values : values[i] = v THEN Min({i \in DOMAIN values : values[i] = v}) ELSE Len(values) + 1
Numbered(s, i, v) ==
  [row |-> Append(s.row, i), values |-> IF i > Len(s.values) THEN Append(s.values, v) ELSE s.values]
AddVCToValues(s, v, equal) ==
  Numbered(s, IF HasNull(v) /\ ~equal THEN Len(s.values) + 1 ELSE IndexIn(s.values, v), v)
Projected(row, cols) == [i \in DOMAIN cols |-> row[cols[i]]]
CombineValues(t, cols, equal) ==
  FoldLeft(LAMBDA s, row : AddVCToValues(s, Projected(row, cols), equal), [row |-> <<>>, values |-> <<>>], t)
ValueDeps(lhs, rhs) ==
  [code \in DOMAIN lhs.values |-> {rhs.row[r] : r \in {s \in DOMAIN lhs.row : lhs.row[s] = code}}]
Occurrences(lhs, code) == {r \in DOMAIN lhs.row : lhs.row[r] = code}
Weights(lhs, weight) ==
  [real |-> Max(Range(weight)), least |-> Min(Range(weight)),
   highlights |-> {Occurrences(lhs, code) : code \in {c \in DOMAIN weight : weight[c] = Max(Range(weight))}}]
NdStatistics(lhs, deps) == Weights(lhs, [code \in DOMAIN deps |-> Cardinality(deps[code])])
VerifyND(t, X, Y, equal) ==
  LET lhs == CombineValues(t, X, equal) IN NdStatistics(lhs, ValueDeps(lhs, CombineValues(t, Y, equal)))

(* A differential dependency: sequences of constraints, each a column and  *)
(* the bounds of a distance.                                               *)
Dist(a, b) == IF a < b THEN b - a ELSE a - b
DistanceIn(t, pair, k) == Dist(t[pair[1]][k.column], t[pair[2]][k.column])
Within(k, d) == k.low <= d /\ d <= k.high
PairsOf(t) == {pair \in Rows(t) \X Rows(t) : pair[1] < pair[2]}
GetRowsWhereLhsHolds(t, left) == {pair \in PairsOf(t) : \A k \in ToSet(left) : Within(k, DistanceIn(t, pair, k))}
Missed(t, pair, right) == {k \in ToSet(right) : ~Within(k, DistanceIn(t, pair, k))}
CheckDFOnRhs(t, pairs, right) ==
  LET wrong == {pair \in pairs : Missed(t, pair, right) # {}}
  IN [highlights |-> UNION {{<<k.column, pair>> : k \in Missed(t, pair, right)} : pair \in wrong},
      num_error_rhs |-> Cardinality(wrong), error |-> <<Cardinality(wrong), Cardinality(pairs)>>]
VerifyDD(t, left, right) == CheckDFOnRhs(t, GetRowsWhereLhsHolds(t, left), right)

(* A conditional dependency, its items columns with a constant or Wildcard.     *)
(* The item of a value its column does not hold is -1, and that is the     *)
(* first column with Wildcard.                                                  *)
Wildcard == -1
Item(c, v) == [column |-> c, value |-> v]
GetItem(t, item) ==
  IF item.value = Wildcard \/ \E r \in Rows(t) : t[r][item.column] = item.value THEN item ELSE Item(1, Wildcard)
Matches(row, item) == item.value = Wildcard \/ row[item.column] = item.value
SupportMask(t, left) == {r \in Rows(t) : \A item \in left : Matches(t[r], item)}
LhsToRowNums(t, S, left) ==
  {{r \in S : \A item \in left : t[r][item.column] = t[s][item.column]} : s \in S}
MostFrequentRhs(t, K, c) ==
  {t[r][c] : r \in {s \in K : \A u \in K : Cardinality({x \in K : t[x][c] = t[u][c]}) <= Cardinality({x \in K : t[x][c] = t[s][c]})}}
(* Of equally frequent values the hash table decides (choose).             *)
Chosen(values, choose) == IF choose = "least" THEN Min(values) ELSE Max(values)
Expected(t, K, right, choose) ==
  IF right.value = Wildcard THEN Chosen(MostFrequentRhs(t, K, right.column), choose) ELSE right.value
CfdHighlights(t, groups, right, choose) ==
  {h \in {[cluster |-> K, violating |-> {r \in K : t[r][right.column] # Expected(t, K, right, choose)}] : K \in groups} :
     h.violating # {}}
SupportAndConfidence(S, highlights) ==
  [support |-> Cardinality(S), violating |-> Total({h.violating : h \in highlights}), highlights |-> highlights]
VerifyRule(t, S, left, right, choose) ==
  SupportAndConfidence(S, CfdHighlights(t, LhsToRowNums(t, S, left), right, choose))
VerifyItems(t, left, right, choose) == VerifyRule(t, SupportMask(t, left), left, right, choose)
VerifyCFD(t, left, right, choose) ==
  VerifyItems(t, {GetItem(t, item) : item \in left}, GetItem(t, right), choose)

(* An association rule, on the items of the rows.  Of a part of the rule   *)
(* counts how much of it a transaction holds; of an empty transaction      *)
(* nothing is covered, and an empty part is otherwise covered.             *)
ItemsOf(row) == ToSet(row) \ {0}
Coverage(items, part) ==
  CASE items = {} -> "none"
    [] items # {} /\ part \subseteq items -> "full"
    [] items # {} /\ ~(part \subseteq items) -> IF part \cap items = {} THEN "none" ELSE "partial"
RuleCoverage(items, left, right) == [left |-> Coverage(items, left), right |-> Coverage(items, right)]
Coefficients(t, left, right) == [r \in Rows(t) |-> RuleCoverage(ItemsOf(t[r]), left, right)]
Covered(cs) == {r \in DOMAIN cs : cs[r].left # "none"}
RuleFull(cs, r) == cs[r].left = "full" /\ cs[r].right = "full"
VerifyAR(cs) ==
  [support |-> Cardinality({r \in Covered(cs) : RuleFull(cs, r)}),
   left |-> Cardinality({r \in Covered(cs) : cs[r].left = "full"}),
   clusters |-> {{r \in Covered(cs) : cs[r] = c} :
                   c \in {cs[r] : r \in {s \in Covered(cs) : ~RuleFull(cs, s)}}}]
-----------------------------------------------------------------------------
Equal(t, X, r, s) == \A c \in X : t[r][c] = t[s][c]
Class(t, X, r) == {s \in Rows(t) : Equal(t, X, r, s)}
Classes(t, X) == {Class(t, X, r) : r \in Rows(t)}
Breaking(t, X, Y) == {x \in Rows(t) \X Rows(t) : Equal(t, X, x[1], x[2]) /\ ~Equal(t, Y, x[1], x[2])}
Parts(t, K, Y) == {Class(t, Y, r) \cap K : r \in K}
Largest(S) == Max({Cardinality(K) : K \in S})

(* The classes of the left side with several values on the right, and the  *)
(* pairs of rows that break the dependency.                                *)
FdIsRight(t, X, Y) ==
  LET result == VerifyFD(t, IndexOf(t, X), IndexOf(t, Y))
      broken == {K \in Classes(t, X) : Cardinality(Parts(t, K, Y)) > 1}
  IN /\ result.error = <<Cardinality(Breaking(t, X, Y)), OrderedPairs(Len(t))>>
     /\ result.rows = Total(broken)
     /\ result.highlights = {[cluster |-> K, distinct |-> Cardinality(Parts(t, K, Y)), frequent |-> Largest(Parts(t, K, Y))] : K \in broken}
UccIsRight(t, X) ==
  LET result == UccStatistics(t, IndexOf(t, X))
      equal == {x \in Rows(t) \X Rows(t) : x[1] # x[2] /\ Equal(t, X, x[1], x[2])}
  IN result.error[1] = Cardinality(equal) /\ UNION result.clusters = {x[1] : x \in equal}
PfdIsRight(t, X, Y) ==
  LET p == IndexOf(t, X)
      s == VerifyPFD(p, IndexOf(t, Y), ByFirst(p))
      lost(K) == Cardinality(K) - Largest(Parts(t, K, Y))
  IN /\ s.violating = {K \in Classes(t, X) : lost(K) > 0}
     /\ s.rows = FoldSet(LAMBDA K, n : n + lost(K), 0, Classes(t, X))
     /\ PerTuple(t, p, s) = <<s.rows, Len(t)>>

(* Rows with an empty value are like no other row, unless it is equal to   *)
(* other empty values.                                                     *)
Same(t, X, r, s, equal) == r = s \/ (Equal(t, X, r, s) /\ (equal \/ \A c \in X : t[r][c] # 0))
SameClass(t, X, r, equal) == {s \in Rows(t) : Same(t, X, r, s, equal)}
NdIsRight(t, X, Y, equal) ==
  LET weight(r) == Cardinality({SameClass(t, ToSet(Y), s, equal) : s \in SameClass(t, ToSet(X), r, equal)})
      result == VerifyND(t, X, Y, equal)
  IN /\ result.real = Max({weight(r) : r \in Rows(t)}) /\ result.least = Min({weight(r) : r \in Rows(t)})
     /\ result.highlights = {SameClass(t, ToSet(X), r, equal) : r \in {s \in Rows(t) : weight(s) = result.real}}

DdIsRight(t, left, right) ==
  LET near(r, s, ks) == \A k \in ToSet(ks) : t[r][k.column] - t[s][k.column] \in -k.high .. -k.low \cup k.low .. k.high
      wrong == {pair \in PairsOf(t) : near(pair[1], pair[2], left) /\ ~near(pair[1], pair[2], right)}
      result == VerifyDD(t, left, right)
  IN result.num_error_rhs = Cardinality(wrong) /\ {h[2] : h \in result.highlights} = wrong

(* The fewest rows without which the rule holds, for the constants the     *)
(* columns hold.                                                           *)
Holds(t, S, left, right) ==
  \A r, s \in S : /\ Matches(t[r], right)
                  /\ Equal(t, {item.column : item \in left}, r, s) => t[r][right.column] = t[s][right.column]
Known(t, item) == GetItem(t, item) = item
CfdIsRight(t, left, right) ==
  (\A item \in left \cup {right} : Known(t, item)) => \A choose \in {"least", "greatest"} :
    LET result == VerifyCFD(t, left, right, choose)
        S == {r \in Rows(t) : \A item \in left : Matches(t[r], item)}
        violating == UNION {h.violating : h \in result.highlights}
    IN /\ result.support = Cardinality(S) /\ result.violating = Cardinality(violating)
       /\ Holds(t, S \ violating, left, right)
       /\ \A R \in SUBSET S : Holds(t, S \ R, left, right) => result.violating <= Cardinality(R)
ArIsRight(t, left, right) ==
  LET holding(part) == {r \in Rows(t) : part \subseteq ItemsOf(t[r])}
      touched == {r \in Rows(t) : left \cap ItemsOf(t[r]) # {}}
      result == VerifyAR(Coefficients(t, left, right))
  IN /\ result.support = Cardinality(holding(left \cup right)) /\ result.left = Cardinality(holding(left))
     /\ UNION result.clusters = touched \ holding(left \cup right)
     /\ \A K, L \in result.clusters : K = L \/ K \cap L = {}
=============================================================================
