------------------------------- MODULE FastOd -------------------------------
(***************************************************************************)
(* algos::Fastod (src/src/core/algorithms/od/fastod), which finds the      *)
(* canonical order dependencies of a table level by level, and             *)
(* SetBasedAodVerifier, which counts the rows that break one.  A table is  *)
(* a sequence of rows of ranks, what DataFrame makes of typed values.  A   *)
(* partition is a set of groups: of ranges of rows, or of rows.  The cache *)
(* of partitions is left out; whichever of its entries a product starts    *)
(* from, the groups are the same.  Neither is the time limit modelled: it  *)
(* ends the search between two contexts, with what it has found.           *)
(***************************************************************************)
EXTENDS Integers, Sequences, FiniteSets, FiniteSetsExt, SequencesExt

CONSTANT MinMeaningfulRangeSize   \* kMinMeaningfulRangeSize: 40

LOCAL ColumnsOf(t) == DOMAIN t[1]
LOCAL Rows(t) == DOMAIN t
LOCAL Tuple(s) == SubSeq(s, 1, Len(s))

(* ExtractRangesFromColumn: the runs of equal values, as <<first, last>>.  *)
RangesOf(t, c) ==
  {x \in Rows(t) \X Rows(t) :
     /\ x[1] <= x[2] /\ \A r \in x[1] .. x[2] : t[r][c] = t[x[1]][c]
     /\ x[1] = 1 \/ t[x[1] - 1][c] # t[x[1]][c]
     /\ x[2] = Len(t) \/ t[x[2] + 1][c] # t[x[1]][c]}
RangeSize(x) == x[2] - x[1] + 1
Meet(x, y) == <<Max({x[1], y[1]}), Min({x[2], y[2]})>>
IntersectWithAttribute(t, group, c) ==
  {z \in {Meet(x, y) : x \in group, y \in RangesOf(t, c)} : z[1] <= z[2]}

(* Create: the ranges of most columns are worth keeping, but there are     *)
(* none to keep for the empty context.                                     *)
Create(t, ranged) ==
  [ranged |-> ranged, groups |-> IF ranged THEN {{<<1, Len(t)>>}} ELSE {Rows(t)}]

ByValue(items, value) == {{i \in items : value[i] = v} : v \in {value[i] : i \in items}}
AlonePart(part) == Cardinality(part) = 1 /\ \A x \in part : RangeSize(x) = 1
RangeParts(t, meets, c) == {P \in ByValue(meets, [x \in meets |-> t[x[1]][c]]) : ~AlonePart(P)}
SmallRanges(parts) == {x \in UNION parts : RangeSize(x) < MinMeaningfulRangeSize}
MostlySmall(t, group, c) ==
  2 * Cardinality(SmallRanges(RangeParts(t, IntersectWithAttribute(t, group, c), c)))
    >= Cardinality(IntersectWithAttribute(t, group, c))
RowsOfRanges(group) == UNION {x[1] .. x[2] : x \in group}

(* ToStrippedPartition follows as soon as a product asks for it.           *)
RangeBasedProduct(t, p, c) ==
  LET groups == UNION {RangeParts(t, IntersectWithAttribute(t, g, c), c) : g \in p.groups}
  IN IF \E g \in p.groups : MostlySmall(t, g, c)
       THEN [ranged |-> FALSE, groups |-> {RowsOfRanges(g) : g \in groups}]
       ELSE [ranged |-> TRUE, groups |-> groups]
CommonProduct(t, p, c) ==
  [ranged |-> FALSE,
   groups |-> {P \in UNION {ByValue(g, [r \in g |-> t[r][c]]) : g \in p.groups} : Cardinality(P) > 1}]
Product(t, p, c) == IF p.ranged THEN RangeBasedProduct(t, p, c) ELSE CommonProduct(t, p, c)

(* GetStrippedPartition of every context.                                  *)
Partitions(t) ==
  LET partition[X \in SUBSET ColumnsOf(t)] ==
        IF X = {} THEN Create(t, FALSE)
        ELSE IF Cardinality(X) = 1 THEN Product(t, Create(t, TRUE), Max(X))
        ELSE Product(t, partition[X \ {Max(X)}], Max(X))
  IN partition
Groups(p) == IF p.ranged THEN {RowsOfRanges(g) : g \in p.groups} ELSE p.groups
-----------------------------------------------------------------------------
(* What breaks a dependency inside a group: a split, or a swap.            *)
Split(t, p, c) == \E g \in Groups(p) : \E r, s \in g : t[r][c] # t[s][c]

(* The group in the order of the left column; rows with equal values come  *)
(* by the right one, where the code sorts by both.                         *)
LeftPrecedes(ascending, x, y) == IF ascending THEN x < y ELSE x > y
InOrder(t, g, a, b, ascending) ==
  LET before(r, s) ==
        \/ LeftPrecedes(ascending, t[r][a], t[s][a])
        \/ t[r][a] = t[s][a] /\ (t[r][b] < t[s][b] \/ (t[r][b] = t[s][b] /\ r < s))
  IN Tuple([i \in 1 .. Cardinality(g) |-> CHOOSE r \in g : Cardinality({s \in g : before(s, r)}) = i - 1])

(* A fault: the greatest value of the last value's rows is compared only.  *)
BugSwapStep(scan, x) ==
  LET first == scan.left # x[1]
      highest == IF first THEN x[2] ELSE Max({scan.highest, x[2]})
      earlier == IF first THEN x[2] ELSE scan.earlier
  IN [left |-> x[1], highest |-> highest, earlier |-> earlier,
      swap |-> scan.swap \/ x[2] < earlier]
SwapStep(scan, x) ==
  LET first == scan.left # x[1]
      earlier == IF first THEN scan.highest ELSE scan.earlier
  IN [left |-> x[1], earlier |-> earlier,
      highest |-> IF first THEN x[2] ELSE Max({scan.highest, x[2]}),
      swap |-> scan.swap \/ x[2] < earlier]
SwapIn(values) ==
  FoldLeft(SwapStep, [left |-> values[1][1], highest |-> -1, earlier |-> -1, swap |-> FALSE], values).swap
Swap(t, p, a, b, ascending) ==
  \E g \in Groups(p) :
    LET rows == InOrder(t, g, a, b, ascending) IN SwapIn([i \in DOMAIN rows |-> <<t[rows[i]][a], t[rows[i]][b]>>])

(* SplitRemovalSet: all but the rows of a most frequent value.             *)
SplitRemovalSet(t, g, c) ==
  g \ (CHOOSE K \in ByValue(g, [r \in g |-> t[r][c]]) :
         \A L \in ByValue(g, [r \in g |-> t[r][c]]) : Cardinality(L) <= Cardinality(K))

(* A longest subsequence that does not fall: of every length, the row that *)
(* ends one with the least value, and of every row, the chain it ends.     *)
Place(last, v) == 1 + Cardinality({n \in DOMAIN last : last[n].value <= v})
AddValue(last, row, v) ==
  LET n == Place(last, v)
      kept == {row} \cup (IF n = 1 THEN {} ELSE last[n - 1].kept)
      entry == [value |-> v, kept |-> kept]
  IN IF n > Len(last) THEN Append(last, entry) ELSE [last EXCEPT ![n] = entry]
LongestSubsequence(t, rows, b) ==
  Last(FoldLeft(LAMBDA last, row : AddValue(last, row, t[row][b]), <<>>, rows)).kept
SwapRemovalSet(t, g, a, b, ascending) ==
  g \ LongestSubsequence(t, InOrder(t, g, a, b, ascending), b)

SimpleRemovalSet(t, p, c) == UNION {SplitRemovalSet(t, g, c) : g \in Groups(p)}
RemovalSet(t, p, a, b, ascending) == UNION {SwapRemovalSet(t, g, a, b, ascending) : g \in Groups(p)}

(* IsValid, of both kinds; allowed is the error times the rows.            *)
SimpleIsValid(t, p, c, allowed) ==
  IF allowed = 0 THEN ~Split(t, p, c) ELSE Cardinality(SimpleRemovalSet(t, p, c)) <= allowed
IsValid(t, p, a, b, ascending, allowed) ==
  IF allowed = 0 THEN ~Swap(t, p, a, b, ascending)
  ELSE Cardinality(RemovalSet(t, p, a, b, ascending)) <= allowed
-----------------------------------------------------------------------------
(* The search.  cc_ and cs_ of a context that is not there are empty.      *)
PairsIn(X) == {x \in X \X X : x[1] # x[2]}
FastodInit(C) ==
  [level |-> 1, contexts |-> {{c} : c \in C},
   cc |-> [X \in SUBSET C |-> IF X = {} THEN C ELSE {}],
   cs |-> [ascending \in BOOLEAN |-> [X \in SUBSET C |-> {}]],
   simple |-> {}, ods |-> [ascending \in BOOLEAN |-> {}]]

Intersected(cc, C, X) == {c \in C : \A a \in X : c \in cc[X \ {a}]}
(* The pairs of some context below that are in all those that hold both.   *)
NewPairs(cs, X) == {x \in UNION {cs[X \ {a}] : a \in X} : \A a \in X \ {x[1], x[2]} : x \in cs[X \ {a}]}
AddCandidates(f, cs) ==
  IF f.level = 1 THEN cs
  ELSE [X \in DOMAIN cs |->
          IF f.level = 2 /\ Cardinality(X) = 2 THEN PairsIn(X)
          ELSE IF f.level > 2 /\ X \in f.contexts THEN cs[X] \cup NewPairs(cs, X) ELSE cs[X]]
WithCandidates(f, C) ==
  [f EXCEPT !.cc = [X \in DOMAIN @ |-> IF X \in f.contexts THEN Intersected(f.cc, C, X) ELSE @[X]],
            !.cs = [ascending \in BOOLEAN |-> AddCandidates(f, @[ascending])]]

(* The attributes of a context that the rest of it determines leave, and   *)
(* so does everything outside it.                                          *)
SimpleFound(t, ps, f, X, allowed) ==
  {c \in X \cap f.cc[X] : SimpleIsValid(t, ps[X \ {c}], c, allowed)}
AfterSimple(cc, X, found) == IF found = {} THEN cc[X] ELSE (cc[X] \ found) \cap X
WithSimple(t, ps, f, allowed) ==
  LET found == [X \in f.contexts |-> SimpleFound(t, ps, f, X, allowed)] IN
  [f EXCEPT !.cc = [X \in DOMAIN @ |-> IF X \in f.contexts THEN AfterSimple(@, X, found[X]) ELSE @[X]],
            !.simple = @ \cup UNION {{<<X \ {c}, c>> : c \in found[X]} : X \in f.contexts}]

(* CalculateODs: a pair stays a candidate if neither is determined and     *)
(* there is a swap.                                                        *)
Open(f, X, x) == x[1] \in f.cc[X \ {x[2]}] /\ x[2] \in f.cc[X \ {x[1]}]
ValidPairs(t, ps, f, X, ascending, allowed) ==
  {x \in f.cs[ascending][X] :
     Open(f, X, x) /\ IsValid(t, ps[X \ {x[1], x[2]}], x[1], x[2], ascending, allowed)}
StillOpen(f, X, ascending, valid) == {x \in f.cs[ascending][X] \ valid : Open(f, X, x)}
WithPairs(f, valid) ==
  [f EXCEPT
     !.cs = [ascending \in BOOLEAN |-> [X \in DOMAIN @[ascending] |->
               IF X \in f.contexts THEN StillOpen(f, X, ascending, valid[ascending][X]) ELSE @[ascending][X]]],
     !.ods = [ascending \in BOOLEAN |-> @[ascending] \cup
               UNION {{<<X \ {x[1], x[2]}, x[1], x[2]>> : x \in valid[ascending][X]} : X \in f.contexts}]]
WithODs(t, ps, f, allowed) ==
  WithPairs(f, [ascending \in BOOLEAN |-> [X \in f.contexts |-> ValidPairs(t, ps, f, X, ascending, allowed)]])
ComputeODs(t, ps, f, allowed) ==
  WithODs(t, ps, WithSimple(t, ps, WithCandidates(f, ColumnsOf(t)), allowed), allowed)

Exhausted(f, X) == f.cc[X] = {} /\ f.cs[TRUE][X] = {} /\ f.cs[FALSE][X] = {}
PruneLevels(f) == IF f.level = 1 THEN f ELSE [f EXCEPT !.contexts = {X \in @ : ~Exhausted(f, X)}]
CalculateNextLevel(f) ==
  [f EXCEPT !.level = @ + 1,
            !.contexts = {X \in DOMAIN f.cc : Cardinality(X) = f.level + 1 /\ \A a \in X : X \ {a} \in f.contexts}]
Discover(t, ps, allowed) ==
  FoldLeft(LAMBDA f, level : IF f.contexts = {} THEN f
                             ELSE CalculateNextLevel(PruneLevels(ComputeODs(t, ps, f, allowed))),
           FastodInit(ColumnsOf(t)), [level \in ColumnsOf(t) |-> level])
-----------------------------------------------------------------------------
(* SetBasedAodVerifier: the rows to remove for the compatibility and for   *)
(* the functional dependency asked about, either of which may be absent.   *)
Verify(t, ps, ocs, ofds) ==
  (UNION {RemovalSet(t, ps[oc.context], oc.left, oc.right, oc.ascending) : oc \in ocs})
    \cup (UNION {SimpleRemovalSet(t, ps[ofd.context], ofd.right) : ofd \in ofds})
-----------------------------------------------------------------------------
(* The dependencies by definition, on some of the rows.                    *)
Alike(t, X, r, s) == \A c \in X : t[r][c] = t[s][c]
HoldsOn(t, S, X, c) == \A r, s \in S : Alike(t, X, r, s) => t[r][c] = t[s][c]
CompatibleOn(t, S, X, a, b, ascending) ==
  \A r, s \in S : Alike(t, X, r, s) /\ LeftPrecedes(ascending, t[r][a], t[s][a]) => t[r][b] <= t[s][b]
MostRows(t, P(_)) == Max({Cardinality(S) : S \in {R \in SUBSET Rows(t) : P(R)}})

SimpleContexts(t, c) == {X \in SUBSET (ColumnsOf(t) \ {c}) : HoldsOn(t, Rows(t), X, c)}
MinimalSimple(t, c) == {X \in SimpleContexts(t, c) : \A Y \in SimpleContexts(t, c) : Y \subseteq X => Y = X}
OcContexts(t, a, b, ascending) ==
  {X \in SUBSET (ColumnsOf(t) \ {a, b}) : CompatibleOn(t, Rows(t), X, a, b, ascending)}
(* Without the contexts that determine one of the two columns.             *)
MinimalOcs(t, a, b, ascending) ==
  LET contexts == OcContexts(t, a, b, ascending) IN
  {X \in contexts : /\ \A Y \in contexts : Y \subseteq X => Y = X
                    /\ ~HoldsOn(t, Rows(t), X, a) /\ ~HoldsOn(t, Rows(t), X, b)}

(* FASTOD finds the minimal dependencies, and none but what the error      *)
(* allows if there is one.                                                 *)
FoundAreMinimal(t, f) ==
  /\ f.simple = UNION {{<<X, c>> : X \in MinimalSimple(t, c)} : c \in ColumnsOf(t)}
  /\ \A ascending \in BOOLEAN :
       f.ods[ascending] = UNION {{<<X, x[1], x[2]>> : X \in MinimalOcs(t, x[1], x[2], ascending)} :
                                   x \in PairsIn(ColumnsOf(t))}
FoundAreAllowed(t, f, allowed) ==
  /\ \A d \in f.simple : MostRows(t, LAMBDA S : HoldsOn(t, S, d[1], d[2])) >= Len(t) - allowed
  /\ \A ascending \in BOOLEAN, d \in UNION {f.ods[x] : x \in BOOLEAN} :
       d \in f.ods[ascending] =>
         MostRows(t, LAMBDA S : CompatibleOn(t, S, d[1], d[2], d[3], ascending)) >= Len(t) - allowed

(* The verifier removes as few rows as any removal that mends the table.   *)
Mends(t, ps, X, x) ==
  /\ \A ascending \in BOOLEAN :
       LET removed == Verify(t, ps, {[context |-> X, left |-> x[1], right |-> x[2], ascending |-> ascending]}, {}) IN
       /\ CompatibleOn(t, Rows(t) \ removed, X, x[1], x[2], ascending)
       /\ Len(t) - Cardinality(removed) = MostRows(t, LAMBDA S : CompatibleOn(t, S, X, x[1], x[2], ascending))
  /\ LET removed == Verify(t, ps, {}, {[context |-> X, right |-> x[2]]}) IN
     /\ HoldsOn(t, Rows(t) \ removed, X, x[2])
     /\ Len(t) - Cardinality(removed) = MostRows(t, LAMBDA S : HoldsOn(t, S, X, x[2]))

(* Whichever column comes last, a product has the same groups.             *)
ProductsAgree(t, ps) ==
  \A X \in SUBSET ColumnsOf(t) : \A c \in X : X # {c} =>
    {g \in Groups(Product(t, ps[X \ {c}], c)) : Cardinality(g) > 1} =
      {g \in Groups(ps[X]) : Cardinality(g) > 1}

CanonicalAreRight(t) ==
  LET ps == Partitions(t) IN
  /\ FoundAreMinimal(t, Discover(t, ps, 0))
  /\ FoundAreAllowed(t, Discover(t, ps, 1), 1)
  /\ \A x \in PairsIn(ColumnsOf(t)) : \A X \in SUBSET (ColumnsOf(t) \ {x[1], x[2]}) : Mends(t, ps, X, x)
  /\ ProductsAgree(t, ps)
=============================================================================
