------------------------------- MODULE Tables -------------------------------
(***************************************************************************)
(* A table as the dependency miners see it (src/src/core/model/table): its *)
(* rows, the position list indexes of its columns, and what intersecting   *)
(* them computes.  A position list index keeps the classes of two rows and *)
(* more; it is a set here, since its order follows from the rows.  Below   *)
(* the line is what the miners look for, by definition.                    *)
(***************************************************************************)
EXTENDS Integers, Sequences, FiniteSets, FiniteSetsExt, SequencesExt

CONSTANTS
  NumColumns,
  MaxValue,     \* bound: values in a cell are 1 .. MaxValue
  MaxRows       \* bound: rows

Columns == 1 .. NumColumns
Rows(t) == DOMAIN t

Pairs(n) == (n * (n - 1)) \div 2
(* The same sequence: TLC keeps its elements, and computes those of        *)
(* [i \in 1 .. n |-> e(i)] at every use.                                   *)
Tuple(s) == SubSeq(s, 1, Len(s))
Sorted(S, less(_, _)) ==
  Tuple([i \in 1 .. Cardinality(S) |-> CHOOSE x \in S : Cardinality({y \in S : less(y, x)}) = i - 1])
Sum(f(_), S) == FoldSet(LAMBDA x, acc : f(x) + acc, 0, S)

(* PositionListIndex::CreateFor, of one column.                            *)
CreateFor(t, c) ==
  {K \in {{r \in Rows(t) : t[r][c] = v} : v \in 1 .. MaxValue} : Cardinality(K) > 1}

(* The clusters of one index, cut by the probing table of another: rows    *)
(* alone in theirs (kSingletonValueId) are left out, and so are the pieces *)
(* of one row.  Which of the two is probed does not matter.                *)
Intersect(p, q) == {K \in {a \cap b : a \in p, b \in q} : Cardinality(K) > 1}

Size(p) == Sum(Cardinality, p)
Nep(p) == Sum(LAMBDA K : Pairs(Cardinality(K)), p)
NumCluster(t, p) == Cardinality(p) + Len(t) - Size(p)
IsConstant(t, p) == Len(t) <= 1 \/ (Cardinality(p) = 1 /\ Size(p) = Len(t))

(* CalculatePLI: the columns' indexes intersected one after another.       *)
PliOf(t, X) ==
  LET c0 == Min(X) IN FoldSet(LAMBDA c, p : Intersect(p, CreateFor(t, c)), CreateFor(t, c0), X \ {c0})

(* Which of two sets comes first: as bitsets by the greatest column that   *)
(* only one of the two has, as Verticals by the least.                     *)
Differing(X, Y) == (X \ Y) \cup (Y \ X)
Before(X, Y) == X # Y /\ Max(Differing(X, Y)) \in Y
VerticalBefore(X, Y) == X # Y /\ Min(Differing(X, Y)) \in Y
(* A set of columns as a path of a prefix tree, columns ascending: the     *)
(* paths to its vertex, the empty one and its own among them.              *)
PathsTo(X) == {{B \in X : B <= k} : k \in {0} \cup X}
-----------------------------------------------------------------------------
AgreeOn(t, r, s) == {c \in Columns : t[r][c] = t[s][c]}
Holds(t, X, A) == \A r, s \in Rows(t) : X \subseteq AgreeOn(t, r, s) => A \in AgreeOn(t, r, s)
IsUnique(t, X) == \A r, s \in Rows(t) : r < s => ~(X \subseteq AgreeOn(t, r, s))

(* The sides of which P holds and of no part of which it does.             *)
Least(P(_), S) == LET H == {X \in SUBSET S : P(X)} IN {X \in H : \A Y \in H : Y \subseteq X => Y = X}

MinimalFds(t) ==
  UNION {{<<X, A>> : X \in Least(LAMBDA X : Holds(t, X, A), Columns \ {A})} : A \in Columns}
MinimalUccs(t) == Least(LAMBDA X : IsUnique(t, X), Columns)
UpTo(max_lhs, fds) == {d \in fds : Cardinality(d[1]) <= max_lhs}
=============================================================================
