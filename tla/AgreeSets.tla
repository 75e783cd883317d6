----------------------------- MODULE AgreeSets ------------------------------
(***************************************************************************)
(* The agree sets of a table and the two miners that start from them:      *)
(* model::AgreeSetFactory (src/src/core/model/table/agree_set_factory.cpp) *)
(* with its ways to find the maximal classes, DepMiner and FastFDs.  Sets  *)
(* of classes are hash sets, visited in any order.                         *)
(***************************************************************************)
EXTENDS Tables

Indexes(t) == Tuple([c \in Columns |-> CreateFor(t, c)])
Classes(t) == UNION {CreateFor(t, c) : c \in Columns}

(* GenMcUsingCalculateSupersets: column after column, each class of what   *)
(* there is against the classes of the column's partition.                 *)
RECURSIVE Compare(_, _, _, _)
Compare(it, partition, i, s) ==
  IF i > Len(partition) \/ Cardinality(s.exclude) = Len(partition) THEN s
  ELSE LET p == partition[i] IN
    IF p \in s.exclude THEN Compare(it, partition, i + 1, s)
    ELSE IF p \subseteq it
      THEN [s EXCEPT !.add = @ \ {p}, !.exclude = @ \cup {p}]
      ELSE Compare(it, partition, i + 1,
                   [s EXCEPT !.add = @ \cup {p}, !.delete = IF it \subseteq p THEN @ \cup {it} ELSE @])
ByFirst(a, b) == Min(a) < Min(b)
CalculateSupersets(max, partition, up) ==
  LET sorted == Sorted(partition, ByFirst)
      order == Sorted(max, Before)
      s == FoldLeft(LAMBDA acc, it : Compare(it, sorted, 1, acc),
                    [add |-> {}, delete |-> {}, exclude |-> {}], IF up THEN order ELSE Reverse(order))
  IN (max \cup s.add) \ s.delete
McCalculateSupersets(t, up) ==
  LET full == SelectSeq(Indexes(t), LAMBDA p : p # {})
  IN IF full = <<>> THEN {}
     ELSE FoldLeft(LAMBDA max, p : CalculateSupersets(max, p, up), full[1], Tail(full))

(* A fault: the least classes stay.                                        *)
RECURSIVE BugHandleEqvClass(_, _)
BugHandleEqvClass(K, max) ==
  FoldLeft(LAMBDA acc, r :
             LET copy == K \ {r}
             IN IF copy \in acc THEN acc \ {copy}
                ELSE IF Cardinality(copy) > 3 THEN BugHandleEqvClass(copy, acc) ELSE acc,
           max, Sorted(K, <))

(* GenMcUsingHandleEqvClass: smaller classes first, each removing the sets *)
(* one row smaller that it includes, and theirs in turn.                   *)
RECURSIVE HandleEqvClass(_, _)
HandleEqvClass(K, max) ==
  FoldLeft(LAMBDA acc, r :
             LET copy == K \ {r}
             IN IF copy \in acc THEN acc \ {copy}
                ELSE IF Cardinality(copy) > 2 THEN HandleEqvClass(copy, acc) ELSE acc,
           max, Sorted(K, <))
Smaller(a, b) == Cardinality(a) < Cardinality(b) \/ (Cardinality(a) = Cardinality(b) /\ VerticalBefore(b, a))
McHandleEqvClass(t) ==
  FoldLeft(LAMBDA max, K : HandleEqvClass(K, max) \cup {K}, {}, Sorted(Classes(t), Smaller))

(* GenMcUsingHandlePartition: greater classes first, unless in one of them.*)
McHandlePartition(t) ==
  FoldLeft(LAMBDA max, K : IF \E L \in max : K \subseteq L THEN max ELSE max \cup {K}, {},
           Reverse(Sorted(Classes(t), Smaller)))

McMethods == {"CalculateSupersetsUp", "CalculateSupersetsDown", "HandleEqvClass", "HandlePartition"}
GenPliMaxRepresentation(t, mc) ==
  CASE mc = "CalculateSupersetsUp" -> McCalculateSupersets(t, TRUE)
    [] mc = "CalculateSupersetsDown" -> McCalculateSupersets(t, FALSE)
    [] mc = "HandleEqvClass" -> McHandleEqvClass(t)
    [] mc = "HandlePartition" -> McHandlePartition(t)

(* GetAgreeSet and IdentifierSet::Intersect: the columns in which the two  *)
(* rows are in one cluster, and not alone in theirs.                       *)
GetAgreeSet(t, r, s) == {c \in Columns : \E K \in CreateFor(t, c) : {r, s} \subseteq K}
Within(t, S) == {GetAgreeSet(t, r, s) : <<r, s>> \in {p \in UNION {K \X K : K \in S} : p[1] < p[2]}}
AsMethods == {"VectorOfIDSets", "MapOfIDSets", "MCAndGetAgreeSet", "GetAgreeSet"}
GenAgreeSets(t, method, mc) ==
  {{}} \cup CASE method = "VectorOfIDSets" -> Within(t, {UNION GenPliMaxRepresentation(t, mc)})
              [] method \in {"MapOfIDSets", "MCAndGetAgreeSet"} -> Within(t, GenPliMaxRepresentation(t, mc))
              [] method = "GetAgreeSet" -> Within(t, Classes(t))
-----------------------------------------------------------------------------
(* DepMiner (fd/depminer/depminer.cpp).                                    *)
AddMaximal(X, supers) ==
  LET kept == {Y \in supers : ~(Y \subseteq X)}
  IN IF \E Y \in supers : X \subseteq Y THEN kept ELSE kept \cup {X}
CmaxSet(agree_sets, A) ==
  {Columns \ X : X \in FoldSet(AddMaximal, {}, {X \in agree_sets : A \notin X})}

CheckJoin(X, Y) == Max(X) < Max(Y) /\ Cardinality(X) = Cardinality(Y)
GenNextLevel(level) ==
  {Z \in {X \cup Y : <<X, Y>> \in {j \in level \X level : CheckJoin(j[1], j[2])}} :
     \A B \in Z : Z \ {B} \in level}

RECURSIVE LhsLevels(_, _)
LhsLevels(cmax, level) ==
  LET covers == {X \in level : \A C \in cmax : X \cap C # {}}
  IN IF level = {} THEN {} ELSE covers \cup LhsLevels(cmax, GenNextLevel(level \ covers))
LhsForColumn(t, agree_sets, A) ==
  IF IsConstant(t, CreateFor(t, A)) THEN {{}}
  ELSE {X \in LhsLevels(CmaxSet(agree_sets, A), {{B} : B \in UNION CmaxSet(agree_sets, A)}) : A \notin X}
DepminerFds(t, agree_sets, max_lhs) ==
  UpTo(max_lhs, UNION {{<<X, A>> : X \in LhsForColumn(t, agree_sets, A)} : A \in Columns})
-----------------------------------------------------------------------------
(* FastFDs (fd/fastfds/fastfds.cpp); its threads take a column each.       *)
DiffSets(agree_sets) == Sorted({Columns \ X : X \in agree_sets}, VerticalBefore)
DiffSetsMod(agree_sets, A) ==
  FoldLeft(LAMBDA mod, D : IF A \in D /\ ~\E M \in mod : M \subseteq D THEN mod \cup {D \ {A}} ELSE mod,
           {}, DiffSets(agree_sets))

Covered(diffs, B) == Cardinality({D \in diffs : B \in D})
Ordered(diffs, S) ==
  Sorted(S, LAMBDA B, C : Covered(diffs, B) > Covered(diffs, C)
                                  \/ (Covered(diffs, B) = Covered(diffs, C) /\ B > C))
CoverMinimal(path, diffs) == \A B \in path : \E D \in diffs : D \cap (path \ {B}) = {}

RECURSIVE FindCovers(_, _, _, _, _)
FindCovers(max_lhs, diffs, left, path, ordering) ==
  IF Cardinality(path) > max_lhs \/ (ordering = <<>> /\ left # {}) THEN {}
  ELSE IF left = {} THEN (IF CoverMinimal(path, diffs) THEN {path} ELSE {})
  ELSE UNION {LET next == {D \in left : ordering[i] \notin D}
                  later == {ordering[j] : j \in i + 1 .. Len(ordering)} \cap UNION next
              IN FindCovers(max_lhs, diffs, next, path \cup {ordering[i]}, Ordered(next, later)) :
                i \in DOMAIN ordering}

CoversOf(t, agree_sets, A, max_lhs) ==
  LET diffs == DiffSetsMod(agree_sets, A)
  IN IF IsConstant(t, CreateFor(t, A)) THEN {{}}
     ELSE IF diffs = {{}} THEN {}
     ELSE FindCovers(max_lhs, diffs, diffs, {}, Ordered(diffs, Columns \ {A}))
FastFdsFds(t, agree_sets, max_lhs) ==
  IF DiffSets(agree_sets) = <<{}>> THEN {}
  ELSE UpTo(max_lhs, UNION {{<<X, A>> : X \in CoversOf(t, agree_sets, A, max_lhs)} : A \in Columns})
-----------------------------------------------------------------------------
(* The agree sets by definition, the empty one always there, and the       *)
(* classes no other includes.                                              *)
AgreeSetsOf(t) == {{}} \cup {AgreeOn(t, p[1], p[2]) : p \in {p \in Rows(t) \X Rows(t) : p[1] < p[2]}}
MaximalClasses(t) == {K \in Classes(t) : ~\E L \in Classes(t) : K \subseteq L /\ K # L}
=============================================================================
