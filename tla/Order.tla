-------------------------------- MODULE Order -------------------------------
(***************************************************************************)
(* algos::order::Order (src/src/core/algorithms/od/order), which finds     *)
(* order dependencies between lists of columns: a row that comes before    *)
(* another by the left list comes before it by the right one.  A table is  *)
(* a sequence of rows of ranks; 0 is a null, and rows with one are left    *)
(* out.  Maps and sets of the code whose order decides nothing are         *)
(* functions and sets here.                                                *)
(***************************************************************************)
EXTENDS Integers, Sequences, FiniteSets, FiniteSetsExt, SequencesExt

LOCAL Tuple(s) == SubSeq(s, 1, Len(s))
LOCAL Merge == "kMerge"
LOCAL Swap == "kSwap"
LOCAL Valid == "kValid"

ColumnsOf(t) == DOMAIN t[1]
UsedRows(t) == {r \in DOMAIN t : \A c \in ColumnsOf(t) : t[r][c] # 0}

(* Sorted partitions: the classes of equal rows, in order.                 *)
Ascending(S) == Tuple([i \in 1 .. Cardinality(S) |-> CHOOSE x \in S : Cardinality({y \in S : y < x}) = i - 1])
SingleColumn(t, c) ==
  LET values == Ascending({t[r][c] : r \in UsedRows(t)})
  IN Tuple([i \in DOMAIN values |-> {r \in UsedRows(t) : t[r][c] = values[i]}])
(* A class of one row stays; of the others, the rows take the order of the *)
(* other partition, whose single class, if it has no more, holds none.     *)
Cut(class, other) ==
  IF Cardinality(class) = 1 THEN <<class>>
  ELSE IF Len(other) <= 1 THEN <<>>
  ELSE SelectSeq([i \in DOMAIN other |-> class \cap other[i]], LAMBDA K : K # {})
Intersect(partition, other) == FoldLeft(LAMBDA res, class : res \o Cut(class, other), <<>>, partition)
PartitionOf(singles, list) ==
  FoldLeft(LAMBDA p, c : Intersect(p, singles[c]), singles[Head(list)], Tail(list))

(* CheckForSwap goes through both at once; the rest of a class that is     *)
(* only partly met stays for the next step.                                *)
BugMeet(scan) ==
  LET l == Head(scan.l) r == Head(scan.r) IN
  IF Cardinality(l) <= Cardinality(r)
    THEN [l |-> Tail(scan.l), r |-> IF l = r THEN Tail(scan.r) ELSE <<r \ l>> \o Tail(scan.r),
          res |-> IF ~(l \subseteq r) THEN Swap ELSE IF l = r THEN scan.res ELSE Merge]
    ELSE [l |-> <<l \ r>> \o Tail(scan.l), r |-> Tail(scan.r), res |-> IF r \subseteq l THEN Valid ELSE Swap]
Meet(scan) ==
  LET l == Head(scan.l) r == Head(scan.r) IN
  IF Cardinality(l) < Cardinality(r)
    THEN [l |-> Tail(scan.l), r |-> <<r \ l>> \o Tail(scan.r), res |-> IF l \subseteq r THEN Merge ELSE Swap]
    ELSE [l |-> IF l \subseteq r THEN Tail(scan.l) ELSE <<l \ r>> \o Tail(scan.l), r |-> Tail(scan.r),
          res |-> IF r \subseteq l THEN scan.res ELSE Swap]
CheckForSwap(l, r) ==
  FoldLeft(LAMBDA scan, i : IF scan.res = Swap \/ scan.l = <<>> \/ scan.r = <<>> THEN scan ELSE Meet(scan),
           [l |-> l, r |-> r, res |-> Valid], [i \in 1 .. Len(l) + Len(r) |-> i]).res
-----------------------------------------------------------------------------
(* PruneSingleEqClassPartitions goes through the columns in some order:    *)
(* one with a single class orders all those not yet taken out.             *)
PruneSingle(singles, columns) ==
  FoldLeft(LAMBDA st, c : IF Len(singles[c]) # 1 THEN st
                          ELSE [valid |-> st.valid \cup {<<<<c>>, <<d>>>> : d \in st.single \ {c}},
                                single |-> st.single \ {c}],
           [valid |-> {}, single |-> ToSet(columns)], columns)

(* valid_ and merge_invalidated_ as sets of pairs; candidate_sets_ as a    *)
(* function, since a list may be there with no candidates.                 *)
CandidatesOf(o, lhs) == IF lhs \in DOMAIN o.candidates THEN o.candidates[lhs] ELSE {}
OrderInit(st) ==
  [valid |-> st.valid, merged |-> {}, level |-> 1, nodes |-> {<<c>> : c \in st.single},
   single |-> st.single,
   candidates |-> [lhs \in {<<c>> : c \in st.single} |-> {<<c>> : c \in st.single} \ {lhs}]]

ProperPrefixes(list) == {SubSeq(list, 1, i) : i \in 1 .. Len(list) - 1}
MaxPrefix(list) == Front(list)
AreDisjoint(a, b) == ToSet(a) \cap ToSet(b) = {}
Extended(o, lhs, rhs) == {Append(rhs, c) : c \in o.single \ (ToSet(lhs) \cup ToSet(rhs))}

(* Where std::search finds part in list, from a place on; 0 if nowhere.    *)
Found(list, from, part) ==
  LET places == {i \in from .. Len(list) - Len(part) + 1 : SubSeq(list, i, i + Len(part) - 1) = part}
  IN IF places = {} THEN 0 ELSE Min(places)
(* A list is not minimal if it holds the right side of a dependency and    *)
(* then the left one, or the left one just before the right one.           *)
Redundant(list, lhs, rhs) ==
  LET at == Found(list, 1, rhs) before == Found(SubSeq(list, 1, at - 1), 1, lhs)
  IN at # 0 /\ (Found(list, at + Len(rhs), lhs) # 0 \/ (before # 0 /\ before + Len(lhs) = at))
IsMinimal(o, list) == \A d \in o.valid : ~Redundant(list, d[1], d[2])

ExtendedRhsIsPrunable(o, lhs, extended) ==
  /\ \A prefix \in ProperPrefixes(extended) : <<MaxPrefix(lhs), prefix>> \notin o.valid
  /\ extended \notin CandidatesOf(o, MaxPrefix(lhs))
NextCandidates(o, lhs) ==
  IF Len(lhs) # o.level - 1
    THEN {ext \in UNION {Extended(o, lhs, rhs) : rhs \in {x \in o.candidates[lhs] : <<lhs, x>> \notin o.valid}} :
            ~(Len(lhs) > 1 /\ ExtendedRhsIsPrunable(o, lhs, ext)) /\ IsMinimal(o, ext)}
  ELSE IF IsMinimal(o, lhs) THEN {rhs \in CandidatesOf(o, MaxPrefix(lhs)) : AreDisjoint(lhs, rhs)}
  ELSE {}
(* Looking up the candidates of a prefix that is not there puts it there,  *)
(* while the loop goes through the map; if the map is then rehashed, the   *)
(* loop may pass over some lists.  How loops go through the map: they pass *)
(* over the lists in passed, and come to short ones first if upward.       *)
Inserts(o) ==
  \E lhs \in DOMAIN o.candidates :
    Len(lhs) = o.level - 1 /\ IsMinimal(o, lhs) /\ MaxPrefix(lhs) \notin DOMAIN o.candidates
Seen(o, inserts, loop) == DOMAIN o.candidates \ (IF inserts THEN loop.passed ELSE {})
UpdateCandidateSets(o, loop) ==
  LET seen == Seen(o, Inserts(o), loop)
      kept == {lhs \in seen : NextCandidates(o, lhs) # {}}
  IN IF o.level < 3 THEN o ELSE [o EXCEPT !.candidates = [lhs \in kept |-> NextCandidates(o, lhs)]]

(* The candidates of the level: its nodes, cut in two.                     *)
HasValidPrefix(o, lhs, rhs) == \E prefix \in ProperPrefixes(rhs) : <<lhs, prefix>> \in o.valid
MergedBefore(o, lhs, rhs) == \E prefix \in ProperPrefixes(lhs) : <<prefix, rhs>> \in o.merged
Checked(o) ==
  {d \in UNION {{<<SubSeq(n, 1, i), SubSeq(n, i + 1, Len(n))>> : i \in 1 .. Len(n) - 1} : n \in o.nodes} :
     d[2] \in CandidatesOf(o, d[1]) /\ ~HasValidPrefix(o, d[1], d[2])}
Validity(o, singles, lhs, rhs) ==
  IF MergedBefore(o, lhs, rhs) THEN Merge
  ELSE IF Len(PartitionOf(singles, lhs)) = 1 THEN Valid
  ELSE CheckForSwap(PartitionOf(singles, lhs), PartitionOf(singles, rhs))
(* A list that numbers all the rows of the table is not extended, nor is   *)
(* one with a single class.                                                *)
Closed(t, singles, lhs) == Len(PartitionOf(singles, lhs)) \in {1, Len(t)}
WithValidity(t, singles, o, validity) ==
  LET of(v) == {d \in DOMAIN validity : validity[d] = v}
      gone == of(Swap) \cup {d \in of(Valid) : Closed(t, singles, d[1])}
  IN [o EXCEPT !.valid = @ \cup of(Valid), !.merged = @ \cup of(Merge),
               !.candidates = [lhs \in DOMAIN @ |-> {rhs \in @[lhs] : <<lhs, rhs>> \notin gone}]]
(* What is extended on the right alone need not be extended on the left.   *)
Prunable(o, lhs, rhs) ==
  /\ Len(lhs) > 1 /\ <<MaxPrefix(lhs), rhs>> \in o.merged
  /\ \A other \in CandidatesOf(o, MaxPrefix(lhs)) : MaxPrefix(other) # rhs
PrefixLookups(o) ==
  {MaxPrefix(lhs) : lhs \in {x \in DOMAIN o.candidates :
     Len(x) > 1 /\ \E rhs \in o.candidates[x] : <<MaxPrefix(x), rhs>> \in o.merged}}
PruneLists(o, lists) ==
  [o EXCEPT !.candidates = [lhs \in DOMAIN @ |-> {rhs \in @[lhs] : ~(lhs \in lists /\ Prunable(o, lhs, rhs))}]]
MergePrune(o, loop) ==
  LET seen == Seen(o, ~(PrefixLookups(o) \subseteq DOMAIN o.candidates), loop)
      lengths == [n \in 1 .. o.level |-> n]
      looked == [o EXCEPT !.candidates = [lhs \in DOMAIN @ \cup PrefixLookups(o) |-> CandidatesOf(o, lhs)]]
  IN IF o.level < 3 THEN o
     ELSE FoldLeft(LAMBDA acc, n : PruneLists(acc, {lhs \in seen : Len(lhs) = n}), looked,
                   IF loop.upward THEN lengths ELSE Reverse(lengths))
ComputeDependencies(t, singles, o, loop) ==
  IF o.level < 2 THEN o
  ELSE MergePrune(WithValidity(t, singles, o, [d \in Checked(o) |-> Validity(o, singles, d[1], d[2])]), loop)

Prune(o) ==
  IF o.level < 2 THEN o
  ELSE [o EXCEPT !.nodes = {n \in @ : \E prefix \in ProperPrefixes(n) : CandidatesOf(o, prefix) # {}},
                 !.candidates = [lhs \in {x \in DOMAIN @ : @[x] # {}} |-> @[lhs]]]
GenerateNextLevel(o) ==
  [o EXCEPT
     !.level = @ + 1,
     !.nodes = {Append(x[1], Last(x[2])) : x \in {y \in o.nodes \X o.nodes : y[1] # y[2] /\ Front(y[1]) = Front(y[2])}},
     !.candidates = IF o.level > 1 /\ DOMAIN @ # {}
                      THEN [lhs \in DOMAIN @ \cup o.nodes |-> IF lhs \in o.nodes THEN {} ELSE @[lhs]] ELSE @]
NextLevel(t, singles, o, loop) ==
  IF o.nodes = {} THEN o
  ELSE GenerateNextLevel(Prune(ComputeDependencies(t, singles, UpdateCandidateSets(o, loop), loop)))
Execute(t, singles, columns, loop) ==
  FoldLeft(LAMBDA o, i : NextLevel(t, singles, o, loop), OrderInit(PruneSingle(singles, columns)),
           [i \in 1 .. Len(columns) + 1 |-> i]).valid
-----------------------------------------------------------------------------
(* The dependencies by definition.                                         *)
ComesBefore(t, list, r, s) ==
  \E i \in DOMAIN list : t[r][list[i]] < t[s][list[i]] /\ \A j \in 1 .. i - 1 : t[r][list[j]] = t[s][list[j]]
OrderHolds(t, lhs, rhs) ==
  \A r, s \in UsedRows(t) : ComesBefore(t, lhs, r, s) => ComesBefore(t, rhs, r, s)
Lists(C) == {list \in UNION {[1 .. n -> C] : n \in 1 .. Cardinality(C)} : IsInjective(list)}

(* What holds follows from what is found, up to lists that give the same   *)
(* order: a row that is before by the beginning of a list is before by it. *)
Beginnings(list) == {SubSeq(list, 1, i) : i \in DOMAIN list}
SameOrder(t, a, b) == OrderHolds(t, a, b) /\ OrderHolds(t, b, a)
Follows(t, d, e) ==
  /\ \E a \in Beginnings(e[1]) : SameOrder(t, a, d[1])
  /\ \E b \in Beginnings(d[2]) : SameOrder(t, b, e[2])
Holding(t) ==
  LET varied == {c \in ColumnsOf(t) : \E r, s \in UsedRows(t) : t[r][c] # t[s][c]} IN
  {d \in Lists(varied) \X Lists(varied) : AreDisjoint(d[1], d[2]) /\ OrderHolds(t, d[1], d[2])}

ExecuteIsRight(t, found) ==
  /\ \A d \in found : OrderHolds(t, d[1], d[2])
  /\ \A d \in Holding(t) : \E e \in found : Follows(t, d, e)

(* Nothing is found that does not hold, and everything if no list is       *)
(* passed over; where all rows hold a null, the code reads past the end.   *)
ListsAreRight(t) ==
  LET singles == Tuple([c \in ColumnsOf(t) |-> SingleColumn(t, c)])
      ascending == Tuple([c \in ColumnsOf(t) |-> c])
      Loop(passed, upward) == [passed |-> passed, upward |-> upward] IN
  UsedRows(t) # {} =>
    /\ ExecuteIsRight(t, Execute(t, singles, ascending, Loop({}, TRUE)))
    /\ ExecuteIsRight(t, Execute(t, singles, Reverse(ascending), Loop({}, FALSE)))
    /\ \A d \in Execute(t, singles, ascending, Loop(Lists(ColumnsOf(t)), TRUE)) : OrderHolds(t, d[1], d[2])
=============================================================================
