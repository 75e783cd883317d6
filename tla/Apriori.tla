------------------------------- MODULE Apriori -------------------------------
(***************************************************************************)
(* Association rules by Apriori (ar/apriori, ar/ar_algorithm.cpp): the     *)
(* tree of frequent itemsets, level by level, the hash tree its candidates *)
(* are counted with, and the tree of consequents the rules of an itemset   *)
(* are found in.  A transaction is a set of items, which are numbers, and  *)
(* an itemset too: a node of a tree stands for the items on its path, in   *)
(* ascending order, and children are in the order of their last items.     *)
(* Fractions are pairs of numerator and denominator.  Below the line are   *)
(* the itemsets and rules by definition.                                   *)
(***************************************************************************)
EXTENDS Integers, Sequences, FiniteSets, FiniteSetsExt, SequencesExt

AtLeast(count, n, least) == count * least[2] >= least[1] * n
Parent(I) == I \ {Max(I)}
Universe(ts) == UNION Range(ts)

(* The frequent itemsets so far, with their counts.                        *)
NoTree == [I \in {} |-> 0]
Nodes(tree, k) == {I \in DOMAIN tree : Cardinality(I) = k}
FirstLevelCandidates(ts) == {{i} : i \in Universe(ts)}
(* Two siblings make a candidate, unless a part of it is not in the tree;  *)
(* the two parts they are themselves are not looked up.                    *)
Skipped(I) == Parent(I)
CanBePruned(tree, I) == \E i \in Skipped(I) : I \ {i} \notin DOMAIN tree
Siblings(S) == {x \in S \X S : Parent(x[1]) = Parent(x[2]) /\ Max(x[1]) < Max(x[2])}
GenerateCandidates(tree, k) ==
  {I \in {x[1] \cup x[2] : x \in Siblings(Nodes(tree, k))} : ~CanBePruned(tree, I)}

(* The hash tree: a node for every sequence of hashes of first items, that *)
(* is split when it holds more than the threshold and its candidates have  *)
(* further items.  A transaction visits the leaves the hashes of some of   *)
(* its items lead to, each once.                                           *)
ItemHash(i, degree) == i % degree
HashesOf(I, degree) == LET s == SetToSortSeq(I, <) IN [k \in DOMAIN s |-> ItemHash(s[k], degree)]
Prefix(s, k) == SubSeq(s, 1, k)
IsInner(hashes, p, threshold) ==
  /\ Cardinality({I \in DOMAIN hashes : Prefix(hashes[I], Len(p)) = p}) > threshold
  /\ \A I \in DOMAIN hashes : Len(p) < Len(hashes[I])
LeafOf(hashes, I, threshold) ==
  Prefix(hashes[I], Min({k \in 0 .. Len(hashes[I]) : ~IsInner(hashes, Prefix(hashes[I], k), threshold)}))
Visits(T, p, degree) == \E S \in kSubset(Len(p), T) : HashesOf(S, degree) = p
CountAt(ts, I, leaf, degree) == Cardinality({k \in DOMAIN ts : Visits(ts[k], leaf, degree) /\ I \subseteq ts[k]})
PerformCounting(ts, hashes, degree, threshold) ==
  [I \in DOMAIN hashes |-> CountAt(ts, I, LeafOf(hashes, I, threshold), degree)]
Counts(ts, candidates, degree) ==
  PerformCounting(ts, [I \in candidates |-> HashesOf(I, degree)], degree, Cardinality(candidates) \div degree + 1)
PruneNodes(counts, n, minsup) == {I \in DOMAIN counts : AtLeast(counts[I], n, minsup)}
AppendToTree(tree, counts, kept) ==
  [I \in DOMAIN tree \cup kept |-> IF I \in kept THEN counts[I] ELSE tree[I]]
Counted(tree, counts, n, minsup) == AppendToTree(tree, counts, PruneNodes(counts, n, minsup))

(* Levels of candidates of k items, counted with branching degree k + 1,   *)
(* until there are none.                                                   *)
Level(s, ts, k, minsup) ==
  IF s.candidates = {} THEN s ELSE [s EXCEPT !.tree = Counted(@, Counts(ts, s.candidates, k + 1), Len(ts), minsup)]
WithCandidates(s, k) == [s EXCEPT !.candidates = GenerateCandidates(s.tree, k)]
FindFrequent(ts, minsup) ==
  FoldLeft(LAMBDA s, k : WithCandidates(Level(s, ts, k, minsup), k),
           [tree |-> NoTree, candidates |-> FirstLevelCandidates(ts)],
           [k \in 1 .. Cardinality(Universe(ts)) |-> k]).tree

(* lower_bound on every level: the first child not below the item; -1 when *)
(* there is none.                                                          *)
ChildrenOf(tree, I) == {J \in DOMAIN tree : Cardinality(J) = Cardinality(I) + 1 /\ Parent(J) = I}
BugNotBelow(tree, I, i) == {J \in ChildrenOf(tree, I) : Max(J) > i}
NotBelow(tree, I, i) == {J \in ChildrenOf(tree, I) : Max(J) >= i}
FirstOf(S) == CHOOSE J \in S : \A K \in S : Max(J) <= Max(K)
Missing == -1
Descend(tree, found, i) ==
  IF found = {Missing} \/ NotBelow(tree, found, i) = {} THEN {Missing} ELSE FirstOf(NotBelow(tree, found, i))
GetSupport(tree, I) ==
  LET node == FoldLeft(LAMBDA found, i : Descend(tree, found, i), {}, SetToSortSeq(I, <))
  IN IF node = {Missing} THEN Missing ELSE tree[node]

(* The rules of a frequent itemset I, by their right sides: the first      *)
(* level has one item, and siblings are merged level by level.  Whether    *)
(* another level follows depends on the node that is visited last.         *)
(* A set that is nowhere has a confidence of 0 by 0, which is not enough.  *)
Confident(tree, I, Y, minconf) ==
  GetSupport(tree, I \ Y) > 0 /\ AtLeast(tree[I], GetSupport(tree, I \ Y), minconf)
FirstRules(tree, I, minconf) == {Y \in {{i} : i \in I} : Confident(tree, I, Y, minconf)}
Mergeable(rights, Y) == {x \in Siblings({Z \in rights : Cardinality(Z) = Cardinality(Y) + 1}) : Parent(x[1]) = Y}
MergeRules(tree, I, rights, Y, minconf) ==
  {Z \in {x[1] \cup x[2] : x \in Mergeable(rights, Y)} : Z # I /\ Confident(tree, I, Z, minconf)}
RuleNodes(rights, k) == IF k = 0 THEN {{}} ELSE {Y \in rights : Cardinality(Y) = k}
VisitedBefore(Y, Z) == \E i \in Y \ Z : \A j \in Z \ Y : i < j
LastVisited(S) == CHOOSE Y \in S : \A Z \in S \ {Y} : VisitedBefore(Z, Y)
GenerateRuleLevel(tree, I, s, level, minconf) ==
  [rights |-> s.rights \cup UNION {MergeRules(tree, I, s.rights, Y, minconf) : Y \in RuleNodes(s.rights, level - 2)},
   generated_any |-> MergeRules(tree, I, s.rights, LastVisited(RuleNodes(s.rights, level - 2)), minconf) # {}]
NextRules(tree, I, s, level, minconf) == IF s.generated_any THEN GenerateRuleLevel(tree, I, s, level, minconf) ELSE s
GenerateRulesFrom(tree, I, first, minconf) ==
  FoldLeft(LAMBDA s, level : NextRules(tree, I, s, level, minconf),
           [rights |-> first, generated_any |-> first # {}], [k \in 1 .. Cardinality(I) |-> k + 1]).rights
RulesOf(tree, I, minconf) ==
  {<<I \ Y, Y>> : Y \in GenerateRulesFrom(tree, I, FirstRules(tree, I, minconf), minconf)}
GenerateAllRules(tree, minconf) == UNION {RulesOf(tree, I, minconf) : I \in {J \in DOMAIN tree : Cardinality(J) > 1}}
-----------------------------------------------------------------------------
Holding(ts, I) == {k \in DOMAIN ts : I \subseteq ts[k]}
Support(ts, I) == Cardinality(Holding(ts, I))
Frequent(ts, minsup) == {I \in (SUBSET Universe(ts)) \ {{}} : AtLeast(Support(ts, I), Len(ts), minsup)}
AllRules(ts, minsup, minconf) ==
  UNION {{<<I \ Y, Y>> : Y \in {Z \in (SUBSET I) \ {{}, I} : AtLeast(Support(ts, I), Support(ts, I \ Z), minconf)}}
           : I \in Frequent(ts, minsup)}

FrequentAreRight(ts, tree, minsup) ==
  DOMAIN tree = Frequent(ts, minsup) /\ \A I \in DOMAIN tree : tree[I] = Support(ts, I)
(* What is found are rules, among them all with few items on the right;    *)
(* those with more are found as long as the node visited last gives any.   *)
MaxConsequent == 3
RulesOfTree(ts, tree, minsup, minconf) ==
  LET found == GenerateAllRules(tree, minconf) IN
  /\ found \subseteq AllRules(ts, minsup, minconf)
  /\ \A rule \in AllRules(ts, minsup, minconf) : Cardinality(rule[2]) <= MaxConsequent => rule \in found
TreeAndRules(ts, tree, minsup, minconf) ==
  FrequentAreRight(ts, tree, minsup) /\ RulesOfTree(ts, tree, minsup, minconf)
AprioriIsRight(ts, minsup, minconf) == TreeAndRules(ts, FindFrequent(ts, minsup), minsup, minconf)
=============================================================================
