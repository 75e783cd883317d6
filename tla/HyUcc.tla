------------------------------- MODULE HyUcc --------------------------------
(***************************************************************************)
(* HyUCC (src/src/core/algorithms/ucc/hyucc): the rounds of HyFD on a tree *)
(* of unique column combinations, its vertices and those marked is_ucc_.   *)
(***************************************************************************)
EXTENDS Hybrid

NewUccTree == [vertices |-> {{}} \cup {{i} : i \in Columns}, uccs |-> {{i} : i \in Columns}]
Generalizations(tree, X) == {Y \in tree.uccs : Y \subseteq X}
BugAddUcc(tree, X) == [tree EXCEPT !.uccs = @ \cup {X}]     \* a fault: no path to it
AddUcc(tree, X) == [vertices |-> tree.vertices \cup PathsTo(X), uccs |-> tree.uccs \cup {X}]

(* RemoveRecursive: vertices without children or a combination go, from    *)
(* the removed one up.                                                     *)
RemoveUcc(tree, X) ==
  LET uccs == tree.uccs \ {X}
      kept(Q) == \E Y \in tree.vertices : Q \in PathsTo(Y) /\ (Y \in uccs \/ Y \notin PathsTo(X))
  IN [vertices |-> {Q \in tree.vertices : Q = {} \/ Q \notin PathsTo(X) \/ kept(Q)}, uccs |-> uccs]

(* Inductor::UpdateUCCTree, the greatest column first.                     *)
SpecializeUCCTree(tree, X) ==
  LET extend(acc, Y, i) == IF Generalizations(acc, Y \cup {i}) # {} THEN acc ELSE AddUcc(acc, Y \cup {i})
      replace(acc, Y) == FoldLeft(LAMBDA a, i : extend(a, Y, i), RemoveUcc(acc, Y), Sorted(Columns \ X, >))
  IN FoldLeft(replace, tree, Sorted(Generalizations(tree, X), Before))
MostFirst(X, Y) == Cardinality(X) > Cardinality(Y) \/ (Cardinality(X) = Cardinality(Y) /\ Before(X, Y))
UpdateUCCTree(tree, non_uccs) == FoldLeft(SpecializeUCCTree, tree, Sorted(non_uccs \ {{}}, MostFirst))

(* Validator::IsUnique: the first row whose group has a row before it.     *)
Repeats(p, X) == LET rows == InOrder(p, X) IN {k \in DOMAIN rows : Pivot(p, X, k) # k}
Repeat(p, X) ==
  LET rows == InOrder(p, X)
      k == Min(Repeats(p, X))
  IN <<rows[k], rows[Pivot(p, X, k)]>>

RECURSIVE UccLevels(_, _, _)
UccLevels(p, v, current) ==
  LET candidates == v.tree.uccs \cap current
      invalid == {X \in candidates : Repeats(p, X) # {}}
      checked == [v.tree EXCEPT !.uccs = @ \ invalid]
      new == {Y \in UNION {{X \cup {i} : i \in Columns \ X} : X \in invalid} : Generalizations(checked, Y) = {}}
      below(X) == {Y \in checked.vertices : X \in PathsTo(Y) /\ Cardinality(Y) = Cardinality(X) + 1}
      next == (UNION {below(X) : X \in current}) \cup (new \ checked.vertices)
      step == [tree |-> FoldSet(LAMBDA X, acc : AddUcc(acc, X), checked, new), level |-> v.level + 1,
               suggestions |-> v.suggestions \cup {Repeat(p, X) : X \in {X \in invalid : Cardinality(X) > 1}},
               previous |-> Cardinality(invalid), done |-> FALSE]
  IN IF current = {} THEN [v EXCEPT !.suggestions = {}, !.done = TRUE]
     ELSE IF Cardinality(invalid) * 100 > Cardinality(candidates \ invalid) /\ v.previous < Cardinality(invalid)
       THEN step
     ELSE UccLevels(p, step, next)

RECURSIVE UccRounds(_, _)
Validated(p, tree, level) ==
  UccLevels(p, [tree |-> tree, level |-> level, suggestions |-> {}, previous |-> 0, done |-> FALSE],
            {X \in tree.vertices : Cardinality(X) = level})
NextRound(s, v, parallel) ==
  IF v.suggestions = {} THEN [prep |-> s.prep, tree |-> v.tree, done |-> v.done, reused |-> s.sampler.reused]
  ELSE UccRounds([prep |-> s.prep, sampler |-> s.sampler, tree |-> v.tree, level |-> v.level,
                  suggestions |-> v.suggestions], parallel)
Sampled(r, s, parallel) == NextRound(s, Validated(s.prep, UpdateUCCTree(r.tree, s.found), r.level), parallel)
UccRounds(r, parallel) == Sampled(r, GetAgreeSets(r.prep, r.sampler, r.suggestions, parallel), parallel)

Registered(r) == [uccs |-> {Restored(r.prep, X) : X \in r.tree.uccs}, done |-> r.done, reused |-> r.reused]
HyUcc(t, parallel, up) ==
  Registered(UccRounds([prep |-> Preprocess(t, up), sampler |-> NewSampler, tree |-> NewUccTree, level |-> 1,
                        suggestions |-> {}], parallel))
=============================================================================
