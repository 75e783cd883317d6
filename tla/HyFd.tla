-------------------------------- MODULE HyFd --------------------------------
(***************************************************************************)
(* HyFD (src/src/core/algorithms/fd/hyfd): rounds of sampling, of taking   *)
(* the violated dependencies out of a prefix tree, and of validating the   *)
(* tree level by level.  A tree is its vertices (paths of columns, here    *)
(* sets), the dependencies stored and the attributes marked at them.       *)
(***************************************************************************)
EXTENDS Hybrid

NewTree == [vertices |-> {{}}, fds |-> {<<{}, A>> : A \in Columns}, marks |-> {}]
FdsAt(tree, X) == {A \in Columns : <<X, A>> \in tree.fds}
Children(tree, X) == {Y \in tree.vertices : X \in PathsTo(Y) /\ Cardinality(Y) = Cardinality(X) + 1}

AddFD(tree, X, A) ==
  [vertices |-> tree.vertices \cup PathsTo(X), fds |-> tree.fds \cup {<<X, A>>},
   marks |-> tree.marks \cup {<<Q, A>> : Q \in PathsTo(X)}]

(* A search stops at the first dependency on its path, and enters a vertex *)
(* if it is marked.                                                        *)
FdAndGenerals(tree, X, A) ==
  {Y \in SUBSET X : /\ <<Y, A>> \in tree.fds
                    /\ \A Q \in PathsTo(Y) : /\ Q # {} => <<Q, A>> \in tree.marks
                                             /\ Q # Y => <<Q, A>> \notin tree.fds}
FindFdOrGeneral(tree, X, A) == FdAndGenerals(tree, X, A) # {}

(* RemoveRecursive, from the vertex up while nothing else needs the mark.  *)
RECURSIVE Climb(_, _, _)
Climb(tree, child, A) ==
  LET parent == child \ {Max(child)}
      gone == {Y \in tree.vertices : child \in PathsTo(Y)}
      pruned == IF \E B \in Columns : <<child, B>> \in tree.marks THEN tree
                ELSE [tree EXCEPT !.vertices = @ \ gone, !.fds = {f \in @ : f[1] \notin gone},
                                  !.marks = {f \in @ : f[1] \notin gone}]
  IN IF child = {} THEN tree
     ELSE IF \E Y \in Children(pruned, parent) : <<Y, A>> \in pruned.marks THEN pruned
     ELSE Climb([pruned EXCEPT !.marks = @ \ {<<parent, A>>}], parent, A)
RemoveFrom(tree, X, A) == Climb([tree EXCEPT !.fds = @ \ {<<X, A>>}, !.marks = @ \ {<<X, A>>}], X, A)
-----------------------------------------------------------------------------
(* Inductor::UpdateFdTree: violated sides with the most columns first.     *)
SpecializeTreeForNonFd(tree, X, A, max_lhs) ==
  LET extend(acc, Y, i) ==
        IF FindFdOrGeneral(acc, Y \cup {i}, A) THEN acc ELSE AddFD(acc, Y \cup {i}, A)
      replace(acc, Y) ==
        IF Cardinality(Y) = max_lhs THEN RemoveFrom(acc, Y, A)
        ELSE FoldLeft(LAMBDA a, i : extend(a, Y, i), RemoveFrom(acc, Y, A), Sorted(Columns \ (X \cup {A}), <))
  IN FoldLeft(replace, tree, Sorted(FdAndGenerals(tree, X, A), Before))
MoreColumns(X, Y) == Cardinality(X) > Cardinality(Y) \/ (Cardinality(X) = Cardinality(Y) /\ Before(X, Y))
UpdateFdTree(tree, non_fds, max_lhs) ==
  FoldLeft(LAMBDA acc, X : FoldLeft(LAMBDA a, A : SpecializeTreeForNonFd(a, X, A, max_lhs), acc, Sorted(Columns \ X, <)),
           tree, Sorted(non_fds \ {{}}, MoreColumns))
-----------------------------------------------------------------------------
(* Where X -> A first fails: a row of the first column's clusters whose    *)
(* cluster of A is not that of the first row of its group.                 *)
Failures(p, X, A) ==
  LET rows == InOrder(p, X)
  IN {k \in DOMAIN rows : Pivot(p, X, k) # k /\ A \notin Match(p, rows[k], rows[Pivot(p, X, k)])}
Valid(p, X, A) == IF X = {} THEN IsConstantIn(p, A) ELSE Failures(p, X, A) = {}
(* Only Refine, from two columns on, suggests pairs.                       *)
Suggestions(p, invalid) ==
  {LET rows == InOrder(p, f[1])
       k == Min(Failures(p, f[1], f[2]))
   IN <<rows[k], rows[Pivot(p, f[1], k)]>> : f \in {f \in invalid : Cardinality(f[1]) > 1}}

(* AddExtendedCandidatesFromInvalid.                                       *)
Extensions(tree, f) ==
  {f[1] \cup {B} : B \in {B \in Columns \ (f[1] \cup {f[2]}) :
     /\ ~FindFdOrGeneral(tree, f[1], B)
     /\ <<{B}, f[2]>> \notin tree.fds
     /\ ~FindFdOrGeneral(tree, f[1] \cup {B}, f[2])}}

(* ValidateAndExtendCandidates.  It comes back to a level by GetLevel,     *)
(* which leaves out the vertices without dependencies.                     *)
GetLevel(tree, level) == {X \in tree.vertices : Cardinality(X) = level /\ FdsAt(tree, X) # {}}
Extended(tree, X, A) == AddFD(tree, X, A)

RECURSIVE ValidateLevels(_, _, _, _)
ValidateLevels(p, v, current, max_lhs) ==
  LET candidates == {f \in v.tree.fds : f[1] \in current}
      invalid == {f \in candidates : ~Valid(p, f[1], f[2])}
      checked == [v.tree EXCEPT !.fds = @ \ invalid]
      new == UNION {{<<X, f[2]>> : X \in Extensions(checked, f)} : f \in invalid}
      extended == FoldSet(LAMBDA f, acc : Extended(acc, f[1], f[2]), checked, new)
      next == (UNION {Children(checked, X) : X \in current}) \cup ({f[1] : f \in new} \ checked.vertices)
      suggestions == v.suggestions \cup Suggestions(p, invalid)
      slow == Cardinality(invalid) * 100 > Cardinality(candidates \ invalid) /\ v.previous < Cardinality(invalid)
      step == [tree |-> extended, level |-> v.level + 1, suggestions |-> suggestions,
               previous |-> Cardinality(invalid), done |-> FALSE]
  IN IF current = {} THEN [v EXCEPT !.suggestions = {}, !.done = TRUE]
     ELSE IF v.level = max_lhs THEN [v EXCEPT !.tree = checked, !.suggestions = {}, !.done = TRUE]
     ELSE IF slow THEN step
     ELSE ValidateLevels(p, step, next, max_lhs)
ValidateAndExtendCandidates(p, tree, level, max_lhs) ==
  ValidateLevels(p, [tree |-> tree, level |-> level, suggestions |-> {}, previous |-> 0, done |-> FALSE],
                 IF level = 0 THEN {{}} ELSE GetLevel(tree, level), Min({max_lhs, NumColumns}))

(* ExecuteInternal: no suggestions end it, whether or not the levels did.  *)
RECURSIVE Rounds(_, _, _, _)
Sampled(s, tree, level, max_lhs) ==
  [s |-> s, v |-> ValidateAndExtendCandidates(s.prep, UpdateFdTree(tree, s.found, max_lhs), level, max_lhs)]
NextRound(r, parallel, max_lhs, n) ==
  IF r.v.suggestions = {} THEN [prep |-> r.s.prep, tree |-> r.v.tree, done |-> r.v.done, rounds |-> n,
                                reused |-> r.s.sampler.reused]
  ELSE Rounds([prep |-> r.s.prep, sampler |-> r.s.sampler, tree |-> r.v.tree, level |-> r.v.level,
               suggestions |-> r.v.suggestions], parallel, max_lhs, n + 1)
Rounds(r, parallel, max_lhs, n) ==
  NextRound(Sampled(GetAgreeSets(r.prep, r.sampler, r.suggestions, parallel), r.tree, r.level, max_lhs),
       parallel, max_lhs, n)

Registered(r) ==
  [fds |-> {<<Restored(r.prep, f[1]), r.prep.og[f[2]]>> : f \in r.tree.fds}, done |-> r.done,
   rounds |-> r.rounds, reused |-> r.reused]
HyFd(t, parallel, up, max_lhs) ==
  Registered(Rounds([prep |-> Preprocess(t, up), sampler |-> NewSampler, tree |-> NewTree, level |-> 0,
                     suggestions |-> {}], parallel, max_lhs, 1))
=============================================================================
