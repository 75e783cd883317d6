---------------------------- MODULE LatticeMiners ---------------------------
(***************************************************************************)
(* The miners that go through the lattice of sets of columns, level by     *)
(* level.                                                                  *)
(*                                                                         *)
(* TANE and PFDTane (src/src/core/algorithms/fd/tane): a level of the      *)
(* lattice maps a set of columns to its vertex, and a search is the level  *)
(* it is at with the dependencies registered so far.  The vertices of a    *)
(* level are visited in an order that does not matter: what a key loses    *)
(* from its candidates are columns no sibling asks it for.                 *)
(*                                                                         *)
(* The measures of how far X -> A is from holding (algorithms/fd/          *)
(* afd_metric/afd_metric_calculator.cpp, and the errors that TANE makes of *)
(* them) are fractions <<n, d>>.  The fraction of information (kFi) is     *)
(* left out: it is made of logarithms.                                     *)
(*                                                                         *)
(* FUN (algorithms/fd/fun/fun.cpp): a level maps a candidate to its number *)
(* of distinct values, its closure and its quasi-closure.  Dependencies of *)
(* a level are registered a level later, when the counts of the next have  *)
(* told its closures.                                                      *)
(*                                                                         *)
(* FD_Mine (algorithms/fd/fd_mine/fd_mine.cpp): candidates that are        *)
(* equivalent to another are dropped, and what was dropped is              *)
(* reconstructed at the end.  The maps fd_set_ and eq_set_ are visited in  *)
(* the order of a hash, of which two are tried.                            *)
(***************************************************************************)
EXTENDS Tables

(* A comparison with NaN, of a fraction over zero, fails.                  *)
AtMost(e, f) == e[2] # 0 /\ e[1] * f[2] <= f[1] * e[2]
IsZero(e) == e[2] # 0 /\ e[1] = 0
IsOne(e) == e[2] # 0 /\ e[1] = e[2]
Minus(e, f) == <<e[1] * f[2] - f[1] * e[2], e[2] * f[2]>>
Over(e, f) == <<e[1] * f[2], e[2] * f[1]>>
OneMinus(e) == <<e[2] - e[1], e[2]>>
Sum2(f(_), S) == FoldSet(LAMBDA x, acc : <<acc[1] * f(x)[2] + f(x)[1] * acc[2], acc[2] * f(x)[2]>>, <<0, 1>>, S)

Singletons(K, q) == K \ UNION q
Frequencies(K, q) == {Cardinality(K \cap b) : b \in {b \in q : K \cap b # {}}}
BugLargest(S) == IF S = {} THEN 0 ELSE Max(S)     \* a fault
Largest(S) == IF S = {} THEN 1 ELSE Max(S)

G1Error(t, x, xa) == <<Nep(x) - Nep(xa), Pairs(Len(t))>>
(* A cluster counts whole unless one value of A takes all of it.           *)
G2Error(t, x, a) == <<Sum(LAMBDA K : IF \E b \in a : K \subseteq b THEN 0 ELSE Cardinality(K), x), Len(t)>>
G3(t, x, a) == <<Len(t) - Size(x) + Sum(LAMBDA K : Largest(Frequencies(K, a)), x), Len(t)>>
Rho(t, x, xa) == <<NumCluster(t, x), NumCluster(t, xa)>>
PdepSelf(t, a) == <<Sum(LAMBDA K : Cardinality(K) * Cardinality(K), a) + Len(t) - Size(a), Len(t) * Len(t)>>
Pdep(t, x, a) ==
  LET Share(K) == <<Sum(LAMBDA b : Cardinality(K \cap b) * Cardinality(K \cap b), a)
                      + Cardinality(Singletons(K, a)), Cardinality(K)>>
      all == Sum2(Share, x)
  IN <<(Len(t) - Size(x)) * all[2] + all[1], all[2] * Len(t)>>
Tau(t, x, a) ==
  LET p1 == PdepSelf(t, a)
  IN IF IsOne(p1) THEN <<1, 1>> ELSE Over(Minus(Pdep(t, x, a), p1), OneMinus(p1))
MuPlus(t, x, a) ==
  LET p1 == PdepSelf(t, a)
      k == NumCluster(t, x)
      rest == Over(OneMinus(Pdep(t, x, a)), OneMinus(p1))
      mu == OneMinus(<<rest[1] * (Len(t) - 1), rest[2] * (Len(t) - k)>>)
  IN IF IsOne(p1) \/ k = Len(t) THEN <<1, 1>> ELSE IF AtMost(mu, <<0, 1>>) THEN <<0, 1>> ELSE mu

(* PFDTane::CalculatePFDError: of each cluster of X, the largest cluster   *)
(* of XA that begins in it, in order; a cluster none begins in counts one. *)
Pfd(t, x, xa, per_tuple) ==
  LET largest(K) == Largest({Cardinality(L) : L \in {L \in xa : Min(L) \in K}})
      sum == IF per_tuple THEN <<Sum(largest, x), 1>> ELSE Sum2(LAMBDA K : <<largest(K), Cardinality(K)>>, x)
      unique == Len(t) - Size(x)
  IN <<sum[1] + unique * sum[2], sum[2] * (IF per_tuple THEN Len(t) ELSE Cardinality(x) + unique)>>

Measures == {"g1", "g2", "g3", "rho", "pdep", "tau", "mu_plus", "per_tuple", "per_value"}

(* Tane::CalculateFdError and PFDTane::CalculateFdError.                   *)
FdError(t, m, x, a, xa) ==
  CASE m = "g1" -> G1Error(t, x, xa)
    [] m = "g2" -> G2Error(t, x, a)
    [] m = "g3" -> OneMinus(G3(t, x, a))
    [] m = "rho" -> OneMinus(Rho(t, x, xa))
    [] m = "pdep" -> OneMinus(Pdep(t, x, a))
    [] m = "tau" -> OneMinus(Tau(t, x, a))
    [] m = "mu_plus" -> OneMinus(MuPlus(t, x, a))
    [] m = "per_tuple" -> OneMinus(Pfd(t, x, xa, TRUE))
    [] m = "per_value" -> OneMinus(Pfd(t, x, xa, FALSE))

(* CalculateZeroAryFdError.                                                *)
ZeroAryFdError(t, m, a) ==
  CASE m = "g1" -> OneMinus(<<Nep(a), Pairs(Len(t))>>)
    [] m \in {"g3", "per_tuple", "per_value"} -> <<Len(t) - Largest({Cardinality(K) : K \in a}), Len(t)>>
    [] m = "rho" -> <<NumCluster(t, a) - 1, NumCluster(t, a)>>
    [] m = "pdep" -> OneMinus(PdepSelf(t, a))
    [] OTHER -> IF IsConstant(t, a) THEN <<0, 1>> ELSE <<1, 1>>
-----------------------------------------------------------------------------
(* What the measures are measures of: an error is zero exactly when the    *)
(* dependency holds; g3 is the least share of rows to remove; g1 the share *)
(* of pairs, and g2 of rows, that are in conflict.                         *)
Conflicts(t, X, A) ==
  {<<r, s>> \in Rows(t) \X Rows(t) : r < s /\ X \subseteq AgreeOn(t, r, s) /\ A \notin AgreeOn(t, r, s)}
InConflict(t, X, A) == {r \in Rows(t) : \E p \in Conflicts(t, X, A) : r \in {p[1], p[2]}}
Removals(t, X, A) == {S \in SUBSET Rows(t) : \A p \in Conflicts(t, X, A) : p[1] \in S \/ p[2] \in S}
SameFraction(e, f) == e[2] # 0 /\ f[2] # 0 /\ e[1] * f[2] = f[1] * e[2]

MeasuresAreRight(t) ==
  Len(t) > 1 => \A A \in Columns : \A X \in SUBSET (Columns \ {A}) :
    LET a == CreateFor(t, A)
        x == PliOf(t, X)
        error == [m \in Measures |-> IF X = {} THEN ZeroAryFdError(t, m, a)
                                     ELSE FdError(t, m, x, a, Intersect(x, a))]
    IN /\ \A m \in Measures : IsZero(error[m]) <=> Holds(t, X, A)
       /\ SameFraction(error["g1"], <<Cardinality(Conflicts(t, X, A)), Pairs(Len(t))>>)
       /\ SameFraction(error["g2"], <<Cardinality(InConflict(t, X, A)), Len(t)>>)
       /\ SameFraction(error["g3"], <<Min({Cardinality(S) : S \in Removals(t, X, A)}), Len(t)>>)
-----------------------------------------------------------------------------
(* The options: max_lhs_, the measure, and max_ucc_error_ = max_fd_error_. *)
Vertex(rhs, key, invalid, pli) == [rhs |-> rhs, key |-> key, invalid |-> invalid, pli |-> pli]
Register(found, fds, max_lhs) == found \cup UpTo(max_lhs, fds)

UccError(t, pli) == <<Nep(pli), Pairs(Len(t))>>
Zeroary(t, m, thr) == {A \in Columns : AtMost(ZeroAryFdError(t, m, CreateFor(t, A)), thr)}

Level1(t, m, thr, max_lhs) ==
  LET zeroary == Zeroary(t, m, thr)
      exact(A) == IsZero(ZeroAryFdError(t, m, CreateFor(t, A)))
      first(A) == IF A \in zeroary /\ exact(A) THEN {} ELSE Columns \ zeroary
      ucc(A) == UccError(t, CreateFor(t, A))
      key(A) == AtMost(ucc(A), thr) /\ IsZero(ucc(A)) /\ max_lhs # 0
  IN [level |-> [X \in {{A} : A \in Columns} |->
        LET A == Min(X)
        IN Vertex(IF key(A) THEN first(A) \cap X ELSE first(A), ~AtMost(ucc(A), thr),
                  key(A) /\ IsZero(thr), CreateFor(t, A))],
      found |-> Register(Register({}, {<<{}, A>> : A \in zeroary}, max_lhs),
                         UNION {{<<{A}, B>> : B \in first(A) \ {A}} : A \in {A \in Columns : key(A)}}, max_lhs)]

(* LatticeLevel::GenerateNextLevel.  A child comes from the two vertices   *)
(* that differ in their last column, and needs all its other parents; the  *)
(* children of single columns have none, and keep an empty candidate set.  *)
Parents(Z) == {Z \ {A} : A \in Z}
Child(level, Z) ==
  Vertex({A \in Columns : \A P \in Parents(Z) : A \in level[P].rhs}, \A P \in Parents(Z) : level[P].key,
         \E P \in Parents(Z) : level[P].invalid, {})
Joined(level, X, Y) ==
  /\ Max(X) < Max(Y) /\ X \ {Max(X)} = Y \ {Max(Y)}
  /\ level[X].rhs # {} \/ level[X].key
  /\ level[X].rhs # {} \/ level[Y].key
  /\ Parents(X \cup Y) \subseteq DOMAIN level
  /\ Cardinality(X) > 1 => Child(level, X \cup Y).rhs # {}
GenerateNextLevel(level) ==
  LET V == DOMAIN level
      joins == {j \in V \X V : Joined(level, j[1], j[2])}
  IN [Z \in {j[1] \cup j[2] : j \in joins} |-> Child(level, Z)]

(* TaneCommon::ComputeDependencies: X -> A for the candidates A of each    *)
(* valid vertex XA; an exact one leaves no candidates outside X.           *)
Errors(t, m, rhs, below, Z, pli) ==
  [A \in rhs \cap Z |-> FdError(t, m, below[Z \ {A}].pli, CreateFor(t, A), pli)]
Settled(v, Z, thr, pli, error) ==
  LET valid == {A \in DOMAIN error : AtMost(error[A], thr)}
      exact == {A \in valid : IsZero(error[A])}
  IN [vertex |-> [v EXCEPT !.pli = pli, !.rhs = {B \in @ \ valid : \A A \in exact : B \in Z \ {A}}],
      fds |-> {<<Z \ {A}, A>> : A \in valid}]
Checked(t, m, thr, v, below, Z) ==
  LET pli == Intersect(below[Z \ {Min(Z)}].pli, below[Z \ {Max(Z)}].pli)
  IN IF v.invalid THEN [vertex |-> v, fds |-> {}]
     ELSE Settled(v, Z, thr, pli, Errors(t, m, v.rhs, below, Z, pli))

(* TaneCommon::Prune: what an exact key determines is registered if every  *)
(* sibling still has it as a candidate.                                    *)
BugKeyFds(level, keys) ==     \* a fault: siblings are not asked
  UNION {{<<X, A>> : A \in level[X].rhs \ X} : X \in keys}
KeyFds(level, keys) ==
  UNION {{<<X, A>> : A \in {A \in level[X].rhs \ X : \A B \in X :
            (X \ {B}) \cup {A} \in DOMAIN level /\ A \in level[(X \ {B}) \cup {A}].rhs}} : X \in keys}
Prune(t, thr, level) ==
  LET ucc == [X \in DOMAIN level |-> level[X].key /\ AtMost(UccError(t, level[X].pli), thr)]
      keys == {X \in DOMAIN level : ucc[X] /\ IsZero(UccError(t, level[X].pli))}
  IN [level |-> [X \in DOMAIN level |->
        [level[X] EXCEPT !.key = @ /\ ~ucc[X],
                         !.rhs = IF X \in keys /\ IsZero(thr) THEN @ \cap X ELSE @,
                         !.invalid = @ \/ (X \in keys /\ IsZero(thr))]],
      fds |-> KeyFds(level, keys)]

RECURSIVE Levels(_, _, _, _, _, _, _)
Pruned(t, m, thr, max_lhs, arity, pruned, fds, found) ==
  Levels(t, m, thr, max_lhs, arity + 1, pruned.level, Register(found, fds \cup pruned.fds, max_lhs))
Computed(t, m, thr, max_lhs, arity, checked, found) ==
  LET fds == UNION {checked[Z].fds : Z \in DOMAIN checked}
  IN IF arity = max_lhs + 1 THEN Register(found, fds, max_lhs)
     ELSE Pruned(t, m, thr, max_lhs, arity,
                 Prune(t, thr, [Z \in DOMAIN checked |-> checked[Z].vertex]), fds, found)
Generated(t, m, thr, max_lhs, arity, below, level, found) ==
  IF DOMAIN level = {} THEN found
  ELSE Computed(t, m, thr, max_lhs, arity, [Z \in DOMAIN level |-> Checked(t, m, thr, level[Z], below, Z)], found)
Levels(t, m, thr, max_lhs, arity, level, found) ==
  IF arity > max_lhs + 1 THEN found
  ELSE Generated(t, m, thr, max_lhs, arity, level, GenerateNextLevel(level), found)

Searched(t, m, thr, max_lhs, first) == Levels(t, m, thr, max_lhs, 2, first.level, first.found)
TaneFds(t, m, thr, max_lhs) == Searched(t, m, thr, max_lhs, Level1(t, m, thr, max_lhs))
-----------------------------------------------------------------------------
(* FUN.                                                                    *)
Quadruple(count) == [count |-> count, closure |-> {}, quasi |-> {}]
IsKey(t, l) == l.count = Len(t)
Count(t, X) == NumCluster(t, PliOf(t, X))
RPrime(t) == {A \in Columns : Count(t, {A}) # Len(t)}

(* The count of X where it is known, else the most of its parts.           *)
FastCount(below, level, X) ==
  IF X \in DOMAIN level THEN level[X].count
  ELSE Max({0} \cup {below[Y].count : Y \in {Y \in DOMAIN below : Y \subseteq X}})

ComputeClosure(t, below, level) ==
  [X \in DOMAIN below |->
     IF IsKey(t, below[X]) THEN below[X]
     ELSE [below[X] EXCEPT !.closure = below[X].quasi \cup
             {A \in RPrime(t) \ below[X].quasi : FastCount(below, level, X \cup {A}) = below[X].count}]]

ComputeQuasiClosure(t, below, level) ==
  [X \in DOMAIN level |->
     [level[X] EXCEPT !.closure = IF IsKey(t, level[X]) THEN Columns ELSE @,
                      !.quasi = X \cup UNION {below[Y].closure : Y \in {Y \in DOMAIN below : Y \subseteq X}}]]

DisplayFD(fds, below) ==
  fds \cup {d \in UNION {{<<X, A>> : A \in below[X].closure \ below[X].quasi} : X \in DOMAIN below} :
              ~\E e \in fds : e[2] = d[2] /\ e[1] \subseteq d[1]}

PurePrune(below, level) ==
  {X \in DOMAIN level : \A Y \in DOMAIN below : Y \subseteq X => level[X].count # below[Y].count}

GenerateCandidate(t, level) ==
  LET Zs == UNION {{X \cup {A} : A \in RPrime(t) \ X} : X \in {X \in DOMAIN level : ~IsKey(t, level[X])}}
  IN [Z \in Zs |-> Quadruple(Count(t, Z))]

RECURSIVE FunLevels(_, _, _, _)
FunLevels(t, below, level, fds) ==
  LET closed == ComputeClosure(t, below, level)
      quasi == ComputeQuasiClosure(t, closed, level)
      kept == PurePrune(closed, quasi)
      next == [X \in kept |-> quasi[X]]
  IN IF DOMAIN level = {} THEN DisplayFD(fds, below)
     ELSE FunLevels(t, next, GenerateCandidate(t, next), DisplayFD(fds, closed))

FunFds(t, max_lhs) ==
  LET first == [X \in {{A} : A \in Columns} |-> Quadruple(Count(t, X))]
  IN UpTo(max_lhs, FunLevels(t, [X \in {{}} |-> Quadruple(0)], first,
                             {<<{}, A>> : A \in {A \in Columns : first[{A}].count = 1}}))
-----------------------------------------------------------------------------
(* FD_Mine.                                                                *)
NumOf(t, X) == NumCluster(t, PliOf(t, X))

(* The state of the search: candidate_set_, closure_, key_set_, and the    *)
(* symmetric relation eq_set_; fd_set_ is closure_ of the sets visited.    *)
Start == [candidates |-> {{A} : A \in Columns}, closure |-> [X \in {} |-> {}], keys |-> {}, eq |-> {}]

ComputeNonTrivialClosure(t, X) == {A \in Columns \ X : NumOf(t, X) = NumOf(t, X \cup {A})}
Closed(t, s) ==
  LET closure == [X \in DOMAIN s.closure \cup s.candidates |->
                    IF X \in s.candidates THEN ComputeNonTrivialClosure(t, X) ELSE s.closure[X]]
  IN [s EXCEPT !.closure = closure, !.keys = @ \cup {X \in s.candidates : X \cup closure[X] = Columns}]

ObtainEqSet(s) ==
  LET equal == {<<X, Y>> \in s.candidates \X DOMAIN s.closure :
                  X # Y /\ X \ Y \subseteq s.closure[Y] /\ Y \ X \subseteq s.closure[X]}
  IN [s EXCEPT !.eq = @ \cup equal \cup {<<e[2], e[1]>> : e \in equal}]

(* In ascending order: of equivalent candidates the last stays.            *)
PruneCandidates(s) ==
  LET visit(left, X) ==
        IF (\E Y \in left : <<X, Y>> \in s.eq) \/ X \in s.keys THEN left \ {X} ELSE left
  IN [s EXCEPT !.candidates = FoldLeft(visit, s.candidates, Sorted(s.candidates, Before))]

Similar(X, Y) == X \ {Max(X)} = Y \ {Max(Y)}
GenerateNextLevelCandidates(s) ==
  LET joins == {<<X, Y>> \in s.candidates \X s.candidates :
                  /\ Before(X, Y) /\ Similar(X, Y)
                  /\ ~(Y \subseteq s.closure[X]) /\ ~(X \subseteq s.closure[Y])}
      key(j) == j[1] \cup j[2] \cup s.closure[j[1]] \cup s.closure[j[2]] = Columns
  IN [s EXCEPT !.candidates = {j[1] \cup j[2] : j \in {j \in joins : ~key(j)}},
               !.keys = @ \cup {j[1] \cup j[2] : j \in {j \in joins : key(j)}}]

RECURSIVE FdMineLevels(_, _)
FdMineLevels(t, s) ==
  IF s.candidates = {} THEN s
  ELSE FdMineLevels(t, GenerateNextLevelCandidates(PruneCandidates(ObtainEqSet(Closed(t, s)))))

(* Reconstruct: the right side grows by what is equivalent to a part of it *)
(* (in one pass, and one more for each left side while it still grows),    *)
(* the left sides by exchanging equivalent parts.                          *)
EqOf(s, X) == {e[2] : e \in {e \in s.eq : e[1] = X}}
Grown(s, order, rhs) ==
  FoldLeft(LAMBDA acc, X : IF X \subseteq acc THEN acc \cup UNION EqOf(s, X) ELSE acc, rhs, order)
Exchanged(s, X) == UNION {{(X \ e[1]) \cup e[2] : e \in {e \in s.eq : e[1] \subseteq X}}}

RECURSIVE Observe(_, _, _, _, _, _)
Observe(s, order, queue, observed, rhs, may_change) ==
  LET new == Sorted(Exchanged(s, Head(queue)) \ observed, Before)
      grown == IF may_change THEN Grown(s, order, rhs) ELSE rhs
  IN IF queue = <<>> THEN {<<X, rhs>> : X \in observed}
     ELSE Observe(s, order, Tail(queue) \o new, observed \cup Range(new), grown, grown # rhs)

Reconstruct(s, order) ==
  UNION {Observe(s, order, <<X>>, {X}, Grown(s, order, s.closure[X]), TRUE) : X \in DOMAIN s.closure}

FdMineFds(t, max_lhs, ascending) ==
  LET s == FdMineLevels(t, Start)
      up == Sorted({e[1] : e \in s.eq}, Before)
      final == Reconstruct(s, IF ascending THEN up ELSE Reverse(up))
  IN UpTo(max_lhs, UNION {{<<f[1], A>> : A \in f[2] \ f[1]} : f \in final})
=============================================================================
