---------------------------- MODULE Miners_proofs ---------------------------
(***************************************************************************)
(* The two miners that search at random, DFD and HPIValid, find exactly    *)
(* what there is to find, on every table and whatever they draw.           *)
(***************************************************************************)
EXTENDS Dfd, HpiValid, FiniteSetTheorems, SequenceTheorems, NaturalsInduction,
        WellFoundedInduction, TLAPS
-----------------------------------------------------------------------------
(* DFD's walk. Why it may go down from what holds, up from what does not,  *)
(* and turn round wherever the maps settle the next set.                   *)

(* The sets the walk may stand on: an empty left side is settled before    *)
(* it.                                                                     *)
Proper == Sides \ {{}}
Seen == DOMAIN observations

(* On the walk's way: the set it visits, and those it will come back to.   *)
OnTrace(X) == X = node \/ \E k \in DOMAIN trace : trace[k] = X

(* Types; the walk leaves the trace empty between two seeds. What holds,   *)
(* holds of every larger set.                                              *)
WalkTypeInv ==
  /\ holds \in UpSets(Sides)
  /\ Seen \subseteq Proper
  /\ \A X \in Seen : observations[X] \in DepKinds \cup NonDepKinds
  /\ seeds \subseteq Proper
  /\ trace \in Seq(Proper)
  /\ node \in Sides
  /\ node = {} => trace = <<>>

(* No set is in the wrong category, or in the wrong map.                   *)
MapsInv ==
  /\ CategoriesAreTrue
  /\ dependencies_map \subseteq Seen \cap holds
  /\ non_dependencies_map \subseteq Seen \ holds

(* What was registered is least, and whatever has the category of a least  *)
(* dependency was registered. A single column that determines rhs_ never   *)
(* gets another category.                                                  *)
LhsInv ==
  /\ minimal_deps \subseteq Minimize(holds)
  /\ \A X \in Seen : observations[X] = "minimal_dep" => X \in minimal_deps
  /\ \A c \in Candidates : {c} \in Seen \cap holds => observations[{c}] = "minimal_dep"

(* A larger set was seen that does not determine rhs_.                     *)
CoveredBy(X, obs) == \E Y \in DOMAIN obs \ holds : X \subseteq Y /\ X # Y

(* Above every set that was seen and does not determine rhs_ there is one  *)
(* in maximal_non_deps that was, or the walk will come back to look for    *)
(* it.                                                                     *)
UpInv ==
  /\ maximal_non_deps \subseteq Sides \ holds
  /\ \A X \in Seen \ holds :
       \/ X \in maximal_non_deps
       \/ CoveredBy(X, observations)
       \/ observations[X] = "candidate_non_dep" /\ OnTrace(X)

(* Every column is a seed, or was one.                                     *)
SeedsInv == \A c \in Candidates : {c} \in seeds \/ {c} = node \/ {c} \in Seen
WalkInv == WalkTypeInv /\ MapsInv /\ LhsInv /\ UpInv /\ SeedsInv

(* The empty set determines nothing, and what holds does so upwards.       *)
LEMMA Upward ==
  ASSUME holds \in UpSets(Sides)
  PROVE  /\ holds \subseteq Proper
         /\ \A X \in holds : \A Y \in Sides : X \subseteq Y => Y \in holds
  BY DEF UpSets, Proper

(* A visited set is finite; of one column at most is of one column.        *)
LEMMA Singles ==
  ASSUME IsFiniteSet(Candidates), NEW X \in Proper
  PROVE  /\ IsFiniteSet(X)
         /\ Cardinality(X) <= 1 <=> \E c \in Candidates : X = {c}
  <1>1. IsFiniteSet(X)
    BY FS_Subset DEF Proper, Sides
  <1>2. Cardinality(X) \in Nat /\ (Cardinality(X) = 0 <=> X = {})
    BY <1>1, FS_CardinalityType, FS_EmptySet
  <1>3. Cardinality(X) = 1 <=> \E c : X = {c}
    BY <1>1, FS_Singleton
  <1>4. (\E c : X = {c}) <=> \E c \in Candidates : X = {c}
    BY DEF Proper, Sides
  <1> QED
    BY <1>1, <1>2, <1>3, <1>4 DEF Proper

(* UpdateDependencyCategory on a set that determines rhs_: only a least    *)
(* one is taken for least, and one that cannot be decided yet has a        *)
(* subset to visit.                                                        *)
LEMMA DependencyCategories ==
  ASSUME IsFiniteSet(Candidates), WalkTypeInv, MapsInv, NEW X \in Proper, X \in holds
  PROVE  /\ DependencyCategory(X) \in DepKinds
         /\ DependencyCategory(X) = "minimal_dep" => X \in Minimize(holds)
         /\ (\E c \in Candidates : X = {c}) => DependencyCategory(X) = "minimal_dep"
         /\ DependencyCategory(X) = "candidate_dep" => ~(Below(X) \subseteq Seen)
  <1>1. DependencyCategory(X) \in DepKinds
    BY DEF DependencyCategory, DepKinds
  <1>2. (\E c \in Candidates : X = {c}) => DependencyCategory(X) = "minimal_dep"
    BY Singles DEF DependencyCategory
  <1>3. DependencyCategory(X) = "candidate_dep" => ~(Below(X) \subseteq Seen)
    BY DEF DependencyCategory, Seen
  <1>4. ASSUME DependencyCategory(X) = "minimal_dep" PROVE X \in Minimize(holds)
    <2> SUFFICES ASSUME NEW Y \in holds, Y \subseteq X, Y # X PROVE FALSE
      BY DEF Minimize
    <2>1. Y \in Proper
      BY Upward DEF WalkTypeInv
    <2>2. PICK c \in X : Y \subseteq X \ {c}
      OBVIOUS
    <2>3. X \ {c} \in Below(X) /\ X \ {c} \in Sides
      BY DEF Below, Proper, Sides
    <2>4. X \ {c} \in holds
      BY <2>2, <2>3, Upward DEF WalkTypeInv
    <2>5. ~(Cardinality(X) <= 1)
      BY <2>1, <2>2, Singles DEF Proper
    <2>6. X \ {c} \in Seen => observations[X \ {c}] \in DepKinds
      BY <2>4 DEF MapsInv, CategoriesAreTrue, Seen
    <2> QED
      BY <1>4, <2>3, <2>5, <2>6 DEF DependencyCategory, Seen
  <1> QED
    BY <1>1, <1>2, <1>3, <1>4

(* UpdateNonDependencyCategory on a set that does not: one that is taken   *)
(* for the largest has only dependencies above it, one that is taken for   *)
(* less has a larger one, and one that cannot be decided yet has a         *)
(* superset to visit.                                                      *)
LEMMA NonDependencyCategories ==
  ASSUME WalkTypeInv, MapsInv, NEW X \in Proper, X \notin holds
  PROVE  /\ NonDependencyCategory(X) \in NonDepKinds
         /\ NonDependencyCategory(X) = "non_dep" => CoveredBy(X, observations)
         /\ NonDependencyCategory(X) = "maximal_non_dep" =>
              /\ Above(X) \subseteq Seen
              /\ \A Y \in Above(X) : Y \in holds
         /\ NonDependencyCategory(X) = "candidate_non_dep" => ~(Above(X) \subseteq Seen)
  <1>1. NonDependencyCategory(X) \in NonDepKinds
    BY DEF NonDependencyCategory, NonDepKinds
  <1>2. \A Y \in Above(X) \cap Seen : observations[Y] \in NonDepKinds <=> Y \notin holds
    BY DEF WalkTypeInv, MapsInv, CategoriesAreTrue, Seen, DepKinds, NonDepKinds
  <1>3. \A Y \in Above(X) : X \subseteq Y /\ X # Y
    BY DEF Above
  <1>4. NonDependencyCategory(X) = "non_dep" => CoveredBy(X, observations)
    BY <1>2, <1>3 DEF NonDependencyCategory, CoveredBy, Seen
  <1>5. NonDependencyCategory(X) = "maximal_non_dep" =>
          /\ Above(X) \subseteq Seen
          /\ \A Y \in Above(X) : Y \in holds
    BY <1>2 DEF NonDependencyCategory, Seen
  <1>6. NonDependencyCategory(X) = "candidate_non_dep" => ~(Above(X) \subseteq Seen)
    BY DEF NonDependencyCategory, Seen
  <1> QED
    BY <1>1, <1>4, <1>5, <1>6

(* The maps infer nothing wrong, so that the walk takes a set for what it  *)
(* is.                                                                     *)
LEMMA Inference ==
  ASSUME WalkTypeInv, MapsInv, NEW X \in Proper
  PROVE  /\ KnownDependency(X) => X \in holds
         /\ KnownNonDependency(X) => X \notin holds
         /\ TakenForDependency(X) <=> X \in holds
  <1>1. KnownDependency(X) => X \in holds
    BY Upward DEF KnownDependency, WalkTypeInv, MapsInv, Proper
  <1>2. KnownNonDependency(X) => X \notin holds
    <2> SUFFICES ASSUME NEW Y \in non_dependencies_map, X \subseteq Y, X \in holds PROVE FALSE
      BY DEF KnownNonDependency
    <2>1. Y \in Sides /\ Y \notin holds
      BY DEF MapsInv, WalkTypeInv, Proper
    <2> QED
      BY <2>1, Upward DEF WalkTypeInv
  <1>3. X \in Seen => (observations[X] \in DepKinds <=> X \in holds)
    BY DEF MapsInv, CategoriesAreTrue, Seen
  <1>4. TakenForDependency(X) <=> X \in holds
    BY <1>1, <1>2, <1>3 DEF TakenForDependency, Seen
  <1> QED
    BY <1>1, <1>2, <1>4

(* The category was there or inferred: InferCategory registers nothing.    *)
Final(X) == Inferred(X) \/ (X \in Seen /\ ~Recategorized(X))

(* The category the walk gives to a set, whether it had one, the maps      *)
(* infer one or it is worked out, is right; and what it does not register  *)
(* although it could was registered before.                                *)
LEMMA Categories ==
  ASSUME IsFiniteSet(Candidates), WalkInv, NEW X \in Proper
  PROVE  /\ Category(X) \in DepKinds \cup NonDepKinds
         /\ Category(X) \in DepKinds <=> X \in holds
         /\ Category(X) = "minimal_dep" => X \in Minimize(holds)
         /\ Category(X) = "minimal_dep" /\ Final(X) => X \in minimal_deps
         /\ X \in holds /\ (\E c \in Candidates : X = {c}) => Category(X) = "minimal_dep"
         /\ Category(X) = "candidate_dep" => ~(Below(X) \subseteq Seen)
         /\ Category(X) = "non_dep" => CoveredBy(X, observations) \/ X \in maximal_non_deps
         /\ Category(X) = "maximal_non_dep" /\ Final(X) =>
              CoveredBy(X, observations) \/ X \in maximal_non_deps
  <1> USE DEF WalkInv
  <1>0. DepKinds \cap NonDepKinds = {}
    BY DEF DepKinds, NonDepKinds
  <1>1. CASE X \in Seen /\ ~Recategorized(X)
    <2>1. Category(X) = observations[X]
      BY <1>1 DEF Category, Seen
    <2>2. observations[X] \notin {"candidate_dep", "candidate_non_dep"}
      BY <1>1 DEF Recategorized, Seen
    <2>3. observations[X] \in DepKinds \cup NonDepKinds
      BY <1>1 DEF WalkTypeInv
    <2>4. observations[X] \in DepKinds <=> X \in holds
      BY <1>1 DEF MapsInv, CategoriesAreTrue, Seen
    <2>5. observations[X] = "minimal_dep" => X \in minimal_deps /\ X \in Minimize(holds)
      BY <1>1 DEF LhsInv
    <2>6. X \in holds /\ (\E c \in Candidates : X = {c}) => observations[X] = "minimal_dep"
      BY <1>1 DEF LhsInv
    <2>7. X \notin holds => CoveredBy(X, observations) \/ X \in maximal_non_deps
      BY <1>1, <2>2 DEF UpInv
    <2>8. observations[X] \in {"non_dep", "maximal_non_dep"} => X \notin holds
      BY <2>4 DEF DepKinds
    <2> QED
      BY <2>1, <2>2, <2>3, <2>4, <2>5, <2>6, <2>7, <2>8
  <1>2. CASE ~(X \in Seen /\ ~Recategorized(X)) /\ X \in holds
    <2>1. Category(X) = DependencyCategory(X)
      BY <1>2, Inference DEF Category, Seen
    <2>2. DependencyCategory(X) \in DepKinds
      BY <1>2, DependencyCategories
    <2>3. DependencyCategory(X) = "minimal_dep" => X \in Minimize(holds)
      BY <1>2, DependencyCategories
    <2>4. (\E c \in Candidates : X = {c}) => DependencyCategory(X) = "minimal_dep"
      BY <1>2, DependencyCategories
    <2>5. DependencyCategory(X) = "candidate_dep" => ~(Below(X) \subseteq Seen)
      BY <1>2, DependencyCategories
    <2>6. ASSUME DependencyCategory(X) = "minimal_dep", Final(X) PROVE FALSE
      <3>1. X \notin Seen /\ KnownDependency(X)
        BY <1>2, <2>6, Inference DEF Final, Inferred, Seen
      <3>2. PICK Y \in dependencies_map : Y \subseteq X
        BY <3>1 DEF KnownDependency
      <3>3. Y \in holds /\ Y # X
        BY <3>1, <3>2 DEF MapsInv
      <3> QED
        BY <2>3, <2>6, <3>2, <3>3 DEF Minimize
    <2>7. \A k \in DepKinds : k \notin {"non_dep", "maximal_non_dep"}
      BY DEF DepKinds
    <2> QED
      BY <1>2, <2>1, <2>2, <2>3, <2>4, <2>5, <2>6, <2>7
  <1>3. CASE ~(X \in Seen /\ ~Recategorized(X)) /\ X \notin holds
    <2>1. Category(X) = NonDependencyCategory(X)
      BY <1>3, Inference DEF Category, Seen
    <2>2. NonDependencyCategory(X) \in NonDepKinds
      BY <1>3, NonDependencyCategories
    <2>3. NonDependencyCategory(X) = "non_dep" => CoveredBy(X, observations)
      BY <1>3, NonDependencyCategories
    <2>4. ASSUME Final(X) PROVE CoveredBy(X, observations)
      <3>1. X \notin Seen /\ KnownNonDependency(X)
        BY <1>3, <2>4, Inference DEF Final, Inferred, Seen
      <3>2. PICK Y \in non_dependencies_map : X \subseteq Y
        BY <3>1 DEF KnownNonDependency
      <3> QED
        BY <3>1, <3>2 DEF MapsInv, CoveredBy, Seen
    <2>5. \A k \in NonDepKinds : k \notin {"minimal_dep", "candidate_dep"}
      BY DEF NonDepKinds
    <2> QED
      BY <1>0, <1>3, <2>1, <2>2, <2>3, <2>4, <2>5
  <1> QED
    BY <1>1, <1>2, <1>3

(* A visit keeps all of it: what it writes into the observations, the      *)
(* maps and the two results, and where it goes next.                       *)
LEMMA VisitKeeps ==
  ASSUME IsFiniteSet(Candidates), WalkInv, Visit
  PROVE  WalkInv'
  <1> DEFINE X == node
             cat == Category(X)
             is_new == X \notin DOMAIN observations
             is_dep == TakenForDependency(X)
             deps == IF is_new /\ is_dep THEN AddNewDependency(X) ELSE dependencies_map
             non_deps == IF is_new /\ ~is_dep THEN AddNewNonDependency(X) ELSE non_dependencies_map
             seen == Put(X, cat)
             unchecked == Unchecked(seen, X)
             known_non == {Y \in unchecked : \E Z \in non_deps : Y \subseteq Z}
             known_dep == {Y \in unchecked : cat = "candidate_non_dep" /\ \E Z \in deps : Z \subseteq Y}
             left == unchecked \ (known_non \cup known_dep)
             settled == cat \in {"candidate_dep", "candidate_non_dep"} /\ left = {} /\ known_non = {}
             final == IF ~settled THEN cat
                      ELSE IF cat = "candidate_dep" THEN "minimal_dep" ELSE "maximal_non_dep"
             visited == Seen \cup {X} \cup known_non \cup known_dep
  <1>1. X \in Proper
    BY DEF Visit, WalkInv, WalkTypeInv, Proper
  <1>2. /\ dependencies_map' = deps /\ non_dependencies_map' = non_deps
        /\ holds' = holds /\ seeds' = seeds
    BY DEF Visit
  <1>3. /\ DOMAIN seen = Seen \cup {X}
        /\ \A Y \in Seen \cup {X} : seen[Y] = IF Y = X THEN cat ELSE observations[Y]
    BY DEF Put, Seen
  <1>4. /\ DOMAIN observations' = visited
        /\ \A Y \in visited :
             observations'[Y] = IF Y = X THEN final ELSE IF Y \in known_dep THEN "dep"
                                ELSE IF Y \in known_non THEN "non_dep" ELSE seen[Y]
    BY <1>3, Zenon DEF Visit
  <1>5. minimal_deps' = IF final = "minimal_dep" /\ (settled \/ (~Inferred(X) /\ (is_new \/ Recategorized(X))))
                        THEN minimal_deps \cup {X} ELSE minimal_deps
    BY DEF Visit
  <1>6. maximal_non_deps' =
          IF final = "maximal_non_dep" /\ (settled \/ (~Inferred(X) /\ (is_new \/ Recategorized(X))))
          THEN maximal_non_deps \cup {X} ELSE maximal_non_deps
    BY DEF Visit
  <1>7. \/ left # {} /\ node' \in left /\ trace' = Append(trace, X)
        \/ left = {} /\ trace # <<>> /\ node' = trace[Len(trace)] /\ trace' = SubSeq(trace, 1, Len(trace) - 1)
        \/ left = {} /\ trace = <<>> /\ node' = {} /\ trace' = trace
    BY DEF Visit
  <1>8. ~(~Inferred(X) /\ (is_new \/ Recategorized(X))) => Final(X)
    BY DEF Final, Inferred, Seen
  <1>c. /\ cat \in DepKinds \cup NonDepKinds
        /\ cat \in DepKinds <=> X \in holds
        /\ cat = "minimal_dep" => X \in Minimize(holds)
        /\ cat = "minimal_dep" /\ Final(X) => X \in minimal_deps
        /\ X \in holds /\ (\E c \in Candidates : X = {c}) => cat = "minimal_dep"
        /\ cat = "candidate_dep" => ~(Below(X) \subseteq Seen)
        /\ cat = "non_dep" => CoveredBy(X, observations) \/ X \in maximal_non_deps
        /\ cat = "maximal_non_dep" /\ Final(X) =>
             CoveredBy(X, observations) \/ X \in maximal_non_deps
    BY <1>1, Categories
  <1>9. unchecked = CASE cat = "candidate_dep" -> Below(X) \ (Seen \cup {X})
                     [] cat = "candidate_non_dep" -> Above(X) \ (Seen \cup {X})
                     [] OTHER -> {}
    BY <1>3 DEF Unchecked
  <1>u. /\ unchecked \subseteq Proper
        /\ unchecked \cap (Seen \cup {X}) = {}
    <2>1. Above(X) \subseteq Proper
      BY <1>1 DEF Above, Proper, Sides
    <2>2. ASSUME cat = "candidate_dep" PROVE Below(X) \subseteq Proper
      <3>1. X \in holds /\ ~\E c \in Candidates : X = {c}
        BY <1>c, <2>2 DEF DepKinds
      <3>2. X \subseteq Candidates
        BY <1>1 DEF Proper, Sides
      <3> QED
        BY <3>1, <3>2 DEF Below, Proper, Sides
    <2> QED
      BY <1>9, <2>1, <2>2
  <1>d. deps \subseteq (Seen \cup {X}) \cap holds
    <2>1. is_dep => X \in holds
      BY <1>1, Inference DEF WalkInv
    <2>2. dependencies_map \subseteq Seen \cap holds
      BY DEF WalkInv, MapsInv
    <2> QED
      BY <2>1, <2>2 DEF AddNewDependency
  <1>n. non_deps \subseteq (Seen \cup {X}) \ holds
    <2>1. ~is_dep => X \notin holds
      BY <1>1, Inference DEF WalkInv
    <2>2. non_dependencies_map \subseteq Seen \ holds
      BY DEF WalkInv, MapsInv
    <2> QED
      BY <2>1, <2>2 DEF AddNewNonDependency
  <1>h. Seen \subseteq Proper /\ holds \in UpSets(Sides) /\ Proper \subseteq Sides
    BY DEF WalkInv, WalkTypeInv, Proper
  <1>kd. known_dep \subseteq holds /\ known_dep \subseteq unchecked
    <2> SUFFICES ASSUME NEW Y \in known_dep PROVE Y \in holds
      OBVIOUS
    <2>1. PICK Z \in deps : Z \subseteq Y
      OBVIOUS
    <2>2. Z \in holds /\ Y \in Sides
      BY <2>1, <1>d, <1>u, <1>h
    <2> QED
      BY <2>1, <2>2, <1>h, Upward
  <1>kn. /\ known_non \subseteq unchecked
         /\ \A Y \in known_non : \E Z \in (Seen \cup {X}) \ holds : Y \subseteq Z /\ Y # Z
         /\ known_non \cap holds = {}
    <2>1. known_non \subseteq unchecked
      OBVIOUS
    <2>2. ASSUME NEW Y \in known_non
          PROVE \E Z \in (Seen \cup {X}) \ holds : Y \subseteq Z /\ Y # Z /\ Y \notin holds
      <3>1. PICK Z \in non_deps : Y \subseteq Z
        OBVIOUS
      <3>2. Z \in (Seen \cup {X}) \ holds /\ Y \notin Seen \cup {X}
        BY <1>n, <1>u, <2>1
      <3>3. Y \notin holds
        BY <3>1, <3>2, <1>h, <1>1, Upward
      <3> QED
        BY <3>1, <3>2, <3>3
    <2> QED
      BY <2>1, <2>2
  <1>s. /\ settled => cat = "candidate_non_dep" /\ final = "maximal_non_dep"
        /\ ~settled => final = cat
    <2>1. ASSUME settled, cat = "candidate_dep" PROVE FALSE
      <3>1. known_dep = {}
        BY <2>1
      <3>2. unchecked = {}
        BY <2>1, <3>1
      <3>3. unchecked = Below(X) \ (Seen \cup {X})
        BY <1>9, <2>1
      <3>4. X \notin Below(X)
        BY DEF Below
      <3> QED
        BY <1>c, <2>1, <3>2, <3>3, <3>4
    <2> QED
      BY <2>1
  <1>l. left \subseteq unchecked
    OBVIOUS
  <1>f. /\ final \in DepKinds \cup NonDepKinds
        /\ final \in DepKinds <=> X \in holds
        /\ final = "minimal_dep" => cat = "minimal_dep"
        /\ X \in holds => final = cat
    BY <1>c, <1>s DEF DepKinds, NonDepKinds
  <1> HIDE DEF cat, is_new, is_dep, deps, non_deps, seen, unchecked, known_non, known_dep, left, settled, final
  <1>o. /\ visited \subseteq Proper
        /\ \A Y \in visited :
             \/ Y = X /\ observations'[Y] = final
             \/ Y # X /\ Y \in known_dep /\ Y \notin Seen /\ observations'[Y] = "dep" /\ Y \in holds
             \/ Y # X /\ Y \in known_non /\ Y \notin Seen /\ observations'[Y] = "non_dep" /\ Y \notin holds
             \/ Y # X /\ Y \in Seen /\ observations'[Y] = observations[Y]
    <2>1. visited \subseteq Proper
      BY <1>1, <1>h, <1>u, <1>kd, <1>kn
    <2>2. ASSUME NEW Y \in visited, Y # X, Y \in known_dep
          PROVE Y \notin Seen /\ observations'[Y] = "dep" /\ Y \in holds
      BY <2>2, <1>4, <1>u, <1>kd
    <2>3. ASSUME NEW Y \in visited, Y # X, Y \notin known_dep, Y \in known_non
          PROVE Y \notin Seen /\ observations'[Y] = "non_dep" /\ Y \notin holds
      BY <2>3, <1>4, <1>u, <1>kn
    <2>4. ASSUME NEW Y \in visited, Y # X, Y \notin known_dep, Y \notin known_non
          PROVE Y \in Seen /\ observations'[Y] = observations[Y]
      BY <2>4, <1>3, <1>4
    <2>5. observations'[X] = final
      BY <1>4
    <2> QED
      BY <2>1, <2>2, <2>3, <2>4, <2>5
  <1>10. WalkTypeInv'
    <2>1. \A Y \in visited : observations'[Y] \in DepKinds \cup NonDepKinds
      BY <1>o, <1>f DEF DepKinds, NonDepKinds, WalkInv, WalkTypeInv
    <2>2. trace \in Seq(Proper) /\ seeds \subseteq Proper
      BY DEF WalkInv, WalkTypeInv
    <2>3. trace' \in Seq(Proper) /\ node' \in Sides /\ (node' = {} => trace' = <<>>)
      <3>1. CASE left # {} /\ node' \in left /\ trace' = Append(trace, X)
        BY <3>1, <2>2, <1>1, <1>l, <1>u DEF Proper
      <3>2. CASE trace # <<>> /\ node' = trace[Len(trace)] /\ trace' = SubSeq(trace, 1, Len(trace) - 1)
        <4>1. Len(trace) \in DOMAIN trace /\ Len(trace) \in Nat /\ Len(trace) > 0
          BY <3>2, <2>2
        <4>2. node' \in Proper
          BY <3>2, <2>2, <4>1
        <4>3. trace' \in Seq(Proper)
          BY <3>2, <2>2, <4>1
        <4> QED
          BY <4>2, <4>3 DEF Proper
      <3>3. CASE trace = <<>> /\ node' = {} /\ trace' = trace
        BY <3>3, <2>2 DEF Sides
      <3> QED
        BY <1>7, <3>1, <3>2, <3>3
    <2>4. Proper' = Proper /\ Sides' = Sides /\ Seen' = visited
      BY <1>4 DEF Proper, Sides, Seen
    <2> QED
      BY <1>2, <1>h, <1>o, <2>1, <2>2, <2>3, <2>4 DEF WalkTypeInv, UpSets
  <1>11. MapsInv'
    <2>1. CategoriesAreTrue'
      <3> SUFFICES ASSUME NEW Y \in visited PROVE observations'[Y] \in DepKinds <=> Y \in holds
        BY <1>2, <1>4 DEF CategoriesAreTrue
      <3>1. Y \in Seen => (observations[Y] \in DepKinds <=> Y \in holds)
        BY DEF WalkInv, MapsInv, CategoriesAreTrue, Seen
      <3> QED
        BY <1>o, <1>f, <3>1 DEF DepKinds
    <2>2. Seen' = visited
      BY <1>4 DEF Seen
    <2> QED
      BY <1>2, <1>d, <1>n, <2>1, <2>2 DEF MapsInv
  <1>12. LhsInv'
    <2>1. minimal_deps' \subseteq Minimize(holds)
      BY <1>5, <1>c, <1>f DEF WalkInv, LhsInv
    <2>2. ASSUME NEW Y \in visited, observations'[Y] = "minimal_dep" PROVE Y \in minimal_deps'
      <3>1. CASE Y = X
        <4>1. final = "minimal_dep" /\ cat = "minimal_dep"
          BY <1>o, <1>f, <2>2, <3>1
        <4> QED
          BY <1>5, <1>8, <1>c, <3>1, <4>1
      <3>2. CASE Y # X
        BY <1>o, <1>5, <2>2, <3>2 DEF WalkInv, LhsInv
      <3> QED
        BY <3>1, <3>2
    <2>3. ASSUME NEW c \in Candidates, {c} \in visited \cap holds PROVE observations'[{c}] = "minimal_dep"
      <3>1. CASE {c} = X
        BY <1>o, <1>c, <1>f, <2>3, <3>1
      <3>2. CASE {c} # X /\ {c} \in Seen
        BY <1>o, <1>u, <1>kd, <1>kn, <2>3, <3>2 DEF WalkInv, LhsInv
      <3>3. CASE {c} # X /\ {c} \in known_dep
        <4>1. PICK Z \in deps : Z \subseteq {c}
          BY <3>3 DEF known_dep
        <4>2. Z \in Seen \cup {X} /\ Z \in Proper
          BY <1>1, <1>d, <1>h, <4>1
        <4>3. Z = {c}
          BY <4>1, <4>2 DEF Proper
        <4> QED
          BY <1>u, <1>kd, <3>3, <4>2, <4>3
      <3> QED
        BY <1>kn, <2>3, <3>1, <3>2, <3>3
    <2>4. Seen' = visited /\ holds' = holds
      BY <1>2, <1>4 DEF Seen
    <2> QED
      BY <2>1, <2>2, <2>3, <2>4 DEF LhsInv, Minimize
  <1>13. UpInv'
    <2>1. maximal_non_deps' \subseteq Sides \ holds
      BY <1>1, <1>6, <1>f DEF WalkInv, UpInv, DepKinds, Proper
    <2>2. Seen' = visited /\ holds' = holds
      BY <1>2, <1>4 DEF Seen
    <2> DEFINE Covered(Y) == \E Z \in visited \ holds : Y \subseteq Z /\ Y # Z
           Back(Y) == Y = node' \/ \E k \in DOMAIN trace' : trace'[k] = Y
    <2>4. \A Y : CoveredBy(Y, observations) => Covered(Y)
      BY DEF CoveredBy, Seen
    <2>5. maximal_non_deps \subseteq maximal_non_deps'
      BY <1>6
    <2>3. CoveredBy(X, observations) => Covered(X)
      BY <2>4
    <2> HIDE DEF Covered, Back
    <2>6. ASSUME X \notin holds
          PROVE \/ X \in maximal_non_deps'
                \/ Covered(X)
                \/ observations'[X] = "candidate_non_dep" /\ Back(X)
      <3>1. final \in NonDepKinds
        BY <1>f, <2>6
      <3>2. CASE final = "maximal_non_dep"
        <4>1. settled => X \in maximal_non_deps'
          BY <1>6, <3>2
        <4>2. ~settled => Final(X) \/ X \in maximal_non_deps'
          BY <1>6, <1>8, <3>2
        <4>3. ~settled => cat = "maximal_non_dep"
          BY <1>s, <3>2
        <4> QED
          BY <1>c, <2>3, <2>5, <4>1, <4>2, <4>3
      <3>3. CASE final = "non_dep"
        BY <1>c, <1>s, <2>3, <2>5, <3>3
      <3>4. CASE final = "candidate_non_dep"
        <4>1. cat = "candidate_non_dep" /\ ~settled
          BY <1>s, <3>4
        <4>2. left # {} \/ known_non # {}
          BY <4>1 DEF settled
        <4>3. CASE known_non # {}
          <5>1. PICK Y \in known_non : TRUE
            BY <4>3
          <5>2. Y \in Above(X) \ (Seen \cup {X}) /\ Y \notin holds
            BY <1>9, <1>kn, <4>1, <5>1
          <5>3. X \subseteq Y /\ X # Y
            BY <5>2 DEF Above
          <5> QED
            BY <5>1, <5>2, <5>3 DEF Covered
        <4>4. CASE left # {}
          <5>1. trace' = Append(trace, X) /\ trace \in Seq(Proper)
            BY <1>7, <4>4 DEF WalkInv, WalkTypeInv
          <5>2. Len(trace) + 1 \in DOMAIN trace' /\ trace'[Len(trace) + 1] = X
            BY <1>1, <5>1
          <5> QED
            BY <1>o, <3>4, <5>2 DEF Back
        <4> QED
          BY <4>2, <4>3, <4>4
      <3> QED
        BY <3>1, <3>2, <3>3, <3>4 DEF NonDepKinds
    <2>7. ASSUME NEW Y \in Seen \ holds, Y # X
          PROVE \/ Y \in maximal_non_deps'
                \/ Covered(Y)
                \/ observations'[Y] = "candidate_non_dep" /\ Back(Y)
      <3>1. observations'[Y] = observations[Y]
        BY <1>o, <2>7, <1>u, <1>kd, <1>kn
      <3>2. CASE OnTrace(Y)
        <4>1. PICK k \in DOMAIN trace : trace[k] = Y
          BY <2>7, <3>2 DEF OnTrace
        <4>2. trace \in Seq(Proper) /\ k \in 1 .. Len(trace) /\ Len(trace) \in Nat
          BY <4>1 DEF WalkInv, WalkTypeInv
        <4>3. Back(Y)
          <5>1. CASE trace' = Append(trace, X)
            <6>1. k \in DOMAIN trace' /\ trace'[k] = Y
              BY <1>1, <4>1, <4>2, <5>1
            <6> QED
              BY <6>1 DEF Back
          <5>2. CASE node' = trace[Len(trace)] /\ trace' = SubSeq(trace, 1, Len(trace) - 1)
            <6>1. k # Len(trace) => k \in DOMAIN trace' /\ trace'[k] = Y
              BY <4>1, <4>2, <5>2
            <6> QED
              BY <4>1, <5>2, <6>1 DEF Back
          <5>3. CASE trace = <<>>
            BY <4>1, <4>2, <5>3
          <5> QED
            BY <1>7, <5>1, <5>2, <5>3
        <4> QED
          BY <2>4, <2>5, <2>7, <3>1, <4>3 DEF WalkInv, UpInv
      <3>3. CASE ~OnTrace(Y)
        BY <2>4, <2>5, <2>7, <3>3 DEF WalkInv, UpInv
      <3> QED
        BY <3>2, <3>3
    <2>8. ASSUME NEW Y \in known_non PROVE Covered(Y)
      BY <1>kn DEF Covered
    <2>9. \A Y \in visited \ holds : Y = X \/ Y \in Seen \/ Y \in known_non
      BY <1>kd
    <2>10. \A Y \in visited \ holds :
             \/ Y \in maximal_non_deps'
             \/ Covered(Y)
             \/ observations'[Y] = "candidate_non_dep" /\ Back(Y)
      <3> SUFFICES ASSUME NEW Y \in visited \ holds
                   PROVE  \/ Y \in maximal_non_deps'
                          \/ Covered(Y)
                          \/ observations'[Y] = "candidate_non_dep" /\ Back(Y)
        OBVIOUS
      <3>1. CASE Y = X
        BY <2>6, <3>1
      <3>2. CASE Y # X /\ Y \in Seen
        BY <2>7, <3>2
      <3>3. CASE Y \in known_non
        BY <2>8, <3>3
      <3> QED
        BY <2>9, <3>1, <3>2, <3>3
    <2> QED
      BY <2>1, <2>2, <2>10, <1>2, <1>4 DEF UpInv, CoveredBy, Covered, OnTrace, Back, Seen, Sides
  <1>14. SeedsInv'
    <2>1. Seen' = visited
      BY <1>4 DEF Seen
    <2> QED
      BY <1>2, <2>1 DEF WalkInv, SeedsInv
  <1> QED
    BY <1>10, <1>11, <1>12, <1>13, <1>14 DEF WalkInv

(* So does taking a seed.                                                  *)
LEMMA SeedKeeps == ASSUME WalkInv, PopSeed PROVE WalkInv'
  <1>1. PICK X \in seeds :
          /\ node = {} /\ node' = X /\ seeds' = seeds \ {X}
          /\ UNCHANGED <<holds, observations, dependencies_map, non_dependencies_map,
                         minimal_deps, maximal_non_deps, trace>>
    BY DEF PopSeed
  <1>2. WalkTypeInv'
    BY <1>1 DEF WalkInv, WalkTypeInv, Seen, Proper
  <1>3. MapsInv' /\ LhsInv'
    BY <1>1 DEF WalkInv, MapsInv, LhsInv, CategoriesAreTrue, Seen, Minimize
  <1>4. \A Y \in Seen : OnTrace(Y) => \E k \in DOMAIN trace : trace[k] = Y
    BY <1>1 DEF OnTrace, WalkInv, WalkTypeInv, Proper
  <1>5. UpInv'
    BY <1>1, <1>4 DEF WalkInv, UpInv, CoveredBy, Seen, OnTrace
  <1>6. SeedsInv'
    BY <1>1 DEF WalkInv, SeedsInv, Seen
  <1> QED
    BY <1>2, <1>3, <1>5, <1>6 DEF WalkInv

(* New seeds are sets to stand on.                                         *)
LEMMA NextSeedsAreProper == NextSeeds \subseteq Proper
  BY DEF NextSeeds, Minimize, Proper

(* And so does generating seeds.                                           *)
LEMMA NewSeedsKeep == ASSUME WalkInv, GenerateNextSeeds PROVE WalkInv'
  <1>1. /\ seeds = {} /\ seeds' = NextSeeds
        /\ UNCHANGED <<holds, observations, dependencies_map, non_dependencies_map,
                       minimal_deps, maximal_non_deps, trace, node>>
    BY DEF GenerateNextSeeds
  <1>2. WalkTypeInv'
    BY <1>1, NextSeedsAreProper DEF WalkInv, WalkTypeInv, Seen, Proper
  <1>3. MapsInv' /\ LhsInv'
    BY <1>1 DEF WalkInv, MapsInv, LhsInv, CategoriesAreTrue, Seen, Minimize
  <1>4. UpInv'
    BY <1>1 DEF WalkInv, UpInv, CoveredBy, Seen, OnTrace
  <1>5. SeedsInv'
    BY <1>1 DEF WalkInv, SeedsInv, Seen
  <1> QED
    BY <1>2, <1>3, <1>4, <1>5 DEF WalkInv

(* FindLHSs starts right: the unique columns are least dependencies.       *)
LEMMA StartIsRight == ASSUME IsFiniteSet(Candidates), DfdInit PROVE WalkInv
  <1>1. PICK h \in UpSets(Sides) : \E unique \in SUBSET {X \in h : Cardinality(X) = 1} : FindLHSs(h, unique)
    BY DEF DfdInit
  <1>2. PICK unique \in SUBSET {X \in h : Cardinality(X) = 1} : FindLHSs(h, unique)
    BY <1>1
  <1>3. holds = h /\ holds \in UpSets(Sides)
    BY <1>1, <1>2 DEF FindLHSs
  <1>4. Seen = unique /\ unique \subseteq holds /\ holds \subseteq Proper
    BY <1>2, <1>3, Upward DEF FindLHSs, Seen
  <1>5. \A X \in unique : observations[X] = "minimal_dep"
    BY <1>2 DEF FindLHSs
  <1>6. \A X \in unique : \E c \in Candidates : X = {c}
    BY <1>2, <1>4, Singles
  <1>7. unique \subseteq Minimize(holds)
    BY <1>4, <1>6 DEF Minimize, Proper
  <1>8. /\ dependencies_map = unique /\ non_dependencies_map = {}
        /\ minimal_deps = unique /\ maximal_non_deps = {}
        /\ seeds = {{c} : c \in Candidates} /\ trace = <<>> /\ node = {}
    BY <1>2 DEF FindLHSs
  <1>9. WalkTypeInv
    <2>1. seeds \subseteq Proper
      BY <1>8 DEF Proper, Sides
    <2> QED
      BY <1>3, <1>4, <1>5, <1>8, <2>1 DEF WalkTypeInv, DepKinds, Sides
  <1>10. MapsInv
    BY <1>4, <1>5, <1>8 DEF MapsInv, CategoriesAreTrue, DepKinds, Seen
  <1>11. LhsInv
    BY <1>4, <1>5, <1>7, <1>8 DEF LhsInv
  <1>12. UpInv
    BY <1>4, <1>8 DEF UpInv
  <1>13. SeedsInv
    BY <1>8 DEF SeedsInv
  <1> QED
    BY <1>9, <1>10, <1>11, <1>12, <1>13 DEF WalkInv

(* Below every member of a set of sides there is a least one.              *)
LEMMA HasLeast ==
  ASSUME IsFiniteSet(Candidates), NEW S, S \subseteq Sides, NEW X \in S
  PROVE  \E Y \in Minimize(S) : Y \subseteq X
  <1> DEFINE R == StrictSubsetOrdering(Candidates)
             T == {Y \in S : Y \subseteq X}
  <1>1. IsWellFoundedOn(R, FiniteSubsetsOf(Candidates))
    BY FS_StrictSubsetOrderingWellFounded
  <1>2. T \subseteq FiniteSubsetsOf(Candidates) /\ X \in T
    BY FS_Subset DEF Sides, FiniteSubsetsOf
  <1>3. PICK Y \in T : \A Z \in T : ~(<<Z, Y>> \in R)
    BY <1>1, <1>2, WFMin
  <1>4. ASSUME NEW Z \in S, Z \subseteq Y, Z # Y PROVE FALSE
    <2>1. Z \in T
      BY <1>4
    <2>2. Z \subseteq Candidates /\ Y \subseteq Candidates
      BY DEF Sides
    <2>3. <<Z, Y>> \in R
      BY <1>4, <2>2 DEF StrictSubsetOrdering
    <2> QED
      BY <1>3, <2>1, <2>3
  <1> QED
    BY <1>4 DEF Minimize

(* And above it a largest one.                                             *)
LEMMA HasLargest ==
  ASSUME IsFiniteSet(Candidates), NEW S, S \subseteq Sides, NEW X \in S
  PROVE  \E Y \in S : \A Z \in S : Y \subseteq Z => Z = Y
  <1> DEFINE T == {Candidates \ Z : Z \in S}
  <1>1. T \subseteq Sides /\ Candidates \ X \in T
    BY DEF Sides
  <1>2. \E U \in Minimize(T) : U \subseteq Candidates \ X
    <2> HIDE DEF T
    <2> QED
      BY <1>1, HasLeast
  <1>3. PICK Y \in S : Candidates \ Y \in Minimize(T)
    <2>1. \A U \in Minimize(T) : U \in T
      BY DEF Minimize
    <2> QED
      BY <1>2, <2>1
  <1>4. ASSUME NEW Z \in S, Y \subseteq Z PROVE Z = Y
    <2>1. Candidates \ Z \in T /\ Candidates \ Z \subseteq Candidates \ Y
      BY <1>4
    <2>2. Candidates \ Z = Candidates \ Y
      BY <1>3, <2>1 DEF Minimize
    <2>3. Z \subseteq Candidates /\ Y \subseteq Candidates
      BY DEF Sides
    <2> QED
      BY <2>2, <2>3
  <1> QED
    BY <1>4

(* When there are no seeds left, the result is exact. Suppose that a       *)
(* least dependency X was not found. If every maximal non-dependency       *)
(* misses some column of X, X contains a least set that hits all their     *)
(* complements, which is no new seed, hence a registered dependency, and   *)
(* so X itself. Otherwise X lies below a set that does not hold, which is  *)
(* impossible. And if there is no maximal non-dependency, no column was    *)
(* seen that does not determine rhs_.                                      *)
LEMMA ReturnIsRight ==
  ASSUME IsFiniteSet(Candidates), WalkInv
  PROVE  LeastAreFound
  <1> SUFFICES ASSUME node = {}, seeds = {}, NextSeeds = {} PROVE minimal_deps = Minimize(holds)
    BY DEF LeastAreFound, Returned
  <1>1. holds \in UpSets(Sides) /\ Seen \subseteq Proper /\ holds \subseteq Proper
    BY Upward DEF WalkInv, WalkTypeInv
  <1>2. minimal_deps \subseteq Minimize(holds)
    BY DEF WalkInv, LhsInv
  <1>3. \A X \in Seen : ~OnTrace(X)
    BY <1>1 DEF WalkInv, WalkTypeInv, OnTrace, Proper
  <1>4. \A X \in Seen \ holds : X \in maximal_non_deps \/ CoveredBy(X, observations)
    BY <1>3 DEF WalkInv, UpInv
  <1> SUFFICES ASSUME NEW M \in Minimize(holds) PROVE M \in minimal_deps
    BY <1>2
  <1>5. M \in holds /\ M # {} /\ M \subseteq Candidates /\ \A Y \in holds : Y \subseteq M => Y = M
    BY <1>1 DEF Minimize, Proper, Sides
  <1>6. CASE maximal_non_deps = {}
    <2>1. Seen \subseteq holds
      <3> SUFFICES ASSUME NEW X \in Seen \ holds PROVE FALSE
        OBVIOUS
      <3> DEFINE Lost == Seen \ holds
      <3>1. Lost \subseteq Sides /\ X \in Lost
        BY <1>1 DEF Proper
      <3>2. \E Y \in Lost : \A Z \in Lost : Y \subseteq Z => Z = Y
        <4> HIDE DEF Lost
        <4> QED
          BY <3>1, HasLargest
      <3>3. PICK Y \in Lost : \A Z \in Lost : Y \subseteq Z => Z = Y
        BY <3>2
      <3>4. CoveredBy(Y, observations)
        BY <1>4, <1>6, <3>3
      <3> QED
        BY <3>3, <3>4 DEF CoveredBy, Seen
    <2>2. PICK c \in M : TRUE
      BY <1>5
    <2>3. c \in Candidates /\ {c} \in Seen
      BY <1>5 DEF WalkInv, SeedsInv
    <2>4. {c} \in minimal_deps
      BY <2>1, <2>3 DEF WalkInv, LhsInv
    <2>5. {c} = M
      BY <1>5, <2>1, <2>2, <2>3
    <2> QED
      BY <2>4, <2>5
  <1>7. CASE maximal_non_deps # {}
    <2> DEFINE Hits == {X \in Sides : \A N \in maximal_non_deps : X \cap (Candidates \ N) # {}}
    <2>1. Minimize(Hits) \subseteq minimal_deps
      BY <1>7, Zenon DEF NextSeeds
    <2>2. M \in Hits
      <3> SUFFICES ASSUME NEW N \in maximal_non_deps PROVE ~(M \subseteq N)
        BY <1>5 DEF Sides
      <3>1. N \in Sides /\ N \notin holds
        BY DEF WalkInv, UpInv
      <3> QED
        BY <1>1, <1>5, <3>1, Upward
    <2>3. PICK Y \in Minimize(Hits) : Y \subseteq M
      BY <2>2, HasLeast
    <2>4. Y \in minimal_deps /\ Y \in holds
      BY <1>2, <2>1, <2>3 DEF Minimize
    <2> QED
      BY <1>5, <2>3, <2>4
  <1> QED
    BY <1>6, <1>7

(* DFD's walk never takes a set for what it is not, and when it returns    *)
(* it has found the least left sides and nothing else: for any number of   *)
(* columns, whatever holds, whichever seeds and ways the random walk       *)
(* takes.                                                                  *)
THEOREM WalkIsAlwaysRight == DfdSpec => []WalkIsRight
  <1>1. DfdInit => WalkInv
    BY DfdAssumption, StartIsRight
  <1>2. WalkInv /\ [DfdNext]_dfd_vars => WalkInv'
    <2> SUFFICES ASSUME WalkInv, [DfdNext]_dfd_vars PROVE WalkInv'
      OBVIOUS
    <2>1. CASE Visit
      BY <2>1, DfdAssumption, VisitKeeps
    <2>2. CASE PopSeed
      BY <2>2, SeedKeeps
    <2>3. CASE GenerateNextSeeds
      BY <2>3, NewSeedsKeep
    <2>4. CASE UNCHANGED dfd_vars
      BY <2>4 DEF WalkInv, WalkTypeInv, MapsInv, LhsInv, UpInv, SeedsInv, CategoriesAreTrue,
                  CoveredBy, OnTrace, Seen, dfd_vars, walk
    <2> QED
      BY <2>1, <2>2, <2>3, <2>4 DEF DfdNext
  <1>3. WalkInv => WalkIsRight
    BY DfdAssumption, ReturnIsRight DEF WalkIsRight, WalkInv, MapsInv
  <1> QED
    BY <1>1, <1>2, <1>3, PTL DEF DfdSpec
-----------------------------------------------------------------------------
(* HPIValid's search. Why edges may come and go in the middle of it.       *)

(* Sets of edges; the frame of a call; the columns on the path to a node;  *)
(* the tables.                                                             *)
Marks == SUBSET SUBSET Columns
Frames == [c : SUBSET Columns, rest : SUBSET Columns]
Path(n) == {s[k] : k \in 1 .. n}
AllTables == Seq([Columns -> 1 .. MaxValue])

(* The least of some columns is one of them.                               *)
LEMMA LeastIsIn ==
  ASSUME NEW S \in SUBSET Columns, S # {}
  PROVE  Min(S) \in S
  <1>1. S \subseteq Nat
    BY HpiAssumption DEF Columns
  <1>2. PICK x \in S : \A y \in S : ~(<<y, x>> \in OpToRel(<, Nat))
    BY <1>1, NatLessThanWellFounded, WFMin
  <1>3. ASSUME NEW y \in S PROVE x <= y
    <2>1. ~(<<y, x>> \in {ss \in Nat \X Nat : ss[1] < ss[2]})
      BY <1>2 DEF OpToRel
    <2> QED
      BY <1>1, <2>1
  <1> QED
    BY <1>3 DEF Min

(* Sequences by their elements.                                            *)
LEMMA FunctionIsSequence ==
  ASSUME NEW S, NEW n \in Nat, NEW f \in [1 .. n -> S]
  PROVE  f \in Seq(S) /\ Len(f) = n
  BY SeqDef

(* The rest of a stack, and its top.                                       *)
LEMMA FrontIs ==
  ASSUME NEW S, NEW q \in Seq(S), q # <<>>
  PROVE  /\ Front(q) \in Seq(S) /\ Len(Front(q)) = Len(q) - 1
         /\ \A k \in 1 .. Len(q) - 1 : Front(q)[k] = q[k]
         /\ Len(q) \in 1 .. Len(q) /\ Last(q) = q[Len(q)] /\ Last(q) \in S
  <1>1. Len(q) \in Nat /\ Len(q) > 0
    OBVIOUS
  <1>2. Front(q) = SubSeq(q, 1, Len(q) - 1) /\ Last(q) = q[Len(q)]
    BY DEF Front, Last
  <1> DEFINE m == Len(q) - 1
             f == [i \in 1 .. m |-> q[i]]
  <1>3. Front(q) = f /\ m \in Nat
    BY <1>1, <1>2
  <1>4. q[Len(q)] \in S
    BY <1>1
  <1>5. \A i \in 1 .. m : q[i] \in S
    BY <1>1
  <1> HIDE DEF m
  <1>6. f \in [1 .. m -> S]
    BY <1>5
  <1>7. f \in Seq(S) /\ Len(f) = m
    BY <1>3, <1>6, FunctionIsSequence
  <1> QED
    BY <1>1, <1>2, <1>3, <1>4, <1>7 DEF m

(* A stack with one more on top.                                           *)
LEMMA AppendIs ==
  ASSUME NEW S, NEW q \in Seq(S), NEW e \in S
  PROVE  /\ Append(q, e) \in Seq(S) /\ Len(Append(q, e)) = Len(q) + 1
         /\ \A k \in 1 .. Len(q) : Append(q, e)[k] = q[k]
         /\ Append(q, e)[Len(q) + 1] = e
         /\ Last(Append(q, e)) = e
  BY DEF Last

(* MinimalUccs, unfolded.                                                  *)
LEMMA MinimalIs ==
  ASSUME NEW X
  PROVE  X \in MinimalUccs(table) <=>
           /\ X \in SUBSET Columns /\ IsUnique(table, X)
           /\ \A Y \in SUBSET Columns : IsUnique(table, Y) /\ Y \subseteq X => Y = X
  BY DEF MinimalUccs, Least

(* The rows that agree with r on X.                                        *)
ClassOf(X, r) == {q \in Rows(table) : X \subseteq AgreeOn(table, q, r)}

(* A cluster is a class of two rows or more.                               *)
LEMMA Pigeons ==
  ASSUME NEW S, IsFiniteSet(S)
  PROVE  Cardinality(S) > 1 <=> \E x, y \in S : x # y
  <1>1. Cardinality(S) \in Nat
    BY FS_CardinalityType
  <1>2. Cardinality(S) = 0 <=> S = {}
    BY FS_EmptySet
  <1>3. Cardinality(S) = 1 <=> \E x : S = {x}
    BY FS_Singleton
  <1> QED
    BY <1>1, <1>2, <1>3

(* There are finitely many rows.                                           *)
LEMMA RowsAreFinite ==
  ASSUME table \in AllTables
  PROVE  /\ IsFiniteSet(Rows(table)) /\ Rows(table) = 1 .. Len(table) /\ Len(table) \in Nat
         /\ \A K \in SUBSET Rows(table) : IsFiniteSet(K)
  <1>1. Rows(table) = 1 .. Len(table) /\ Len(table) \in Nat
    BY DEF AllTables, Rows
  <1>2. IsFiniteSet(1 .. Len(table))
    BY <1>1, FS_Interval
  <1>3. \A K \in SUBSET Rows(table) : IsFiniteSet(K)
    BY <1>1, <1>2, FS_Subset
  <1> QED
    BY <1>1, <1>2, <1>3

(* ClustersOf, by the rows.                                                *)
LEMMA ClustersAre ==
  ASSUME table \in AllTables, NEW X, NEW K
  PROVE  K \in ClustersOf(X) <=>
           \E r \in Rows(table) : K = ClassOf(X, r) /\ \E q, u \in K : q # u
  <1>1. \A r \in Rows(table) : IsFiniteSet(ClassOf(X, r))
    BY RowsAreFinite DEF ClassOf
  <1>2. K \in ClustersOf(X) <=> \E r \in Rows(table) : K = ClassOf(X, r) /\ Cardinality(K) > 1
    BY DEF ClustersOf, ClassOf
  <1> QED
    BY <1>1, <1>2, Pigeons

(* The index of a column has the clusters of that column.                  *)
LEMMA FirstClusters ==
  ASSUME table \in AllTables, NEW c \in Columns
  PROVE  CreateFor(table, c) = ClustersOf({c})
  <1> DEFINE Of(v) == {q \in Rows(table) : table[q][c] = v}
  <1>1. \A r \in Rows(table) : table[r][c] \in 1 .. MaxValue /\ ClassOf({c}, r) = Of(table[r][c])
    BY DEF ClassOf, AgreeOn, AllTables, Rows
  <1>2. \A v : IsFiniteSet(Of(v))
    BY RowsAreFinite
  <1>3. \A K : K \in CreateFor(table, c) <=> \E v \in 1 .. MaxValue : K = Of(v) /\ Cardinality(K) > 1
    BY DEF CreateFor
  <1>4. \A K : K \in CreateFor(table, c) <=> \E v \in 1 .. MaxValue : K = Of(v) /\ \E q, u \in K : q # u
    <2> HIDE DEF Of
    <2>1. \A v : Cardinality(Of(v)) > 1 <=> \E q, u \in Of(v) : q # u
      BY <1>2, Pigeons
    <2> QED
      BY <1>3, <2>1
  <1>5. \A v : \A q \in Of(v) : q \in Rows(table) /\ table[q][c] = v
    OBVIOUS
  <1> HIDE DEF Of
  <1>6. ASSUME NEW K PROVE K \in CreateFor(table, c) <=> K \in ClustersOf({c})
    <2>1. ASSUME NEW r \in Rows(table), K = ClassOf({c}, r), \E q, u \in K : q # u
          PROVE  K \in CreateFor(table, c)
      BY <1>1, <1>4, <2>1
    <2>2. ASSUME NEW v \in 1 .. MaxValue, K = Of(v), \E q, u \in K : q # u
          PROVE  K \in ClustersOf({c})
      <3>1. PICK r \in K : TRUE
        BY <2>2
      <3>2. r \in Rows(table) /\ K = ClassOf({c}, r)
        BY <1>1, <1>5, <2>2, <3>1
      <3> QED
        BY <2>2, <3>2, ClustersAre
    <2>3. K \in ClustersOf({c}) =>
            \E r \in Rows(table) : K = ClassOf({c}, r) /\ \E q, u \in K : q # u
      BY ClustersAre
    <2>4. K \in CreateFor(table, c) <=> \E v \in 1 .. MaxValue : K = Of(v) /\ \E q, u \in K : q # u
      <3>1. \A v : K = Of(v) => ((\E q, u \in K : q # u) <=> (\E q, u \in Of(v) : q # u))
        OBVIOUS
      <3> QED
        BY <1>4, <3>1
    <2> QED
      BY <2>1, <2>2, <2>3, <2>4
  <1> QED
    BY <1>6

(* And Intersect adds a column to those of a set: agreeing is an           *)
(* equivalence.                                                            *)
LEMMA MoreClusters ==
  ASSUME table \in AllTables, NEW c \in Columns, NEW X \in SUBSET Columns
  PROVE  Intersect(ClustersOf(X), CreateFor(table, c)) = ClustersOf(X \cup {c})
  <1>1. \A r \in Rows(table) : ClassOf(X \cup {c}, r) = ClassOf(X, r) \cap ClassOf({c}, r)
    BY DEF ClassOf
  <1>2. \A Y \in SUBSET Columns : \A q, r \in Rows(table) : q \in ClassOf(Y, r) =>
           ClassOf(Y, q) = ClassOf(Y, r) /\ q \in ClassOf(Y, q)
    BY DEF ClassOf, AgreeOn
  <1>3. ASSUME NEW K
        PROVE K \in Intersect(ClustersOf(X), CreateFor(table, c)) <=>
                \E a \in ClustersOf(X), b \in ClustersOf({c}) : K = a \cap b /\ Cardinality(K) > 1
    BY FirstClusters DEF Intersect
  <1>4. \A Y \in SUBSET Columns : \A a \in ClustersOf(Y) : a \subseteq Rows(table) /\ IsFiniteSet(a)
    BY ClustersAre, RowsAreFinite DEF ClassOf
  <1>5. ASSUME NEW K, NEW a \in ClustersOf(X), NEW b \in ClustersOf({c}), K = a \cap b
        PROVE  Cardinality(K) > 1 <=> \E q, u \in K : q # u
    <2>1. IsFiniteSet(K)
      BY <1>4, <1>5, FS_Subset
    <2> QED
      BY <2>1, Pigeons
  <1>6. ASSUME NEW K, NEW a \in ClustersOf(X), NEW b \in ClustersOf({c}), K = a \cap b,
               \E q, u \in K : q # u
        PROVE  K \in ClustersOf(X \cup {c})
    <2>1. PICK q \in K : TRUE
      BY <1>6
    <2>2. a = ClassOf(X, q) /\ b = ClassOf({c}, q) /\ q \in Rows(table)
      <3>1. PICK r \in Rows(table) : a = ClassOf(X, r)
        BY ClustersAre
      <3>2. PICK u \in Rows(table) : b = ClassOf({c}, u)
        BY ClustersAre
      <3>3. q \in a /\ q \in b /\ q \in Rows(table)
        BY <1>4, <1>6, <2>1
      <3> QED
        BY <1>2, <3>1, <3>2, <3>3
    <2> QED
      BY <1>1, <1>6, <2>2, ClustersAre
  <1>7. ASSUME NEW K \in ClustersOf(X \cup {c})
        PROVE  \E a \in ClustersOf(X), b \in ClustersOf({c}) : K = a \cap b
    <2>1. PICK r \in Rows(table) : K = ClassOf(X \cup {c}, r) /\ \E q, u \in K : q # u
      BY ClustersAre
    <2>2. K = ClassOf(X, r) \cap ClassOf({c}, r)
      BY <1>1, <2>1
    <2>3. ClassOf(X, r) \in ClustersOf(X) /\ ClassOf({c}, r) \in ClustersOf({c})
      BY <2>1, <2>2, ClustersAre
    <2> QED
      BY <2>2, <2>3
  <1>8. ASSUME NEW K \in ClustersOf(X \cup {c}) PROVE \E q, u \in K : q # u
    BY ClustersAre
  <1>9. ASSUME NEW K
        PROVE  K \in Intersect(ClustersOf(X), CreateFor(table, c)) <=> K \in ClustersOf(X \cup {c})
    <2>1. ASSUME K \in Intersect(ClustersOf(X), CreateFor(table, c))
          PROVE  K \in ClustersOf(X \cup {c})
      <3>1. PICK a \in ClustersOf(X), b \in ClustersOf({c}) : K = a \cap b /\ Cardinality(K) > 1
        BY <1>3, <2>1
      <3> QED
        BY <1>5, <1>6, <3>1
    <2>2. ASSUME K \in ClustersOf(X \cup {c})
          PROVE  K \in Intersect(ClustersOf(X), CreateFor(table, c))
      <3>1. PICK a \in ClustersOf(X), b \in ClustersOf({c}) : K = a \cap b
        BY <1>7, <2>2
      <3>2. Cardinality(K) > 1
        BY <1>5, <1>8, <2>2, <3>1
      <3> QED
        BY <1>3, <3>1, <3>2
    <2> QED
      BY <2>1, <2>2
  <1> QED
    BY <1>9

(* A set without clusters is unique; rows in a cluster agree.              *)
LEMMA UniqueIs ==
  ASSUME table \in AllTables, NEW X \in SUBSET Columns
  PROVE  /\ ClustersOf(X) = {} => IsUnique(table, X)
         /\ \A K \in ClustersOf(X) : \A q, r \in K :
              q \in Rows(table) /\ r \in Rows(table) /\ X \subseteq AgreeOn(table, q, r)
  <1>1. ASSUME NEW r \in Rows(table), NEW q \in Rows(table), r < q, X \subseteq AgreeOn(table, r, q)
        PROVE  ClassOf(X, r) \in ClustersOf(X)
    <2>1. q \in ClassOf(X, r) /\ r \in ClassOf(X, r) /\ q # r
      BY <1>1, RowsAreFinite DEF ClassOf, AgreeOn
    <2> QED
      BY <2>1, ClustersAre
  <1>2. ASSUME NEW K \in ClustersOf(X), NEW q \in K, NEW r \in K
        PROVE  q \in Rows(table) /\ r \in Rows(table) /\ X \subseteq AgreeOn(table, q, r)
    <2>1. PICK u \in Rows(table) : K = ClassOf(X, u)
      BY ClustersAre
    <2> QED
      BY <2>1 DEF ClassOf, AgreeOn
  <1> QED
    BY <1>1, <1>2 DEF IsUnique

(* The types of the search.                                                *)
RowSets == SUBSET SUBSET Rows(table)
HpiTypeInv ==
  /\ table \in AllTables
  /\ at \in {"read", "cut", "branch", "extend", "return", "timeout", "done"}
  /\ partial_hg_ \in Marks /\ uncov \in Marks /\ uccs \in Marks
  /\ unsampled \in SUBSET Columns /\ cand \in SUBSET Columns
  /\ s \in Seq(Columns) /\ tointersect_queue \in Seq(Columns)
  /\ crit \in Seq(Marks) /\ removed_critical_stack \in Seq(Seq(Marks))
  /\ intersection_stack \in Seq(RowSets)
  /\ calls \in Seq(Frames)
  /\ check \in BOOLEAN

(* The stacks are as deep as the path, by the place in the recursion.      *)
DepthInv ==
  /\ Len(crit) = Len(s) /\ Len(removed_critical_stack) = Len(s)
  /\ at = "read" => s = <<>> /\ calls = <<>> /\ cand = Columns
  /\ at = "done" => s = <<>> /\ calls = <<>>
  /\ at = "cut" => Len(calls) = Len(s)
  /\ at = "branch" => Len(calls) = Len(s) + 1
  /\ at \in {"extend", "return", "timeout"} => Len(calls) = Len(s) /\ s # <<>>
  /\ unsampled # Columns => Len(table) > 1
  /\ at # "read" => unsampled = {}

(* The stack of intersections and the queue of those that were put off     *)
(* follow the path: the first of them are computed, the others wait in     *)
(* order.                                                                  *)
PlisInv ==
  /\ Len(intersection_stack) + Len(tointersect_queue) = Len(s)
  /\ s # <<>> => intersection_stack # <<>>
  /\ \A k \in 1 .. Len(intersection_stack) : intersection_stack[k] = ClustersOf(Path(k))
  /\ \A k \in 1 .. Len(tointersect_queue) : tointersect_queue[k] = s[Len(intersection_stack) + k]

(* Clusters are sets of rows.                                              *)
LEMMA ClustersOfRows ==
  ASSUME NEW X
  PROVE  ClustersOf(X) \in RowSets
  BY DEF ClustersOf, RowSets

(* The path, column by column.                                             *)
LEMMA PathIs ==
  ASSUME s \in Seq(Columns)
  PROVE  /\ \A n \in 0 .. Len(s) : Path(n) \in SUBSET Columns
         /\ \A n \in 1 .. Len(s) : Path(n) = Path(n - 1) \cup {s[n]} /\ s[n] \in Columns
         /\ Path(0) = {} /\ ToSet(s) = Path(Len(s))
  <1>1. Len(s) \in Nat /\ DOMAIN s = 1 .. Len(s) /\ \A k \in 1 .. Len(s) : s[k] \in Columns
    OBVIOUS
  <1>2. \A n \in 0 .. Len(s) : Path(n) \in SUBSET Columns
    BY <1>1 DEF Path
  <1>3. \A n \in 1 .. Len(s) : Path(n) = Path(n - 1) \cup {s[n]}
    <2> SUFFICES ASSUME NEW n \in 1 .. Len(s) PROVE Path(n) = Path(n - 1) \cup {s[n]}
      OBVIOUS
    <2>1. n \in Nat /\ 1 .. n = 1 .. (n - 1) \cup {n}
      BY <1>1
    <2> QED
      BY <2>1 DEF Path
  <1> QED
    BY <1>1, <1>2, <1>3 DEF Path, ToSet

(* PullUpIntersections brings the stack up to the path. (A least element   *)
(* that it gets wrong would have a right one before it.)                   *)
LEMMA Intersections ==
  ASSUME HpiTypeInv, PlisInv, s # <<>>
  PROVE  /\ PullUpIntersections \in Seq(RowSets) /\ Len(PullUpIntersections) = Len(s)
         /\ \A k \in 1 .. Len(s) : PullUpIntersections[k] = ClustersOf(Path(k))
  <1> DEFINE m == Len(tointersect_queue)
             L == Len(intersection_stack)
             Longer(p, n) == Append(p, Intersect(Last(p), CreateFor(table, tointersect_queue[n])))
             After(f) == [n \in 0 .. m |-> IF n = 0 THEN intersection_stack ELSE Longer(f[n - 1], n)]
             after == CHOOSE f : f = After(f)
             g == [n \in 0 .. m |-> [k \in 1 .. L + n |-> ClustersOf(Path(k))]]
  <1>1. PullUpIntersections = after[m]
    BY DEF PullUpIntersections
  <1>2. /\ m \in Nat /\ L \in Nat /\ Len(s) \in Nat /\ L + m = Len(s) /\ L # 0
        /\ table \in AllTables /\ s \in Seq(Columns)
        /\ \A n \in 1 .. m : tointersect_queue[n] = s[L + n]
        /\ \A k \in 1 .. L : intersection_stack[k] = ClustersOf(Path(k))
        /\ intersection_stack \in [1 .. L -> RowSets]
    BY DEF HpiTypeInv, PlisInv
  <1> HIDE DEF m, L
  <1>3. \A n \in 0 .. m : g[n] \in Seq(RowSets) /\ Len(g[n]) = L + n
    <2> SUFFICES ASSUME NEW n \in 0 .. m PROVE g[n] \in Seq(RowSets) /\ Len(g[n]) = L + n
      OBVIOUS
    <2>1. L + n \in Nat /\ g[n] \in [1 .. L + n -> RowSets]
      BY <1>2, ClustersOfRows
    <2> QED
      BY <2>1, FunctionIsSequence
  <1>4. g[0] = intersection_stack
    BY <1>2
  <1>5. \A n \in 1 .. m : g[n] = Longer(g[n - 1], n)
    <2> SUFFICES ASSUME NEW n \in 1 .. m PROVE g[n] = Longer(g[n - 1], n)
      OBVIOUS
    <2> DEFINE p == g[n - 1]
               x == L + n - 1
               new == Intersect(Last(p), CreateFor(table, tointersect_queue[n]))
    <2>1. n - 1 \in 0 .. m /\ n \in 0 .. m /\ x \in 1 .. Len(s) /\ x + 1 \in 1 .. Len(s) /\ x = L + (n - 1)
      BY <1>2
    <2>2. p \in Seq(RowSets) /\ Len(p) = x
      BY <1>3, <2>1
    <2>3. p[x] = ClustersOf(Path(x)) /\ \A k \in 1 .. x : p[k] = ClustersOf(Path(k))
      BY <1>2, <2>1
    <2>4. Last(p) = ClustersOf(Path(x))
      BY <2>2, <2>3 DEF Last
    <2>5. /\ Path(x + 1) = Path(x) \cup {s[x + 1]} /\ s[x + 1] \in Columns /\ Path(x) \in SUBSET Columns
          /\ tointersect_queue[n] = s[x + 1]
      <3>1. (x + 1) - 1 = x /\ L + n = x + 1 /\ x \in 0 .. Len(s)
        BY <1>2, <2>1
      <3>2. tointersect_queue[n] = s[L + n]
        BY <1>2
      <3> HIDE DEF x
      <3> QED
        BY <1>2, <2>1, <3>1, <3>2, PathIs
    <2>6. new = ClustersOf(Path(x + 1))
      <3> HIDE DEF x, p
      <3> QED
        BY <1>2, <2>4, <2>5, MoreClusters
    <2>7. new \in RowSets
      BY <2>6, ClustersOfRows
    <2>8. \A k \in 1 .. L + n : Append(p, new)[k] = g[n][k]
      <3>1. x \in Nat /\ L + n = x + 1
        BY <1>2, <2>1
      <3>2. \A k \in 1 .. x + 1 : g[n][k] = ClustersOf(Path(k))
        BY <2>1, <3>1
      <3> HIDE DEF x, p, g, new
      <3>3. \A k \in 1 .. x : Append(p, new)[k] = p[k]
        BY <2>2, <2>7
      <3>4. Append(p, new)[x + 1] = new
        BY <2>2, <2>7
      <3>5. \A k \in 1 .. x + 1 : k = x + 1 \/ k \in 1 .. x
        BY <3>1
      <3> QED
        BY <2>3, <2>6, <3>1, <3>2, <3>3, <3>4, <3>5
    <2>9. Append(p, new) \in Seq(RowSets) /\ Len(Append(p, new)) = L + n
      <3> HIDE DEF p, new
      <3> QED
        BY <1>2, <2>1, <2>2, <2>7
    <2> HIDE DEF p, new, g
    <2>10. g[n] \in Seq(RowSets) /\ Len(g[n]) = L + n
      BY <1>3, <2>1
    <2>11. Append(p, new) = g[n]
      BY <2>8, <2>9, <2>10, SeqEqual
    <2> QED
      BY <2>11 DEF p, new
  <1>6. g = After(g)
    <2> HIDE DEF Longer
    <2>1. \A n \in 0 .. m : n = 0 \/ n \in 1 .. m
      BY <1>2
    <2>2. \A n \in 0 .. m : g[n] = IF n = 0 THEN intersection_stack ELSE Longer(g[n - 1], n)
      <3> HIDE DEF g
      <3> QED
        BY <1>4, <1>5, <2>1
    <2>3. DOMAIN g = 0 .. m /\ g = [n \in 0 .. m |-> g[n]]
      OBVIOUS
    <2> HIDE DEF g
    <2> QED
      BY <2>2, <2>3
  <1>7. after = After(after)
    <2> HIDE DEF After, g
    <2> QED
      BY <1>6
  <1>8. after[m] = g[m]
    <2> HIDE DEF g, Longer
    <2>1. \A n \in 0 .. m : after[n] = IF n = 0 THEN intersection_stack ELSE Longer(after[n - 1], n)
      <3>1. \A f : f = After(f) =>
              \A n \in 0 .. m : f[n] = IF n = 0 THEN intersection_stack ELSE Longer(f[n - 1], n)
        OBVIOUS
      <3> HIDE DEF after, After
      <3> QED
        BY <1>7, <3>1
    <2> HIDE DEF after
    <2> DEFINE B == {n \in 0 .. m : after[n] # g[n]}
    <2> SUFFICES ASSUME B # {} PROVE FALSE
      BY <1>2
    <2>2. B \subseteq Nat
      BY <1>2
    <2>3. PICK n \in B : \A k \in B : ~(<<k, n>> \in OpToRel(<, Nat))
      BY <2>2, NatLessThanWellFounded, WFMin
    <2>5. ASSUME NEW k \in B PROVE n <= k
      <3>1. ~(<<k, n>> \in {ss \in Nat \X Nat : ss[1] < ss[2]})
        BY <2>3 DEF OpToRel
      <3>2. k \in Nat /\ n \in Nat
        BY <2>2
      <3> HIDE DEF B
      <3> QED
        BY <3>1, <3>2
    <2>6. n # 0 /\ n \in 1 .. m
      <3>1. 0 \in 0 .. m /\ after[0] = g[0]
        BY <1>2, <1>4, <2>1
      <3> QED
        BY <1>2, <3>1
    <2>7. n - 1 \in 0 .. m /\ n - 1 \notin B
      BY <1>2, <2>2, <2>5, <2>6
    <2>8. after[n - 1] = g[n - 1]
      BY <2>7
    <2>9. after[n] = g[n]
      BY <1>5, <2>1, <2>6, <2>8
    <2> QED
      BY <2>9
  <1>9. /\ g[m] \in Seq(RowSets) /\ Len(g[m]) = Len(s)
        /\ \A k \in 1 .. Len(s) : g[m][k] = ClustersOf(Path(k))
    <2>1. m \in 0 .. m
      BY <1>2
    <2>2. g[m] = [k \in 1 .. Len(s) |-> ClustersOf(Path(k))]
      BY <1>2, <2>1
    <2>3. g[m] \in Seq(RowSets) /\ Len(g[m]) = L + m
      BY <1>3, <2>1
    <2> QED
      BY <1>2, <2>2, <2>3
  <1> HIDE DEF g, after
  <1> QED
    BY <1>1, <1>8, <1>9

(* The candidates and the columns left of each call exclude one another,   *)
(* and a column on the path is neither: no set is reached in two ways.     *)
TreeInv ==
  /\ \A j \in 1 .. Len(calls) : calls[j].rest \subseteq calls[j].c
  /\ \A j \in 1 .. Len(s) : s[j] \in calls[j].c /\ s[j] \notin calls[j].rest
  /\ \A j \in 1 .. Len(calls) : cand \cap calls[j].rest = {}
  /\ \A j \in 1 .. Len(s) : s[j] \notin cand
  /\ \A j, k \in 1 .. Len(calls) :
       j < k => calls[k].c \cap calls[j].rest = {} /\ (j <= Len(s) => s[j] \notin calls[k].c)

(* The edges of H that only the i-th of the first n columns hits, and      *)
(* those that none of them hits.                                           *)
Critical(H, i, n) == {e \in H : s[i] \in e /\ \A k \in 1 .. n : s[k] \in e => k = i}
Unhit(H, n) == {e \in H : \A k \in 1 .. n : s[k] \notin e}

(* The marks are what they stand for in the current hypergraph: uncov the  *)
(* edges not hit, crit those hit by one column only, and                   *)
(* removed_critical_stack what each column took away from crit when it     *)
(* was added, whatever edges have come and gone since.                     *)
MarksInv ==
  /\ uncov = IF at = "read" THEN {} ELSE Unhit(partial_hg_, Len(s))
  /\ \A i \in 1 .. Len(s) : crit[i] = Critical(partial_hg_, i, Len(s))
  /\ \A d \in 1 .. Len(s) :
       /\ Len(removed_critical_stack[d]) = d - 1
       /\ \A i \in 1 .. d - 1 :
            removed_critical_stack[d][i] = {e \in Critical(partial_hg_, i, d - 1) : s[d] \in e}
  /\ MinimizeInclusion(partial_hg_) = partial_hg_

(* An edge comes from a pair of rows, or is the one the search starts      *)
(* with when no column has a cluster.                                      *)
Real(e) == e = Columns \/ \E q, r \in Rows(table) : q < r /\ e = Columns \ AgreeOn(table, q, r)

(* All edges are real; at every call there was an edge to hit, and at a    *)
(* leaf each column has an edge of its own, the last one perhaps lost.     *)
EdgesInv ==
  /\ \A e \in partial_hg_ : Real(e)
  /\ \A j \in 1 .. Len(calls) : Unhit(partial_hg_, j - 1) # {}
  /\ at = "extend" => /\ \A i \in 1 .. Len(s) - 1 : crit[i] # {}
                      /\ crit[Len(s)] # {} \/ uncov # {}

(* T may still be, or contain, a set that is to be found: it hits all      *)
(* edges.                                                                  *)
Open(T) == T \subseteq Columns /\ \A e \in partial_hg_ : e \cap T # {}

(* T is pending at the d-th call: it extends the path to there, by one of  *)
(* the columns that this call has left and by no column that was given up  *)
(* before; a deeper call's columns are not given up for it yet.            *)
Within(d, x) ==
  \/ \E k \in 1 .. Len(s) : k <= d /\ x = s[k]
  \/ x \in cand \/ x \in calls[d].rest
  \/ \E j \in 1 .. Len(calls) : j > d /\ x \in calls[j].c
PendingAt(d, T) ==
  /\ \A k \in 1 .. d - 1 : s[k] \in T
  /\ T \cap calls[d].rest # {}
  /\ \A x \in T : Within(d, x)

(* T extends the path of the node that is being looked at.                 *)
InNode(T) ==
  /\ at \in {"cut", "extend"}
  /\ \A k \in 1 .. Len(s) : s[k] \in T
  /\ \A x \in T : x \in cand \/ \E k \in 1 .. Len(s) : x = s[k]

(* The heart of it: whatever hits all edges contains a set that was        *)
(* found, or will be met.                                                  *)
Covered(T) ==
  \/ \E U \in uccs : U \subseteq T
  \/ \E d \in 1 .. Len(calls) : PendingAt(d, T)
  \/ InNode(T)
CoverInv == at # "read" => \A T \in SUBSET Columns : Open(T) => Covered(T)

(* There are finitely many columns, and one at least.                      *)
LEMMA ColumnsAreFinite ==
  IsFiniteSet(Columns) /\ Columns # {} /\ \A X \in SUBSET Columns : IsFiniteSet(X)
  <1>1. IsFiniteSet(Columns) /\ 1 \in Columns
    BY HpiAssumption, FS_Interval DEF Columns
  <1> QED
    BY <1>1, FS_Subset

(* Minimizing leaves something of something.                               *)
LEMMA SomeEdgeIsLeast ==
  ASSUME NEW E \in Marks, E # {}
  PROVE  MinimizeInclusion(E) # {}
  <1> DEFINE R == StrictSubsetOrdering(Columns)
  <1>1. IsWellFoundedOn(R, FiniteSubsetsOf(Columns))
    BY FS_StrictSubsetOrderingWellFounded
  <1>2. E \subseteq FiniteSubsetsOf(Columns)
    BY ColumnsAreFinite DEF Marks, FiniteSubsetsOf
  <1>3. PICK Y \in E : \A Z \in E : ~(<<Z, Y>> \in R)
    BY <1>1, <1>2, WFMin
  <1>4. ASSUME NEW Z \in E, Z \subseteq Y, Z # Y PROVE FALSE
    <2>1. Z \subseteq Columns /\ Y \subseteq Columns
      BY DEF Marks
    <2>2. <<Z, Y>> \in R
      BY <1>4, <2>1 DEF StrictSubsetOrdering
    <2> QED
      BY <1>3, <2>2
  <1>5. Y \in MinimizeInclusion(E)
    BY <1>4 DEF MinimizeInclusion
  <1> QED
    BY <1>5

(* Minimizing twice is minimizing once.                                    *)
LEMMA MinimizedTwice ==
  ASSUME NEW E
  PROVE  /\ MinimizeInclusion(E) \subseteq E
         /\ MinimizeInclusion(MinimizeInclusion(E)) = MinimizeInclusion(E)
  BY DEF MinimizeInclusion

(* A sample of the clusters of X is a set of real edges, none of which X   *)
(* hits.                                                                   *)
LEMMA SamplesAre ==
  ASSUME table \in AllTables, NEW X \in SUBSET Columns, NEW edges \in Samples(ClustersOf(X))
  PROVE  /\ edges \in Marks /\ edges # {} /\ MinimizeInclusion(edges) = edges
         /\ \A e \in edges : Real(e) /\ e \cap X = {}
  <1> DEFINE pli == ClustersOf(X)
             all == PairsOf(pli)
             Edge(p) == Columns \ AgreeOn(table, p[1], p[2])
  <1>1. PICK n \in 1 .. Min({ToView, Cardinality(all)}) :
          \E P \in kSubset(n, all) : edges = DifferenceSets(P)
    BY DEF Samples
  <1>2. \A p \in all : \E K \in pli : p \in K \X K /\ p[1] < p[2]
    BY DEF PairsOf
  <1>3. \A p \in all : /\ p[1] \in Rows(table) /\ p[2] \in Rows(table) /\ p[1] < p[2]
                       /\ X \subseteq AgreeOn(table, p[1], p[2]) /\ p \in Rows(table) \X Rows(table)
    <2> SUFFICES ASSUME NEW p \in all
                 PROVE  /\ p[1] \in Rows(table) /\ p[2] \in Rows(table) /\ p[1] < p[2]
                        /\ X \subseteq AgreeOn(table, p[1], p[2]) /\ p \in Rows(table) \X Rows(table)
      OBVIOUS
    <2>1. PICK K \in pli : p \in K \X K /\ p[1] < p[2]
      BY <1>2
    <2>2. p = <<p[1], p[2]>> /\ p[1] \in K /\ p[2] \in K
      BY <2>1
    <2>3. p[1] \in Rows(table) /\ p[2] \in Rows(table) /\ X \subseteq AgreeOn(table, p[1], p[2])
      BY <2>1, <2>2, UniqueIs
    <2> QED
      BY <2>1, <2>2, <2>3
  <1>4. IsFiniteSet(all) /\ Cardinality(all) \in Nat
    <2>1. IsFiniteSet(Rows(table) \X Rows(table))
      BY RowsAreFinite, FS_Product
    <2>2. all \subseteq Rows(table) \X Rows(table)
      BY <1>3
    <2> HIDE DEF all
    <2> QED
      BY <2>1, <2>2, FS_Subset, FS_CardinalityType
  <1>5. n \in Nat /\ n > 0
    <2> DEFINE x == Cardinality(all)
    <2>1. ToView \in Nat /\ x \in Nat
      BY <1>4, HpiAssumption
    <2> HIDE DEF x
    <2>2. \E y \in {ToView, x} : \A z \in {ToView, x} : y <= z
      BY <2>1
    <2>3. Min({ToView, x}) \in {ToView, x}
      BY <2>2 DEF Min
    <2>4. Min({ToView, x}) \in Nat
      BY <2>1, <2>3
    <2>5. n \in 1 .. Min({ToView, x})
      BY <1>1 DEF x
    <2> QED
      BY <2>4, <2>5
  <1>6. PICK P \in SUBSET all : Cardinality(P) = n /\ edges = DifferenceSets(P)
    BY <1>1 DEF kSubset
  <1>7. P # {}
    BY <1>5, <1>6, FS_EmptySet
  <1> DEFINE E == {Edge(p) : p \in P}
  <1>8. edges = MinimizeInclusion(E)
    BY <1>6 DEF DifferenceSets
  <1>9. E \in Marks /\ E # {}
    BY <1>7 DEF Marks
  <1>10. \A e \in E : Real(e) /\ e \cap X = {}
    <2> SUFFICES ASSUME NEW p \in P PROVE Real(Edge(p)) /\ Edge(p) \cap X = {}
      OBVIOUS
    <2>1. /\ p[1] \in Rows(table) /\ p[2] \in Rows(table) /\ p[1] < p[2]
          /\ X \subseteq AgreeOn(table, p[1], p[2])
      BY <1>3, <1>6
    <2> QED
      BY <2>1 DEF Real
  <1> HIDE DEF E
  <1>11. edges \subseteq E /\ MinimizeInclusion(edges) = edges
    BY <1>8, MinimizedTwice
  <1>12. edges # {}
    BY <1>8, <1>9, SomeEdgeIsLeast
  <1> QED
    BY <1>9, <1>10, <1>11, <1>12 DEF Marks

(* A unique set hits all real edges.                                       *)
LEMMA UniqueHitEdges ==
  ASSUME table \in AllTables, Len(table) > 1, NEW Y \in SUBSET Columns, IsUnique(table, Y),
         NEW e, Real(e)
  PROVE  e \cap Y # {}
  <1>1. CASE e = Columns
    <2>1. 1 \in Rows(table) /\ 2 \in Rows(table)
      BY RowsAreFinite
    <2>2. Y # {}
      BY <2>1 DEF IsUnique
    <2> QED
      BY <1>1, <2>2
  <1>2. CASE e # Columns
    <2>1. PICK q, r \in Rows(table) : q < r /\ e = Columns \ AgreeOn(table, q, r)
      BY <1>2 DEF Real
    <2>2. ~(Y \subseteq AgreeOn(table, q, r))
      BY <2>1 DEF IsUnique
    <2> QED
      BY <2>1, <2>2
  <1> QED
    BY <1>1, <1>2

(* No column is on the path twice.                                         *)
LEMMA Distinct ==
  ASSUME TreeInv, HpiTypeInv, Len(s) <= Len(calls)
  PROVE  \A j, k \in 1 .. Len(s) : s[j] = s[k] => j = k
  <1> SUFFICES ASSUME NEW j \in 1 .. Len(s), NEW k \in 1 .. Len(s), j < k, s[j] = s[k] PROVE FALSE
    BY DEF HpiTypeInv
  <1>1. j \in 1 .. Len(calls) /\ k \in 1 .. Len(calls) /\ j <= Len(s)
    BY DEF HpiTypeInv
  <1> QED
    BY <1>1 DEF TreeInv

(* If the i-th column has no edge of its own in T, T hits all edges        *)
(* without it.                                                             *)
LEMMA Redundant ==
  ASSUME TreeInv, HpiTypeInv, Len(s) <= Len(calls),
         NEW H, NEW T, NEW n \in 0 .. Len(s), NEW i \in 1 .. n,
         \A e \in H : e \cap T # {},
         \A k \in 1 .. n : s[k] \in T,
         \A e \in Critical(H, i, n) : \E x \in e \cap T : x # s[i]
  PROVE  \A e \in H : e \cap (T \ {s[i]}) # {}
  <1> SUFFICES ASSUME NEW e \in H, e \cap (T \ {s[i]}) = {} PROVE FALSE
    OBVIOUS
  <1>1. s[i] \in e
    OBVIOUS
  <1>2. Len(s) \in Nat /\ \A k \in 1 .. n : k \in 1 .. Len(s)
    BY DEF HpiTypeInv
  <1>3. \A k \in 1 .. n : s[k] \in e => k = i
    BY <1>2, Distinct
  <1>4. e \in Critical(H, i, n)
    BY <1>1, <1>3 DEF Critical
  <1> QED
    BY <1>4

(* And then what is left of T is not pending anywhere: the i-th column     *)
(* was given up.                                                           *)
LEMMA NotPending ==
  ASSUME TreeInv, HpiTypeInv, Len(s) <= Len(calls), NEW T, NEW i \in 1 .. Len(s),
         \A x \in T : \/ x \in cand \/ \E k \in 1 .. Len(s) : x = s[k]
                      \/ \E j \in 1 .. Len(calls) : j > i /\ x \in calls[j].c
  PROVE  \A d \in 1 .. Len(calls) : ~PendingAt(d, T \ {s[i]})
  <1> SUFFICES ASSUME NEW d \in 1 .. Len(calls), PendingAt(d, T \ {s[i]}) PROVE FALSE
    OBVIOUS
  <1>0. Len(s) \in Nat /\ Len(calls) \in Nat
    BY DEF HpiTypeInv
  <1>1. d <= i
    BY <1>0 DEF PendingAt
  <1>2. PICK x \in T \ {s[i]} : x \in calls[d].rest
    BY DEF PendingAt
  <1>3. x \notin cand
    BY <1>2 DEF TreeInv
  <1>4. ASSUME NEW j \in 1 .. Len(calls), j > i, x \in calls[j].c PROVE FALSE
    <2>1. d < j
      BY <1>0, <1>1, <1>4
    <2> QED
      BY <1>2, <1>4, <2>1 DEF TreeInv
  <1>5. ASSUME NEW k \in 1 .. Len(s), x = s[k] PROVE FALSE
    <2>1. k \in 1 .. Len(calls) /\ s[k] \in calls[k].c /\ s[k] \notin calls[k].rest /\ k <= Len(s)
      BY <1>0 DEF TreeInv
    <2>2. CASE k = d
      BY <1>2, <1>5, <2>1, <2>2
    <2>3. CASE k > d
      BY <1>2, <1>5, <2>1, <2>3 DEF TreeInv
    <2>4. CASE k < d
      <3>1. s[k] \notin calls[d].c
        BY <2>1, <2>4 DEF TreeInv
      <3> QED
        BY <1>2, <1>5, <3>1 DEF TreeInv
    <2> QED
      BY <1>0, <2>2, <2>3, <2>4
  <1> QED
    BY <1>2, <1>3, <1>4, <1>5

(* What the types say of the stacks.                                       *)
LEMMA Shape ==
  ASSUME HpiTypeInv, DepthInv
  PROVE  /\ Len(s) \in Nat /\ Len(calls) \in Nat /\ (s = <<>> <=> Len(s) = 0)
         /\ \A k \in 1 .. Len(s) : s[k] \in Columns
         /\ \A j \in 1 .. Len(calls) : calls[j] \in Frames
         /\ Inner <=> Len(calls) > 1
  BY DEF HpiTypeInv, DepthInv, Inner

(* What they say of the innermost call.                                    *)
LEMMA CallIs ==
  ASSUME HpiTypeInv, DepthInv, calls # <<>>
  PROVE  /\ Call = calls[Len(calls)] /\ Call \in Frames /\ Len(calls) \in 1 .. Len(calls)
         /\ Call.rest # {} => Min(Call.rest) \in Call.rest /\ Min(Call.rest) \in Columns
         /\ Call.c \subseteq Columns /\ Call.rest \subseteq Columns
  <1>1. Len(calls) \in 1 .. Len(calls) /\ calls[Len(calls)] \in Frames
    BY DEF HpiTypeInv
  <1>2. Call = calls[Len(calls)]
    BY DEF Call, Last
  <1>3. Call.c \subseteq Columns /\ Call.rest \subseteq Columns
    BY <1>1, <1>2 DEF Frames
  <1>4. Call.rest # {} => Min(Call.rest) \in Call.rest
    BY <1>3, LeastIsIn
  <1> QED
    BY <1>1, <1>2, <1>3, <1>4

(* Taking a column off those it has left.                                  *)
LEMMA WithoutIs ==
  ASSUME HpiTypeInv, DepthInv, calls # <<>>, NEW v
  PROVE  /\ WithoutColumn(v) \in Seq(Frames) /\ Len(WithoutColumn(v)) = Len(calls)
         /\ \A j \in 1 .. Len(calls) : j # Len(calls) => WithoutColumn(v)[j] = calls[j]
         /\ \A j \in 1 .. Len(calls) : WithoutColumn(v)[j].c = calls[j].c
         /\ WithoutColumn(v)[Len(calls)].rest = Call.rest \ {v}
  <1> DEFINE n == Len(calls)
             f == [calls[n] EXCEPT !.rest = @ \ {v}]
  <1>1. Call = calls[n] /\ Call \in Frames /\ n \in 1 .. n /\ calls \in Seq(Frames)
    BY CallIs DEF HpiTypeInv
  <1>2. WithoutColumn(v) = [calls EXCEPT ![n] = f]
    BY DEF WithoutColumn
  <1>3. f \in Frames /\ f.c = Call.c /\ f.rest = Call.rest \ {v}
    BY <1>1 DEF Frames
  <1>4. n \in 1 .. Len(calls)
    BY <1>1
  <1> HIDE DEF f
  <1>5. /\ [calls EXCEPT ![n] = f] \in Seq(Frames)
        /\ Len([calls EXCEPT ![n] = f]) = Len(calls)
        /\ \A j \in 1 .. Len(calls) : [calls EXCEPT ![n] = f][j] = IF j = n THEN f ELSE calls[j]
    <2> HIDE DEF n
    <2> QED
      BY <1>1, <1>3, <1>4, ExceptSeq
  <1> HIDE DEF n
  <1> QED
    BY <1>1, <1>2, <1>3, <1>4, <1>5 DEF n

(* UpdateCritAndUncov, by the marks.                                       *)
LEMMA TypeOfUpdate ==
  ASSUME HpiTypeInv, DepthInv, NEW hit \in Marks, UpdateCritAndUncov(hit)
  PROVE  /\ crit' \in Seq(Marks) /\ uncov' \in Marks /\ removed_critical_stack' \in Seq(Seq(Marks))
         /\ Len(crit') = Len(s) + 1 /\ Len(removed_critical_stack') = Len(s) + 1
         /\ \A i \in 1 .. Len(s) : crit'[i] = crit[i] \ hit
         /\ crit'[Len(s) + 1] = hit \cap uncov
         /\ \A d \in 1 .. Len(s) : removed_critical_stack'[d] = removed_critical_stack[d]
         /\ removed_critical_stack'[Len(s) + 1] = [i \in 1 .. Len(s) |-> crit[i] \cap hit]
         /\ Len([i \in 1 .. Len(s) |-> crit[i] \cap hit]) = Len(s)
  <1> DEFINE n == Len(s)
             less == [i \in 1 .. n |-> crit[i] \ hit]
             cut == [i \in 1 .. n |-> crit[i] \cap hit]
  <1>1. n \in Nat /\ Len(crit) = n /\ crit \in Seq(Marks) /\ DOMAIN crit = 1 .. n /\ Len(removed_critical_stack) = n
        /\ removed_critical_stack \in Seq(Seq(Marks)) /\ uncov \in Marks
    BY DEF HpiTypeInv, DepthInv
  <1>2. crit' = Append(less, hit \cap uncov) /\ uncov' = uncov \ hit
        /\ removed_critical_stack' = Append(removed_critical_stack, cut)
    BY <1>1 DEF UpdateCritAndUncov
  <1> HIDE DEF n
  <1>3. \A i \in 1 .. n : crit[i] \in Marks
    BY <1>1
  <1>4. less \in [1 .. n -> Marks] /\ cut \in [1 .. n -> Marks]
    BY <1>3 DEF Marks
  <1>5. less \in Seq(Marks) /\ Len(less) = n /\ cut \in Seq(Marks) /\ Len(cut) = n
    <2> HIDE DEF less, cut
    <2> QED
      BY <1>1, <1>4, FunctionIsSequence
  <1>6. hit \cap uncov \in Marks /\ uncov \ hit \in Marks
    BY <1>1 DEF Marks
  <1>7. \A i \in 1 .. n : less[i] = crit[i] \ hit
    OBVIOUS
  <1> DEFINE new == hit \cap uncov
  <1>8. /\ Append(less, new) \in Seq(Marks) /\ Len(Append(less, new)) = n + 1
        /\ \A k \in 1 .. n : Append(less, new)[k] = less[k]
        /\ Append(less, new)[n + 1] = new
    <2> HIDE DEF less, new
    <2> QED
      BY <1>1, <1>5, <1>6, AppendIs DEF new
  <1>9. /\ Append(removed_critical_stack, cut) \in Seq(Seq(Marks)) /\ Len(Append(removed_critical_stack, cut)) = n + 1
        /\ \A k \in 1 .. n : Append(removed_critical_stack, cut)[k] = removed_critical_stack[k]
        /\ Append(removed_critical_stack, cut)[n + 1] = cut
    <2> HIDE DEF cut
    <2> QED
      BY <1>1, <1>5, AppendIs
  <1> HIDE DEF less
  <1>10. /\ crit' \in Seq(Marks) /\ uncov' \in Marks /\ Len(crit') = n + 1
         /\ \A i \in 1 .. n : crit'[i] = crit[i] \ hit
         /\ crit'[n + 1] = hit \cap uncov
    BY <1>2, <1>6, <1>7, <1>8
  <1> QED
    BY <1>2, <1>5, <1>9, <1>10 DEF n

(* RestoreCritAndUncov, by the marks.                                      *)
LEMMA TypeOfRestore ==
  ASSUME HpiTypeInv, DepthInv, s # <<>>, RestoreCritAndUncov,
         \A d \in 1 .. Len(s) : Len(removed_critical_stack[d]) = d - 1
  PROVE  /\ crit' \in Seq(Marks) /\ uncov' \in Marks /\ removed_critical_stack' \in Seq(Seq(Marks))
         /\ Len(crit') = Len(s) - 1 /\ Len(removed_critical_stack') = Len(s) - 1
         /\ \A i \in 1 .. Len(s) - 1 : crit'[i] = crit[i] \cup removed_critical_stack[Len(s)][i]
         /\ uncov' = uncov \cup crit[Len(s)]
         /\ \A d \in 1 .. Len(s) - 1 : removed_critical_stack'[d] = removed_critical_stack[d]
  <1> DEFINE n == Len(s)
             last == removed_critical_stack[n]
             m == n - 1
             more == [i \in 1 .. m |-> crit[i] \cup last[i]]
  <1>1. /\ n \in Nat /\ n > 0 /\ m \in Nat /\ n \in 1 .. n /\ Len(crit) = n /\ crit \in Seq(Marks)
        /\ Len(removed_critical_stack) = n /\ removed_critical_stack \in Seq(Seq(Marks)) /\ uncov \in Marks
    BY DEF HpiTypeInv, DepthInv
  <1>2. Last(crit) = crit[n] /\ Last(removed_critical_stack) = last
    BY <1>1 DEF Last
  <1>3. last \in Seq(Marks) /\ Len(last) = m
    BY <1>1
  <1>4. crit' = more /\ uncov' = uncov \cup crit[n] /\ removed_critical_stack' = Front(removed_critical_stack)
    BY <1>1, <1>2 DEF RestoreCritAndUncov
  <1>5. \A i \in 1 .. m : crit[i] \in Marks /\ last[i] \in Marks
    <2>1. \A i \in 1 .. m : i \in 1 .. Len(crit)
      BY <1>1
    <2> HIDE DEF last, m
    <2> QED
      BY <1>1, <1>3, <2>1
  <1>6. more \in [1 .. m -> Marks]
    <2> HIDE DEF last, m
    <2> QED
      BY <1>5 DEF Marks
  <1>7. more \in Seq(Marks) /\ Len(more) = m
    <2> HIDE DEF more, m
    <2> QED
      BY <1>1, <1>6, FunctionIsSequence
  <1>8. \A i \in 1 .. m : more[i] = crit[i] \cup last[i]
    OBVIOUS
  <1>9. /\ Front(removed_critical_stack) \in Seq(Seq(Marks)) /\ Len(Front(removed_critical_stack)) = m
        /\ \A k \in 1 .. m : Front(removed_critical_stack)[k] = removed_critical_stack[k]
    <2>1. removed_critical_stack # <<>>
      BY <1>1
    <2> QED
      BY <1>1, <2>1, FrontIs
  <1>10. uncov \cup crit[n] \in Marks
    BY <1>1 DEF Marks
  <1> HIDE DEF more
  <1> QED
    BY <1>4, <1>7, <1>8, <1>9, <1>10

(* Nothing is found that is not a minimal unique set. All of it:           *)
UccsInv == uccs \subseteq MinimalUccs(table)
HpiInv ==
  HpiTypeInv /\ DepthInv /\ TreeInv /\ MarksInv /\ EdgesInv /\ PlisInv /\ UccsInv /\ CoverInv

(* The search begins with two rows at least.                               *)
LEMMA Unread ==
  ASSUME HpiInv, at # "read"
  PROVE  Len(table) > 1
  BY ColumnsAreFinite DEF HpiInv, DepthInv

(* What is sampled of a column when the table is read is real.             *)
LEMMA ColumnSamples ==
  ASSUME table \in AllTables, unsampled \in SUBSET Columns, unsampled # {},
         NEW edges \in IF CreateFor(table, Min(unsampled)) = {} THEN {{}} ELSE Samples(CreateFor(table, Min(unsampled)))
  PROVE  edges \in Marks /\ \A e \in edges : Real(e)
  <1>1. Min(unsampled) \in Columns
    BY LeastIsIn
  <1>2. CASE CreateFor(table, Min(unsampled)) = {}
    BY <1>2 DEF Marks
  <1>3. CASE CreateFor(table, Min(unsampled)) # {}
    <2>1. edges \in Samples(ClustersOf({Min(unsampled)})) /\ {Min(unsampled)} \in SUBSET Columns
      BY <1>1, <1>3, FirstClusters
    <2> QED
      BY <2>1, SamplesAre
  <1> QED
    BY <1>2, <1>3

(* What a leaf that is not unique brings is real, and hit by none of its   *)
(* columns.                                                                *)
LEMMA NewEdgesAre ==
  ASSUME HpiInv, at = "extend", intersection_stack' = PullUpIntersections,
         NEW new_edges \in Samples(Last(intersection_stack'))
  PROVE  /\ new_edges \in Marks /\ new_edges # {} /\ MinimizeInclusion(new_edges) = new_edges
         /\ \A e \in new_edges : Real(e) /\ \A k \in 1 .. Len(s) : s[k] \notin e
  <1>1. s # <<>> /\ HpiTypeInv /\ PlisInv /\ Len(s) \in 1 .. Len(s) /\ Len(s) \in 0 .. Len(s) /\ table \in AllTables
    BY DEF HpiInv, HpiTypeInv, DepthInv
  <1>2. Len(PullUpIntersections) = Len(s) /\ PullUpIntersections[Len(s)] = ClustersOf(Path(Len(s)))
    BY <1>1, Intersections
  <1>3. new_edges \in Samples(ClustersOf(Path(Len(s))))
    BY <1>2 DEF Last
  <1>4. Path(Len(s)) \in SUBSET Columns
    BY <1>1, PathIs DEF HpiTypeInv
  <1>5. /\ new_edges \in Marks /\ new_edges # {} /\ MinimizeInclusion(new_edges) = new_edges
        /\ \A e \in new_edges : Real(e) /\ e \cap Path(Len(s)) = {}
    BY <1>1, <1>3, <1>4, SamplesAre
  <1> QED
    BY <1>5 DEF Path

(* Taking edges out of the marks, by the marks.                            *)
LEMMA TypeOfSubtraction ==
  ASSUME HpiTypeInv, DepthInv, NEW H
  PROVE  /\ [i \in DOMAIN crit |-> crit[i] \ H] \in Seq(Marks)
         /\ Len([i \in DOMAIN crit |-> crit[i] \ H]) = Len(s)
         /\ UpdateRemoved(H) \in Seq(Seq(Marks)) /\ Len(UpdateRemoved(H)) = Len(s)
         /\ \A d \in 1 .. Len(s) : /\ UpdateRemoved(H)[d] \in Seq(Marks)
                                   /\ Len(UpdateRemoved(H)[d]) = Len(removed_critical_stack[d])
                                   /\ \A i \in 1 .. Len(removed_critical_stack[d]) :
                                        UpdateRemoved(H)[d][i] = removed_critical_stack[d][i] \ H
  <1> DEFINE n == Len(s)
             less == [i \in 1 .. n |-> crit[i] \ H]
             Row(d) == [i \in DOMAIN removed_critical_stack[d] |-> removed_critical_stack[d][i] \ H]
             rows == [d \in 1 .. n |-> Row(d)]
  <1>1. /\ n \in Nat /\ crit \in Seq(Marks) /\ DOMAIN crit = 1 .. n
        /\ removed_critical_stack \in Seq(Seq(Marks)) /\ DOMAIN removed_critical_stack = 1 .. n
    BY DEF HpiTypeInv, DepthInv
  <1>2. [i \in DOMAIN crit |-> crit[i] \ H] = less /\ UpdateRemoved(H) = rows
    BY <1>1 DEF UpdateRemoved
  <1>3. less \in [1 .. n -> Marks]
    BY <1>1 DEF Marks
  <1>4. ASSUME NEW d \in 1 .. n
        PROVE  /\ Row(d) \in Seq(Marks) /\ Len(Row(d)) = Len(removed_critical_stack[d])
               /\ \A i \in 1 .. Len(removed_critical_stack[d]) : Row(d)[i] = removed_critical_stack[d][i] \ H
    <2> DEFINE q == removed_critical_stack[d]
               f == [i \in 1 .. Len(q) |-> q[i] \ H]
    <2>1. q \in Seq(Marks) /\ Len(q) \in Nat /\ DOMAIN q = 1 .. Len(q)
      BY <1>1
    <2>2. Row(d) = f
      BY <2>1
    <2>3. \A i \in 1 .. Len(q) : q[i] \in Marks
      <3> HIDE DEF q
      <3> QED
        BY <2>1
    <2>4. f \in [1 .. Len(q) -> Marks] /\ \A i \in 1 .. Len(q) : f[i] = q[i] \ H
      <3> HIDE DEF q
      <3> QED
        BY <2>3 DEF Marks
    <2> HIDE DEF f
    <2>5. f \in Seq(Marks) /\ Len(f) = Len(q)
      <3> HIDE DEF q
      <3> QED
        BY <2>1, <2>4, FunctionIsSequence
    <2> QED
      BY <2>2, <2>4, <2>5
  <1> HIDE DEF Row
  <1>5. rows \in [1 .. n -> Seq(Marks)] /\ \A d \in 1 .. n : rows[d] = Row(d)
    BY <1>4
  <1> HIDE DEF rows, less
  <1>6. less \in Seq(Marks) /\ Len(less) = n /\ rows \in Seq(Seq(Marks)) /\ Len(rows) = n
    <2> HIDE DEF n
    <2> QED
      BY <1>1, <1>3, <1>5, FunctionIsSequence
  <1> QED
    BY <1>2, <1>4, <1>5, <1>6

(* Going back up the stack of intersections.                               *)
LEMMA PoppedIntersections ==
  ASSUME HpiInv, at = "return", PopIntersection
  PROVE  /\ intersection_stack' \in Seq(RowSets) /\ tointersect_queue' \in Seq(Columns)
         /\ Len(intersection_stack') + Len(tointersect_queue') = Len(s) - 1
         /\ Len(s) > 1 => intersection_stack' # <<>>
         /\ Len(intersection_stack') <= Len(intersection_stack) /\ Len(tointersect_queue') <= Len(tointersect_queue)
         /\ tointersect_queue' # <<>> => Len(intersection_stack') = Len(intersection_stack)
         /\ \A k \in 1 .. Len(intersection_stack') : intersection_stack'[k] = intersection_stack[k]
         /\ \A k \in 1 .. Len(tointersect_queue') : tointersect_queue'[k] = tointersect_queue[k]
  <1>1. /\ intersection_stack \in Seq(RowSets) /\ tointersect_queue \in Seq(Columns)
        /\ Len(intersection_stack) \in Nat /\ Len(tointersect_queue) \in Nat
        /\ Len(intersection_stack) + Len(tointersect_queue) = Len(s) /\ intersection_stack # <<>>
        /\ Len(intersection_stack) > 0
    BY DEF HpiInv, HpiTypeInv, DepthInv, PlisInv
  <1>2. CASE tointersect_queue = <<>>
    <2>1. intersection_stack' = Front(intersection_stack) /\ tointersect_queue' = tointersect_queue
      BY <1>2 DEF PopIntersection
    <2>2. /\ Front(intersection_stack) \in Seq(RowSets) /\ Len(Front(intersection_stack)) = Len(intersection_stack) - 1
          /\ \A k \in 1 .. Len(intersection_stack) - 1 : Front(intersection_stack)[k] = intersection_stack[k]
      BY <1>1, FrontIs
    <2>3. Len(tointersect_queue) = 0
      BY <1>2
    <2> QED
      BY <1>1, <1>2, <2>1, <2>2, <2>3
  <1>3. CASE tointersect_queue # <<>>
    <2>1. tointersect_queue' = Front(tointersect_queue) /\ intersection_stack' = intersection_stack
      BY <1>3 DEF PopIntersection
    <2>2. /\ Front(tointersect_queue) \in Seq(Columns) /\ Len(Front(tointersect_queue)) = Len(tointersect_queue) - 1
          /\ \A k \in 1 .. Len(tointersect_queue) - 1 : Front(tointersect_queue)[k] = tointersect_queue[k]
      BY <1>1, <1>3, FrontIs
    <2> QED
      BY <1>1, <2>1, <2>2
  <1> QED
    BY <1>2, <1>3

(* Going back up the path.                                                 *)
LEMMA PoppedPath ==
  ASSUME HpiInv, at = "return", s' = Front(s)
  PROVE  /\ s' \in Seq(Columns) /\ Len(s') = Len(s) - 1 /\ Len(s) \in 1 .. Len(s) /\ Len(s) \in Nat
         /\ \A k \in 1 .. Len(s) - 1 : s'[k] = s[k]
         /\ Last(s) = s[Len(s)] /\ Last(s) \in Columns
  <1>1. s \in Seq(Columns) /\ s # <<>> /\ Len(s) \in Nat
    BY DEF HpiInv, HpiTypeInv, DepthInv
  <1> QED
    BY <1>1, FrontIs

(* Leaving a call.                                                         *)
LEMMA PoppedCall ==
  ASSUME HpiInv, calls # <<>>, calls' = Front(calls)
  PROVE  /\ calls' \in Seq(Frames) /\ Len(calls') = Len(calls) - 1
         /\ \A j \in 1 .. Len(calls) - 1 : calls'[j] = calls[j]
  BY FrontIs DEF HpiInv, HpiTypeInv

(* Every step keeps the types and the depths.                              *)
LEMMA TypesKeep ==
  ASSUME HpiInv, HpiNext
  PROVE  HpiTypeInv' /\ DepthInv'
  <1> USE DEF HpiInv
  <1>0. table' = table /\ HpiTypeInv /\ DepthInv
    BY DEF HpiNext
  <1>s. /\ Len(s) \in Nat /\ Len(calls) \in Nat /\ (s = <<>> <=> Len(s) = 0) /\ (calls = <<>> <=> Len(calls) = 0)
        /\ Inner <=> Len(calls) > 1
    BY Shape DEF HpiTypeInv
  <1>1. CASE SampleColumn
    <2> DEFINE c == Min(unsampled)
    <2>1. PICK edges \in IF CreateFor(table, c) = {} THEN {{}} ELSE Samples(CreateFor(table, c)) :
            partial_hg_' = MinimizeInclusion(partial_hg_ \cup edges)
      BY <1>1 DEF SampleColumn
    <2>2. edges \in Marks
      BY <1>0, <1>1, <2>1, ColumnSamples DEF HpiTypeInv, SampleColumn
    <2>3. partial_hg_' \in Marks
      BY <1>0, <2>1, <2>2 DEF Marks, HpiTypeInv, MinimizeInclusion
    <2>4. /\ unsampled' = unsampled \ {c} /\ Len(table) > 1 /\ at = "read"
          /\ UNCHANGED <<at, s, cand, crit, uncov, removed_critical_stack, intersection_stack, tointersect_queue, calls, check, uccs>>
      BY <1>1 DEF SampleColumn
    <2>5. unsampled' \in SUBSET Columns
      BY <1>0, <2>4 DEF HpiTypeInv
    <2>6. HpiTypeInv'
      BY <1>0, <2>3, <2>4, <2>5 DEF HpiTypeInv, AllTables, RowSets, Rows
    <2>7. DepthInv'
      BY <1>0, <2>4 DEF DepthInv
    <2> QED
      BY <2>6, <2>7
  <1>2. CASE StartSearch
    <2>1. HpiTypeInv'
      BY <1>0, <1>2 DEF HpiTypeInv, StartSearch, AllTables, RowSets, Rows
    <2>2. DepthInv'
      BY <1>0, <1>2, <1>s, ColumnsAreFinite DEF DepthInv, StartSearch
    <2> QED
      BY <2>1, <2>2
  <1>3. CASE Cut
    <2>1. PICK e \in uncov : /\ calls' = Append(calls, [c |-> e \cap cand, rest |-> e \cap cand])
                             /\ cand' = cand \ e
      BY <1>3 DEF Cut
    <2> DEFINE call == [c |-> e \cap cand, rest |-> e \cap cand]
    <2>2. call \in Frames /\ cand' \in SUBSET Columns
      BY <1>0, <2>1 DEF HpiTypeInv, Frames
    <2> HIDE DEF call
    <2>3. calls' \in Seq(Frames) /\ Len(calls') = Len(calls) + 1
      BY <1>0, <2>1, <2>2, AppendIs DEF HpiTypeInv, call
    <2>4. HpiTypeInv'
      BY <1>0, <1>3, <2>2, <2>3 DEF HpiTypeInv, Cut, AllTables, RowSets, Rows
    <2>5. DepthInv'
      BY <1>0, <1>3, <1>s, <2>3 DEF DepthInv, Cut
    <2> QED
      BY <2>4, <2>5
  <1>4. CASE Violater
    <2>1. calls # <<>>
      BY <1>0, <1>4, <1>s DEF Violater, DepthInv
    <2>2. calls' \in Seq(Frames) /\ Len(calls') = Len(calls)
      BY <1>0, <1>4, <2>1, WithoutIs DEF Violater
    <2>3. HpiTypeInv'
      BY <1>0, <1>4, <2>2 DEF HpiTypeInv, Violater, AllTables, RowSets, Rows
    <2>4. DepthInv'
      BY <1>0, <1>4, <2>2 DEF DepthInv, Violater
    <2> QED
      BY <2>3, <2>4
  <1>5. CASE Branch
    <2> DEFINE v == Min(Call.rest)
               new == CreateFor(table, v)
    <2>1. at = "branch" /\ calls # <<>> /\ Len(calls) = Len(s) + 1 /\ Call.rest # {}
      BY <1>0, <1>5, <1>s DEF Branch, DepthInv
    <2>2. v \in Columns
      BY <1>0, <2>1, CallIs
    <2>3. /\ UpdateCritAndUncov(Hittings(v)) /\ s' = Append(s, v) /\ calls' = WithoutColumn(v) /\ at' = "extend"
          /\ UNCHANGED <<partial_hg_, unsampled, cand, check, uccs>>
      BY <1>5 DEF Branch
    <2>4. \/ tointersect_queue' = Append(tointersect_queue, v) /\ UNCHANGED intersection_stack
          \/ intersection_stack' = Append(intersection_stack, new) /\ UNCHANGED tointersect_queue
      BY <1>5 DEF Branch
    <2>5. new \in RowSets
      BY <1>0, <2>2, FirstClusters, ClustersOfRows DEF HpiTypeInv
    <2>6. Hittings(v) \in Marks
      BY <1>0 DEF Hittings, HpiTypeInv, Marks
    <2>7. /\ crit' \in Seq(Marks) /\ uncov' \in Marks /\ removed_critical_stack' \in Seq(Seq(Marks))
          /\ Len(crit') = Len(s) + 1 /\ Len(removed_critical_stack') = Len(s) + 1
      BY <1>0, <2>3, <2>6, TypeOfUpdate
    <2>8. calls' \in Seq(Frames) /\ Len(calls') = Len(calls)
      BY <1>0, <2>1, <2>3, WithoutIs
    <2> HIDE DEF v, new
    <2>9. s' \in Seq(Columns) /\ Len(s') = Len(s) + 1 /\ s' # <<>>
      <3>1. s' \in Seq(Columns) /\ Len(s') = Len(s) + 1
        BY <1>0, <2>2, <2>3, AppendIs DEF HpiTypeInv
      <3> QED
        BY <1>s, <3>1
    <2>10. intersection_stack' \in Seq(RowSets) /\ tointersect_queue' \in Seq(Columns)
      <3>1. intersection_stack \in Seq(RowSets) /\ tointersect_queue \in Seq(Columns)
        BY <1>0 DEF HpiTypeInv
      <3>2. Append(intersection_stack, new) \in Seq(RowSets)
        BY <2>5, <3>1, AppendIs
      <3>3. Append(tointersect_queue, v) \in Seq(Columns)
        BY <2>2, <3>1, AppendIs
      <3> QED
        BY <2>4, <3>1, <3>2, <3>3
    <2>11. HpiTypeInv'
      BY <1>0, <2>3, <2>7, <2>8, <2>9, <2>10 DEF HpiTypeInv, AllTables, RowSets, Rows
    <2>12. DepthInv'
      BY <1>0, <2>1, <2>3, <2>7, <2>8, <2>9 DEF DepthInv
    <2> QED
      BY <2>11, <2>12
  <1>6. CASE Extend
    <2>1. HpiTypeInv'
      BY <1>0, <1>6 DEF HpiTypeInv, Extend, AllTables, RowSets, Rows
    <2>2. DepthInv'
      BY <1>0, <1>6 DEF DepthInv, Extend
    <2> QED
      BY <2>1, <2>2
  <1>7. CASE Confirm
    <2>1. s # <<>> /\ ToSet(s) \in SUBSET Columns
      <3>1. Len(s) \in 0 .. Len(s)
        BY <1>s
      <3> QED
        BY <1>0, <1>7, <3>1, PathIs DEF Confirm, DepthInv, HpiTypeInv
    <2>2. intersection_stack' \in Seq(RowSets) /\ tointersect_queue' \in Seq(Columns)
      BY <1>0, <1>7, <2>1, Intersections, EmptySeq DEF Confirm
    <2>3. uccs' \in Marks /\ check' \in BOOLEAN /\ at' \in {"return", "timeout"}
      BY <1>0, <1>7, <2>1 DEF Confirm, HpiTypeInv, Marks
    <2>4. HpiTypeInv'
      BY <1>0, <1>7, <2>2, <2>3 DEF HpiTypeInv, Confirm, AllTables, RowSets, Rows
    <2>5. DepthInv'
      BY <1>0, <1>7, <2>3 DEF DepthInv, Confirm
    <2> QED
      BY <2>4, <2>5
  <1>8. CASE UpdateEdges
    <2>1. s # <<>> /\ intersection_stack' = PullUpIntersections /\ tointersect_queue' = <<>> /\ at = "extend"
      BY <1>0, <1>8 DEF UpdateEdges, DepthInv
    <2>2. intersection_stack' \in Seq(RowSets) /\ tointersect_queue' \in Seq(Columns)
      BY <1>0, <2>1, Intersections, EmptySeq
    <2>3. PICK new_edges \in Samples(Last(intersection_stack')) :
            LET supsets == {e \in partial_hg_ : \E f \in new_edges : f \subseteq e}
            IN /\ partial_hg_' = (partial_hg_ \ supsets) \cup new_edges
               /\ uncov' = new_edges
               /\ crit' = [i \in DOMAIN crit |-> crit[i] \ supsets]
               /\ removed_critical_stack' = UpdateRemoved(supsets)
      BY <1>8 DEF UpdateEdges
    <2> DEFINE supsets == {e \in partial_hg_ : \E f \in new_edges : f \subseteq e}
    <2>4. new_edges \in Marks
      BY <2>1, NewEdgesAre
    <2>5. partial_hg_' \in Marks /\ uncov' \in Marks
      BY <1>0, <2>3, <2>4 DEF HpiTypeInv, Marks
    <2>6. /\ crit' = [i \in DOMAIN crit |-> crit[i] \ supsets]
          /\ removed_critical_stack' = UpdateRemoved(supsets)
      BY <2>3
    <2> HIDE DEF supsets
    <2>7. /\ crit' \in Seq(Marks) /\ removed_critical_stack' \in Seq(Seq(Marks))
          /\ Len(crit') = Len(s) /\ Len(removed_critical_stack') = Len(s)
      BY <1>0, <2>6, TypeOfSubtraction
    <2>8. at' \in {"cut", "return"} /\ check' \in BOOLEAN /\ UNCHANGED <<unsampled, s, cand, calls, uccs>>
      BY <1>0, <1>8 DEF UpdateEdges, HpiTypeInv
    <2>9. HpiTypeInv'
      BY <1>0, <2>2, <2>5, <2>7, <2>8 DEF HpiTypeInv, AllTables, RowSets, Rows
    <2>10. DepthInv'
      BY <1>0, <2>1, <2>7, <2>8 DEF DepthInv
    <2> QED
      BY <2>9, <2>10
  <1>9. CASE Return
    <2>1. /\ at = "return" /\ PopIntersection /\ RestoreCritAndUncov /\ s' = Front(s)
          /\ UNCHANGED <<partial_hg_, unsampled, check, uccs>>
      BY <1>9 DEF Return
    <2>2. s # <<>> /\ Len(calls) = Len(s) /\ calls # <<>>
      BY <1>0, <1>s, <2>1 DEF DepthInv
    <2>3. intersection_stack' \in Seq(RowSets) /\ tointersect_queue' \in Seq(Columns)
      BY <2>1, PoppedIntersections
    <2>4. s' \in Seq(Columns) /\ Len(s') = Len(s) - 1 /\ Last(s) \in Columns
      BY <2>1, PoppedPath
    <2>5. /\ crit' \in Seq(Marks) /\ uncov' \in Marks /\ removed_critical_stack' \in Seq(Seq(Marks))
          /\ Len(crit') = Len(s) - 1 /\ Len(removed_critical_stack') = Len(s) - 1
      BY <1>0, <2>1, <2>2, TypeOfRestore DEF MarksInv
    <2>6. \/ Inner /\ cand' = cand \cup Call.c /\ calls' = Front(calls) /\ at' = "return"
          \/ cand' = cand \cup {Last(s)} /\ at' = "branch" /\ UNCHANGED calls
      BY <1>9 DEF Return
    <2>7. /\ cand' \in SUBSET Columns /\ calls' \in Seq(Frames)
          /\ \/ at' = "return" /\ Len(calls') = Len(s') /\ s' # <<>>
             \/ at' = "branch" /\ Len(calls') = Len(s') + 1
      <3>1. CASE Inner /\ cand' = cand \cup Call.c /\ calls' = Front(calls) /\ at' = "return"
        <4>1. calls' \in Seq(Frames) /\ Len(calls') = Len(calls) - 1
          BY <2>2, <3>1, PoppedCall
        <4>2. cand' \in SUBSET Columns
          BY <1>0, <2>2, <3>1, CallIs DEF HpiTypeInv
        <4>3. Len(s') > 0
          BY <1>s, <2>2, <2>4, <3>1
        <4>4. s' # <<>>
          BY <4>3, EmptySeq
        <4> QED
          BY <2>2, <2>4, <3>1, <4>1, <4>2, <4>4
      <3>2. CASE cand' = cand \cup {Last(s)} /\ at' = "branch" /\ UNCHANGED calls
        BY <1>0, <1>s, <2>2, <2>4, <3>2 DEF HpiTypeInv
      <3> QED
        BY <2>6, <3>1, <3>2
    <2>8. HpiTypeInv'
      BY <1>0, <2>1, <2>3, <2>4, <2>5, <2>7 DEF HpiTypeInv, AllTables, RowSets, Rows
    <2>9. DepthInv'
      BY <1>0, <2>1, <2>4, <2>5, <2>7 DEF DepthInv
    <2> QED
      BY <2>8, <2>9
  <1>10. CASE AllTried
    <2>1. at = "branch" /\ Len(calls) = Len(s) + 1 /\ calls # <<>>
      BY <1>0, <1>10, <1>s DEF AllTried, DepthInv
    <2>2. /\ cand' = cand \cup Call.c /\ calls' = Front(calls) /\ check' = FALSE
          /\ at' = IF Inner THEN "return" ELSE "done"
          /\ UNCHANGED <<partial_hg_, unsampled, s, crit, uncov, removed_critical_stack, intersection_stack, tointersect_queue, uccs>>
      BY <1>10 DEF AllTried
    <2>3. calls' \in Seq(Frames) /\ Len(calls') = Len(calls) - 1
      BY <2>1, <2>2, PoppedCall
    <2>4. cand' \in SUBSET Columns
      BY <1>0, <2>1, <2>2, CallIs DEF HpiTypeInv
    <2>5. Inner \/ (s = <<>> /\ calls' = <<>>)
      BY <1>s, <2>1, <2>3, EmptySeq
    <2>6. HpiTypeInv'
      BY <1>0, <2>2, <2>3, <2>4 DEF HpiTypeInv, AllTables, RowSets, Rows
    <2>7. DepthInv'
      BY <1>0, <1>s, <2>1, <2>2, <2>3, <2>5 DEF DepthInv
    <2> QED
      BY <2>6, <2>7
  <1> QED
    BY <1>1, <1>2, <1>3, <1>4, <1>5, <1>6, <1>7, <1>8, <1>9, <1>10 DEF HpiNext

(* Every step keeps the candidates of the calls apart.                     *)
LEMMA TreeKeeps ==
  ASSUME HpiInv, HpiNext
  PROVE  TreeInv'
  <1> USE DEF HpiInv
  <1>0. HpiTypeInv /\ DepthInv /\ TreeInv
    OBVIOUS
  <1>s. /\ Len(s) \in Nat /\ Len(calls) \in Nat /\ (s = <<>> <=> Len(s) = 0) /\ (calls = <<>> <=> Len(calls) = 0)
        /\ Inner <=> Len(calls) > 1
    BY Shape DEF HpiTypeInv
  <1>1. CASE UNCHANGED <<s, cand, calls>>
    BY <1>0, <1>1 DEF TreeInv
  <1>2. CASE Cut
    <2>1. PICK e \in uncov : /\ calls' = Append(calls, [c |-> e \cap cand, rest |-> e \cap cand])
                             /\ cand' = cand \ e
      BY <1>2 DEF Cut
    <2> DEFINE n == Len(s)
               call == [c |-> e \cap cand, rest |-> e \cap cand]
    <2>2. s' = s /\ Len(calls) = n
      BY <1>0, <1>2 DEF Cut, DepthInv
    <2>3. call \in Frames /\ call.c = e \cap cand /\ call.rest = e \cap cand
      BY <1>0, <2>1 DEF HpiTypeInv, Frames
    <2> HIDE DEF call
    <2>4. /\ Len(calls') = n + 1 /\ calls'[n + 1] = call
          /\ \A j \in 1 .. n : calls'[j] = calls[j]
      BY <1>0, <2>1, <2>2, <2>3, AppendIs DEF HpiTypeInv, call
    <2> HIDE DEF n
    <2>5. n = Len(s) /\ n \in Nat
      BY <1>s DEF n
    <2>6. \A j \in 1 .. n + 1 : j \in 1 .. n \/ j = n + 1
      BY <2>5
    <2>7. \A j \in 1 .. n : /\ calls[j].rest \subseteq calls[j].c /\ s[j] \in calls[j].c /\ s[j] \notin calls[j].rest
                            /\ cand \cap calls[j].rest = {} /\ s[j] \notin cand
      BY <1>0, <2>2, <2>5 DEF TreeInv
    <2>8. \A j, k \in 1 .. n : j < k => calls[k].c \cap calls[j].rest = {} /\ s[j] \notin calls[k].c
      BY <1>0, <2>2, <2>5 DEF TreeInv
    <2>9. \A j, k \in 1 .. n + 1 : j < k => calls'[k].c \cap calls'[j].rest = {} /\ (j <= n => s[j] \notin calls'[k].c)
      <3> SUFFICES ASSUME NEW j \in 1 .. n + 1, NEW k \in 1 .. n + 1, j < k
                   PROVE  calls'[k].c \cap calls'[j].rest = {} /\ s[j] \notin calls'[k].c
        OBVIOUS
      <3>1. j \in 1 .. n
        BY <2>5
      <3> QED
        BY <2>3, <2>4, <2>6, <2>7, <2>8, <3>1
    <2>10. \A j \in 1 .. n + 1 : calls'[j].rest \subseteq calls'[j].c /\ cand' \cap calls'[j].rest = {}
      BY <2>1, <2>3, <2>4, <2>6, <2>7
    <2>11. \A j \in 1 .. n : s[j] \in calls'[j].c /\ s[j] \notin calls'[j].rest /\ s[j] \notin cand'
      BY <2>1, <2>4, <2>7
    <2> QED
      BY <2>2, <2>4, <2>5, <2>9, <2>10, <2>11 DEF TreeInv
  <1>3. CASE Violater
    <2> DEFINE v == Min(Call.rest)
    <2>1. calls # <<>> /\ calls' = WithoutColumn(v) /\ UNCHANGED <<s, cand>> /\ Len(calls) = Len(s) + 1
      BY <1>0, <1>3, <1>s DEF Violater, DepthInv
    <2>2. /\ Len(calls') = Len(calls)
          /\ \A j \in 1 .. Len(calls) : calls'[j].c = calls[j].c /\ calls'[j].rest \subseteq calls[j].rest
      BY <1>0, <2>1, WithoutIs, CallIs
    <2> QED
      BY <1>0, <1>s, <2>1, <2>2 DEF TreeInv
  <1>4. CASE Branch
    <2> DEFINE v == Min(Call.rest)
               n == Len(s)
    <2>1. calls # <<>> /\ calls' = WithoutColumn(v) /\ s' = Append(s, v) /\ cand' = cand /\ Len(calls) = n + 1
      BY <1>0, <1>4, <1>s DEF Branch, DepthInv
    <2>2. Call.rest # {}
      BY <1>4 DEF Branch
    <2>3. v \in Call.rest /\ v \in Columns /\ Call = calls[n + 1]
      BY <1>0, <2>1, <2>2, CallIs
    <2>4. /\ Len(calls') = n + 1
          /\ \A j \in 1 .. n + 1 : calls'[j].c = calls[j].c /\ calls'[j].rest \subseteq calls[j].rest
          /\ v \notin calls'[n + 1].rest
      BY <1>0, <2>1, WithoutIs, CallIs
    <2> HIDE DEF v
    <2>5. Len(s') = n + 1 /\ s'[n + 1] = v /\ \A j \in 1 .. n : s'[j] = s[j]
      BY <1>0, <2>1, <2>3, AppendIs DEF HpiTypeInv
    <2> HIDE DEF n
    <2>6. n = Len(s) /\ n \in Nat /\ n + 1 \in 1 .. n + 1 /\ \A j \in 1 .. n + 1 : j \in 1 .. n \/ j = n + 1
      BY <1>s DEF n
    <2>7. \A j \in 1 .. n + 1 : s'[j] \in calls'[j].c /\ s'[j] \notin calls'[j].rest /\ s'[j] \notin cand
      <3>1. v \in calls[n + 1].c /\ v \notin cand
        BY <1>0, <2>1, <2>3, <2>6 DEF TreeInv
      <3>2. \A j \in 1 .. n : s[j] \in calls[j].c /\ s[j] \notin calls[j].rest /\ s[j] \notin cand
        BY <1>0, <2>6 DEF TreeInv
      <3> QED
        BY <2>4, <2>5, <2>6, <3>1, <3>2
    <2>8. \A j, k \in 1 .. n + 1 : j < k => calls'[k].c \cap calls'[j].rest = {} /\ s'[j] \notin calls'[k].c
      <3> SUFFICES ASSUME NEW j \in 1 .. n + 1, NEW k \in 1 .. n + 1, j < k
                   PROVE  calls'[k].c \cap calls'[j].rest = {} /\ s'[j] \notin calls'[k].c
        OBVIOUS
      <3>1. j \in 1 .. n /\ j <= Len(s)
        BY <2>6
      <3>2. calls[k].c \cap calls[j].rest = {} /\ s[j] \notin calls[k].c
        BY <1>0, <2>1, <3>1 DEF TreeInv
      <3> QED
        BY <2>4, <2>5, <3>1, <3>2
    <2>9. \A j \in 1 .. n + 1 : calls'[j].rest \subseteq calls'[j].c /\ cand \cap calls'[j].rest = {}
      BY <1>0, <2>1, <2>4 DEF TreeInv
    <2> QED
      BY <2>1, <2>4, <2>5, <2>7, <2>8, <2>9 DEF TreeInv
  <1>5. CASE Return
    <2> DEFINE n == Len(s)
    <2>1. s # <<>> /\ Len(calls) = n /\ calls # <<>> /\ s' = Front(s) /\ at = "return"
      BY <1>0, <1>5, <1>s DEF Return, DepthInv
    <2>2. n \in 1 .. n /\ Len(s') = n - 1 /\ Last(s) = s[n] /\ \A j \in 1 .. n - 1 : s'[j] = s[j]
      BY <2>1, PoppedPath
    <2>3. \/ cand' = cand \cup Call.c /\ calls' = Front(calls)
          \/ cand' = cand \cup {s[n]} /\ UNCHANGED calls
      BY <1>5, <2>2 DEF Return
    <2>4. Call = calls[n]
      BY <1>0, <2>1, CallIs
    <2>5. \A j \in 1 .. n - 1 : j \in 1 .. n /\ j < n /\ j <= n
      BY <1>s
    <2>6. CASE cand' = cand \cup Call.c /\ calls' = Front(calls)
      <3>1. Len(calls') = n - 1 /\ \A j \in 1 .. n - 1 : calls'[j] = calls[j]
        BY <2>1, <2>6, PoppedCall
      <3>2. \A j \in 1 .. n - 1 : calls[n].c \cap calls[j].rest = {} /\ s[j] \notin calls[n].c
        BY <1>0, <2>1, <2>2, <2>5 DEF TreeInv
      <3> HIDE DEF n
      <3>3. n = Len(s)
        BY DEF n
      <3>4. \A j \in 1 .. n - 1 : cand' \cap calls[j].rest = {} /\ s[j] \notin cand'
        BY <1>0, <2>1, <2>4, <2>5, <2>6, <3>2, <3>3 DEF TreeInv
      <3>5. \A j \in 1 .. n - 1 : calls[j].rest \subseteq calls[j].c /\ s[j] \in calls[j].c /\ s[j] \notin calls[j].rest
        BY <1>0, <2>1, <2>5, <3>3 DEF TreeInv
      <3>6. \A j, k \in 1 .. n - 1 : j < k => calls[k].c \cap calls[j].rest = {} /\ s[j] \notin calls[k].c
        BY <1>0, <2>1, <2>5, <3>3 DEF TreeInv
      <3> QED
        BY <2>2, <3>1, <3>4, <3>5, <3>6 DEF TreeInv
    <2>7. CASE cand' = cand \cup {s[n]} /\ UNCHANGED calls
      <3> HIDE DEF n
      <3>1. n = Len(s)
        BY DEF n
      <3>2. s[n] \in calls[n].c /\ s[n] \notin calls[n].rest
        BY <1>0, <2>2, <3>1 DEF TreeInv
      <3>3. \A j \in 1 .. n - 1 : calls[n].c \cap calls[j].rest = {} /\ s[j] \notin calls[n].c
        BY <1>0, <2>1, <2>2, <2>5, <3>1 DEF TreeInv
      <3>4. \A j \in 1 .. n : j \in 1 .. n - 1 \/ j = n
        BY <1>s, <3>1
      <3>5. \A j \in 1 .. n : cand \cap calls[j].rest = {}
        BY <1>0, <2>1 DEF TreeInv
      <3>6. \A j \in 1 .. n : cand' \cap calls[j].rest = {}
        BY <2>7, <3>2, <3>3, <3>4, <3>5
      <3>7. \A j \in 1 .. n - 1 : s[j] \notin cand'
        BY <1>0, <2>5, <2>7, <3>1, <3>2, <3>3 DEF TreeInv
      <3>8. \A j \in 1 .. n - 1 : s[j] \in calls[j].c /\ s[j] \notin calls[j].rest
        BY <1>0, <2>5, <3>1 DEF TreeInv
      <3>9. \A j, k \in 1 .. n : j < k => calls[k].c \cap calls[j].rest = {} /\ s[j] \notin calls[k].c
        BY <1>0, <2>1, <3>1 DEF TreeInv
      <3>10. \A j, k \in 1 .. n : j < k /\ j <= n - 1 => s'[j] \notin calls[k].c
        BY <2>2, <3>9
      <3>11. \A j \in 1 .. n : calls[j].rest \subseteq calls[j].c
        BY <1>0, <2>1 DEF TreeInv
      <3> QED
        BY <2>1, <2>2, <2>7, <3>6, <3>7, <3>8, <3>9, <3>10, <3>11 DEF TreeInv
    <2> QED
      BY <2>3, <2>6, <2>7
  <1>6. CASE AllTried
    <2> DEFINE n == Len(s)
    <2>1. Len(calls) = n + 1 /\ calls # <<>> /\ s' = s /\ cand' = cand \cup Call.c /\ calls' = Front(calls)
      BY <1>0, <1>6, <1>s DEF AllTried, DepthInv
    <2>2. Call = calls[n + 1]
      BY <1>0, <2>1, CallIs
    <2>3. Len(calls') = n /\ \A j \in 1 .. n : calls'[j] = calls[j]
      BY <1>s, <2>1, PoppedCall
    <2> HIDE DEF n
    <2>4. n = Len(s) /\ n \in Nat /\ n + 1 \in 1 .. n + 1 /\ \A j \in 1 .. n : j \in 1 .. n + 1 /\ j < n + 1 /\ j <= n
      BY <1>s DEF n
    <2>5. \A j \in 1 .. n : calls[n + 1].c \cap calls[j].rest = {} /\ s[j] \notin calls[n + 1].c
      BY <1>0, <2>1, <2>4 DEF TreeInv
    <2>6. \A j \in 1 .. n : cand' \cap calls[j].rest = {} /\ s[j] \notin cand'
      BY <1>0, <2>1, <2>2, <2>4, <2>5 DEF TreeInv
    <2>7. \A j \in 1 .. n : calls[j].rest \subseteq calls[j].c /\ s[j] \in calls[j].c /\ s[j] \notin calls[j].rest
      BY <1>0, <2>1, <2>4 DEF TreeInv
    <2>8. \A j, k \in 1 .. n : j < k => calls[k].c \cap calls[j].rest = {} /\ s[j] \notin calls[k].c
      BY <1>0, <2>1, <2>4 DEF TreeInv
    <2> QED
      BY <2>1, <2>3, <2>4, <2>6, <2>7, <2>8 DEF TreeInv
  <1>7. SampleColumn \/ StartSearch \/ Extend \/ Confirm \/ UpdateEdges => UNCHANGED <<s, cand, calls>>
    BY DEF SampleColumn, StartSearch, Extend, Confirm, UpdateEdges
  <1> QED
    BY <1>1, <1>2, <1>3, <1>4, <1>5, <1>6, <1>7 DEF HpiNext

(* Replacing the edges that contain new ones, at a leaf: what is left is   *)
(* minimal, only the new edges are not hit, and the old critical ones are  *)
(* those that stay.                                                        *)
LEMMA NewEdgesKeep ==
  ASSUME NEW H, NEW supsets, NEW new_edges,
         \A e : e \in supsets <=> e \in H /\ \E f \in new_edges : f \subseteq e,
         MinimizeInclusion(H) = H, MinimizeInclusion(new_edges) = new_edges,
         Unhit(H, Len(s)) = {}, \A e \in new_edges : \A k \in 1 .. Len(s) : s[k] \notin e
  PROVE  /\ MinimizeInclusion((H \ supsets) \cup new_edges) = (H \ supsets) \cup new_edges
         /\ Unhit((H \ supsets) \cup new_edges, Len(s)) = new_edges
         /\ \A i, n \in 1 .. Len(s) : Critical((H \ supsets) \cup new_edges, i, n) = Critical(H, i, n) \ supsets
  <1> DEFINE N == (H \ supsets) \cup new_edges
  <1>1. \A i, n \in 1 .. Len(s) : Critical(N, i, n) = Critical(H, i, n) \ supsets
    BY DEF Critical
  <1>2. Unhit(N, Len(s)) = new_edges
    BY DEF Unhit
  <1>3. ASSUME NEW e \in N, NEW f \in N, f # e, f \subseteq e PROVE FALSE
    <2>1. CASE e \in new_edges /\ f \in new_edges
      BY <1>3, <2>1 DEF MinimizeInclusion
    <2>2. CASE e \in H \ supsets /\ f \in H \ supsets
      BY <1>3, <2>2 DEF MinimizeInclusion
    <2>3. CASE e \in H \ supsets /\ f \in new_edges
      BY <1>3, <2>3
    <2>4. CASE e \in new_edges /\ f \in H \ supsets
      <3>1. PICK k \in 1 .. Len(s) : s[k] \in f
        BY <2>4 DEF Unhit
      <3> QED
        BY <1>3, <2>4, <3>1
    <2> QED
      BY <2>1, <2>2, <2>3, <2>4
  <1>4. MinimizeInclusion(N) = N
    BY <1>3 DEF MinimizeInclusion
  <1> QED
    BY <1>1, <1>2, <1>4

(* Every step keeps the marks, UpdateEdges in the middle of the recursion  *)
(* among them.                                                             *)
LEMMA MarksKeep ==
  ASSUME HpiInv, HpiNext
  PROVE  MarksInv'
  <1> USE DEF HpiInv
  <1>0. HpiTypeInv /\ DepthInv /\ TreeInv /\ MarksInv
    OBVIOUS
  <1>s. Len(s) \in Nat /\ Len(calls) \in Nat /\ (s = <<>> <=> Len(s) = 0) /\ (calls = <<>> <=> Len(calls) = 0)
    BY Shape DEF HpiTypeInv
  <1>1. CASE /\ UNCHANGED <<partial_hg_, s, crit, uncov, removed_critical_stack>>
             /\ at' # "read" /\ at # "read"
    BY <1>0, <1>1 DEF MarksInv, Unhit, Critical
  <1>2. CASE SampleColumn
    <2>1. \E edges : partial_hg_' = MinimizeInclusion(partial_hg_ \cup edges)
      BY <1>2 DEF SampleColumn
    <2>2. MinimizeInclusion(partial_hg_') = partial_hg_'
      BY <2>1, MinimizedTwice
    <2>3. UNCHANGED <<at, s, crit, uncov, removed_critical_stack>> /\ at = "read" /\ Len(s) = 0
      BY <1>0, <1>2, <1>s DEF SampleColumn, DepthInv
    <2> QED
      BY <1>0, <2>2, <2>3 DEF MarksInv, MinimizeInclusion
  <1>3. CASE StartSearch
    <2>1. UNCHANGED <<partial_hg_, s, crit, removed_critical_stack>> /\ at' = "cut" /\ uncov' = partial_hg_ /\ Len(s) = 0
      BY <1>0, <1>3, <1>s DEF StartSearch, DepthInv
    <2> QED
      BY <1>0, <2>1 DEF MarksInv, Unhit, MinimizeInclusion
  <1>4. CASE Branch
    <2> DEFINE v == Min(Call.rest)
               n == Len(s)
               H == partial_hg_
               hit == Hittings(v)
    <2>1. /\ calls # <<>> /\ at = "branch" /\ at' = "extend" /\ UpdateCritAndUncov(hit)
          /\ s' = Append(s, v) /\ UNCHANGED partial_hg_ /\ Len(calls) = n + 1 /\ Call.rest # {}
      BY <1>0, <1>4, <1>s DEF Branch, DepthInv
    <2>2. v \in Call.rest /\ v \in Columns
      BY <1>0, <2>1, CallIs
    <2>3. hit = {e \in H : v \in e} /\ hit \in Marks
      BY <1>0 DEF Hittings, HpiTypeInv, Marks
    <2>4. /\ uncov' = uncov \ hit
          /\ \A i \in 1 .. n : crit'[i] = crit[i] \ hit
          /\ crit'[n + 1] = hit \cap uncov
          /\ \A d \in 1 .. n : removed_critical_stack'[d] = removed_critical_stack[d]
          /\ removed_critical_stack'[n + 1] = [i \in 1 .. n |-> crit[i] \cap hit]
          /\ Len([i \in 1 .. n |-> crit[i] \cap hit]) = n
      BY <1>0, <2>1, <2>3, TypeOfUpdate DEF UpdateCritAndUncov
    <2> HIDE DEF v, hit
    <2>5. Len(s') = n + 1 /\ s'[n + 1] = v /\ \A j \in 1 .. n : s'[j] = s[j]
      BY <1>0, <2>1, <2>2, AppendIs DEF HpiTypeInv
    <2>6. uncov = Unhit(H, n) /\ \A i \in 1 .. n : crit[i] = Critical(H, i, n)
      BY <1>0, <2>1 DEF MarksInv
    <2>m. MinimizeInclusion(H) = H
      BY <1>0 DEF MarksInv
    <2> HIDE DEF n
    <2>7. n = Len(s) /\ n \in Nat /\ n + 1 \in 1 .. n + 1 /\ \A j \in 1 .. n + 1 : j \in 1 .. n \/ j = n + 1
      BY <1>s DEF n
    <2>8. \A e : (\A k \in 1 .. n + 1 : s'[k] \notin e) <=> (v \notin e /\ \A k \in 1 .. n : s[k] \notin e)
      BY <2>5, <2>7
    <2>9. uncov' = {e \in H : \A k \in 1 .. n + 1 : s'[k] \notin e}
      BY <2>3, <2>4, <2>6, <2>8 DEF Unhit
    <2>10. \A e : \A i \in 1 .. n : (\A k \in 1 .. n + 1 : s'[k] \in e => k = i) <=> (v \notin e /\ \A k \in 1 .. n : s[k] \in e => k = i)
      BY <2>5, <2>7
    <2>11. \A i \in 1 .. n : crit'[i] = {e \in H : s'[i] \in e /\ \A k \in 1 .. n + 1 : s'[k] \in e => k = i}
      <3> SUFFICES ASSUME NEW i \in 1 .. n
                   PROVE  crit'[i] = {e \in H : s'[i] \in e /\ \A k \in 1 .. n + 1 : s'[k] \in e => k = i}
        OBVIOUS
      <3>1. crit'[i] = {e \in H : s[i] \in e /\ \A k \in 1 .. n : s[k] \in e => k = i} \ hit
        BY <2>4, <2>6 DEF Critical
      <3>2. s'[i] = s[i]
        BY <2>5
      <3>3. \A e : (\A k \in 1 .. n + 1 : s'[k] \in e => k = i) <=> (v \notin e /\ \A k \in 1 .. n : s[k] \in e => k = i)
        BY <2>10
      <3> HIDE DEF H
      <3> QED
        BY <2>3, <3>1, <3>2, <3>3
    <2>12. crit'[n + 1] = {e \in H : s'[n + 1] \in e /\ \A k \in 1 .. n + 1 : s'[k] \in e => k = n + 1}
      <3>1. \A e : (\A k \in 1 .. n + 1 : s'[k] \in e => k = n + 1) <=> \A k \in 1 .. n : s[k] \notin e
        BY <2>5, <2>7
      <3>2. crit'[n + 1] = {e \in H : v \in e} \cap {e \in H : \A k \in 1 .. n : s[k] \notin e}
        BY <2>3, <2>4, <2>6 DEF Unhit
      <3> HIDE DEF H
      <3> QED
        BY <2>5, <3>1, <3>2
    <2>13. \A i \in 1 .. n + 1 : crit'[i] = {e \in H : s'[i] \in e /\ \A k \in 1 .. n + 1 : s'[k] \in e => k = i}
      BY <2>7, <2>11, <2>12
    <2>14. ASSUME NEW d \in 1 .. n + 1
           PROVE  /\ Len(removed_critical_stack'[d]) = d - 1
                  /\ \A i \in 1 .. d - 1 :
                       removed_critical_stack'[d][i] =
                         {e \in {e \in H : s'[i] \in e /\ \A k \in 1 .. d - 1 : s'[k] \in e => k = i} : s'[d] \in e}
      <3>1. \A i \in 1 .. d - 1 : i \in 1 .. n
        BY <2>7
      <3>2. \A i \in 1 .. d - 1 : s'[i] = s[i]
        BY <2>5, <3>1
      <3>3. CASE d \in 1 .. n
        <4>1. s'[d] = s[d] /\ removed_critical_stack'[d] = removed_critical_stack[d]
          BY <2>4, <2>5, <3>3
        <4>2. /\ Len(removed_critical_stack[d]) = d - 1
              /\ \A i \in 1 .. d - 1 :
                   removed_critical_stack[d][i] =
                     {e \in {e \in H : s[i] \in e /\ \A k \in 1 .. d - 1 : s[k] \in e => k = i} : s[d] \in e}
          BY <1>0, <2>7, <3>3 DEF MarksInv, Critical
        <4> HIDE DEF H
        <4>3. ASSUME NEW i \in 1 .. d - 1
              PROVE  removed_critical_stack'[d][i] =
                       {e \in {e \in H : s'[i] \in e /\ \A k \in 1 .. d - 1 : s'[k] \in e => k = i} : s'[d] \in e}
          <5>1. \A e : (\A k \in 1 .. d - 1 : s'[k] \in e => k = i) <=> \A k \in 1 .. d - 1 : s[k] \in e => k = i
            BY <3>2
          <5>2. s'[i] = s[i] /\ s'[d] = s[d]
            BY <3>2, <4>1
          <5>3. removed_critical_stack'[d][i] =
                  {e \in {e \in H : s[i] \in e /\ \A k \in 1 .. d - 1 : s[k] \in e => k = i} : s[d] \in e}
            BY <4>1, <4>2
          <5> QED
            BY <5>1, <5>2, <5>3
        <4> QED
          BY <4>1, <4>2, <4>3
      <3>4. CASE d = n + 1
        <4>1. d - 1 = n /\ s'[d] = v
          BY <2>5, <2>7, <3>4
        <4>2. \A i \in 1 .. n : removed_critical_stack'[d][i] = crit[i] \cap hit
          BY <2>4, <3>4
        <4>3. \A i \in 1 .. n : crit[i] = {e \in H : s'[i] \in e /\ \A k \in 1 .. n : s'[k] \in e => k = i}
          BY <2>6, <3>2, <4>1 DEF Critical
        <4>4. Len(removed_critical_stack'[d]) = n
          BY <2>4, <3>4
        <4>5. ASSUME NEW i \in 1 .. n
              PROVE  removed_critical_stack'[d][i] =
                       {e \in {e \in H : s'[i] \in e /\ \A k \in 1 .. n : s'[k] \in e => k = i} : v \in e}
          <5>1. removed_critical_stack'[d][i] = {e \in H : s'[i] \in e /\ \A k \in 1 .. n : s'[k] \in e => k = i} \cap hit
            BY <4>2, <4>3
          <5> QED
            BY <2>3, <5>1
        <4> QED
          BY <4>1, <4>4, <4>5
      <3> QED
        BY <2>7, <3>3, <3>4
    <2>15. /\ uncov' = Unhit(partial_hg_, Len(s))'
           /\ \A i \in 1 .. n + 1 : crit'[i] = Critical(partial_hg_, i, Len(s))'
      BY <2>1, <2>5, <2>9, <2>13 DEF Unhit, Critical
    <2>16. \A d \in 1 .. n + 1 :
             /\ Len(removed_critical_stack'[d]) = d - 1
             /\ \A i \in 1 .. d - 1 :
                  removed_critical_stack'[d][i] = {e \in Critical(partial_hg_, i, d - 1)' : s'[d] \in e}
      BY <2>1, <2>5, <2>14 DEF Critical
    <2>17. MinimizeInclusion(partial_hg_)' = partial_hg_'
      BY <2>1, <2>m DEF MinimizeInclusion
    <2> QED
      BY <2>1, <2>5, <2>15, <2>16, <2>17 DEF MarksInv
  <1>5. CASE UpdateEdges
    <2> DEFINE H == partial_hg_
    <2>1. at = "extend" /\ uncov = {} /\ intersection_stack' = PullUpIntersections /\ s' = s /\ at' # "read"
      BY <1>5 DEF UpdateEdges
    <2>2. PICK new_edges \in Samples(Last(intersection_stack')) :
            LET supsets == {e \in partial_hg_ : \E f \in new_edges : f \subseteq e}
            IN /\ partial_hg_' = (partial_hg_ \ supsets) \cup new_edges
               /\ uncov' = new_edges
               /\ crit' = [i \in DOMAIN crit |-> crit[i] \ supsets]
               /\ removed_critical_stack' = UpdateRemoved(supsets)
      BY <1>5 DEF UpdateEdges
    <2> DEFINE supsets == {e \in partial_hg_ : \E f \in new_edges : f \subseteq e}
               N == (H \ supsets) \cup new_edges
               n == Len(s)
    <2>3. /\ partial_hg_' = N /\ uncov' = new_edges
          /\ crit' = [i \in DOMAIN crit |-> crit[i] \ supsets] /\ removed_critical_stack' = UpdateRemoved(supsets)
      BY <2>2
    <2>4. \A e : e \in supsets <=> e \in H /\ \E f \in new_edges : f \subseteq e
      OBVIOUS
    <2> HIDE DEF supsets
    <2>5. MinimizeInclusion(new_edges) = new_edges /\ \A e \in new_edges : \A k \in 1 .. n : s[k] \notin e
      BY <2>1, NewEdgesAre
    <2>6. Unhit(H, n) = {} /\ MinimizeInclusion(H) = H
      BY <1>0, <2>1 DEF MarksInv
    <2>7. /\ MinimizeInclusion(N) = N /\ Unhit(N, n) = new_edges
          /\ \A i, k \in 1 .. n : Critical(N, i, k) = Critical(H, i, k) \ supsets
      <3>1. /\ Unhit(H, Len(s)) = {} /\ \A e \in new_edges : \A k \in 1 .. Len(s) : s[k] \notin e
            /\ MinimizeInclusion(H) = H /\ MinimizeInclusion(new_edges) = new_edges
        BY <2>5, <2>6
      <3> HIDE DEF H
      <3>2. /\ MinimizeInclusion((H \ supsets) \cup new_edges) = (H \ supsets) \cup new_edges
            /\ Unhit((H \ supsets) \cup new_edges, Len(s)) = new_edges
            /\ \A i, k \in 1 .. Len(s) : Critical((H \ supsets) \cup new_edges, i, k) = Critical(H, i, k) \ supsets
        BY <2>4, <3>1, NewEdgesKeep, ZenonT(40)
      <3> QED
        BY <3>2
    <2>8. \A i \in 1 .. n : crit'[i] = crit[i] \ supsets
      BY <1>0, <2>3 DEF HpiTypeInv, DepthInv
    <2>9. \A i \in 1 .. n : crit'[i] = Critical(N, i, n)
      <3>1. \A i \in 1 .. n : n \in 1 .. n
        BY <1>s
      <3>2. \A i \in 1 .. n : crit[i] = Critical(H, i, n)
        BY <1>0 DEF MarksInv
      <3> HIDE DEF N, H
      <3> QED
        BY <2>7, <2>8, <3>1, <3>2
    <2>10. ASSUME NEW d \in 1 .. n
           PROVE  /\ Len(removed_critical_stack'[d]) = d - 1
                  /\ \A i \in 1 .. d - 1 :
                       removed_critical_stack'[d][i] = {e \in Critical(N, i, d - 1) : s[d] \in e}
      <3>1. /\ Len(removed_critical_stack[d]) = d - 1
            /\ \A i \in 1 .. d - 1 : removed_critical_stack[d][i] = {e \in Critical(H, i, d - 1) : s[d] \in e}
        BY <1>0 DEF MarksInv
      <3>2. /\ Len(removed_critical_stack'[d]) = d - 1
            /\ \A i \in 1 .. d - 1 : removed_critical_stack'[d][i] = removed_critical_stack[d][i] \ supsets
        BY <1>0, <2>3, <3>1, TypeOfSubtraction
      <3>3. \A i \in 1 .. d - 1 : i \in 1 .. n /\ d - 1 \in 1 .. n
        BY <1>s
      <3>4. \A i \in 1 .. d - 1 : Critical(N, i, d - 1) = Critical(H, i, d - 1) \ supsets
        <4> HIDE DEF N, H
        <4> QED
          BY <2>7, <3>3
      <3> HIDE DEF N, H
      <3>5. ASSUME NEW i \in 1 .. d - 1
            PROVE  removed_critical_stack'[d][i] = {e \in Critical(N, i, d - 1) : s[d] \in e}
        <4>1. removed_critical_stack'[d][i] = {e \in Critical(H, i, d - 1) : s[d] \in e} \ supsets
          BY <3>1, <3>2
        <4>2. Critical(N, i, d - 1) = Critical(H, i, d - 1) \ supsets
          BY <3>4
        <4> QED
          BY <4>1, <4>2
      <3> QED
        BY <3>2, <3>5
    <2> HIDE DEF N
    <2>11. /\ uncov' = Unhit(partial_hg_', Len(s)) /\ MinimizeInclusion(partial_hg_') = partial_hg_'
           /\ \A i \in 1 .. Len(s) : crit'[i] = Critical(partial_hg_', i, Len(s))
           /\ \A d \in 1 .. Len(s) :
                /\ Len(removed_critical_stack'[d]) = d - 1
                /\ \A i \in 1 .. d - 1 :
                     removed_critical_stack'[d][i] = {e \in Critical(partial_hg_', i, d - 1) : s[d] \in e}
      BY <2>3, <2>7, <2>9, <2>10
    <2> QED
      BY <2>1, <2>11 DEF MarksInv, Unhit, Critical, MinimizeInclusion
  <1>6. CASE Return
    <2> DEFINE n == Len(s)
               H == partial_hg_
               last == removed_critical_stack[n]
    <2>1. at = "return" /\ at' # "read" /\ RestoreCritAndUncov /\ s' = Front(s) /\ UNCHANGED partial_hg_
      BY <1>6 DEF Return
    <2>2. s # <<>> /\ n \in 1 .. n /\ n \in Nat /\ Len(s') = n - 1 /\ \A j \in 1 .. n - 1 : s'[j] = s[j]
      BY <1>0, <2>1, PoppedPath DEF DepthInv
    <2>3. uncov = Unhit(H, n) /\ \A i \in 1 .. n : crit[i] = Critical(H, i, n)
      BY <1>0, <2>1 DEF MarksInv
    <2>4. /\ Len(last) = n - 1
          /\ \A i \in 1 .. n - 1 : last[i] = {e \in Critical(H, i, n - 1) : s[n] \in e}
      BY <1>0, <2>2 DEF MarksInv
    <2>5. /\ \A i \in 1 .. n - 1 : crit'[i] = crit[i] \cup last[i]
          /\ uncov' = uncov \cup crit[n]
          /\ \A d \in 1 .. n - 1 : removed_critical_stack'[d] = removed_critical_stack[d]
      BY <1>0, <2>1, <2>2, TypeOfRestore DEF MarksInv
    <2> HIDE DEF last, n
    <2>6. n = Len(s) /\ \A j \in 1 .. n : j \in 1 .. n - 1 \/ j = n
      BY <2>2 DEF n
    <2>i. \A j \in 1 .. n - 1 : j \in 1 .. n /\ j # n
      BY <2>2
    <2>7. uncov' = {e \in H : \A k \in 1 .. n - 1 : s'[k] \notin e}
      <3>1. uncov' = {e \in H : \A k \in 1 .. n : s[k] \notin e} \cup {e \in H : s[n] \in e /\ \A k \in 1 .. n : s[k] \in e => k = n}
        BY <2>2, <2>3, <2>5 DEF Unhit, Critical
      <3>2. \A e : (\A k \in 1 .. n - 1 : s'[k] \notin e) <=>
                     \/ \A k \in 1 .. n : s[k] \notin e
                     \/ s[n] \in e /\ \A k \in 1 .. n : s[k] \in e => k = n
        BY <2>2, <2>6, <2>i
      <3> HIDE DEF H
      <3> QED
        BY <3>1, <3>2
    <2>8. ASSUME NEW i \in 1 .. n - 1
          PROVE  crit'[i] = {e \in H : s'[i] \in e /\ \A k \in 1 .. n - 1 : s'[k] \in e => k = i}
      <3>1. i \in 1 .. n /\ i # n
        BY <2>i
      <3>2. crit'[i] = {e \in H : s[i] \in e /\ \A k \in 1 .. n : s[k] \in e => k = i} \cup
                         {e \in {e \in H : s[i] \in e /\ \A k \in 1 .. n - 1 : s[k] \in e => k = i} : s[n] \in e}
        BY <2>3, <2>4, <2>5, <3>1 DEF Critical
      <3>3. s'[i] = s[i]
        BY <2>2
      <3>4. \A e : (\A k \in 1 .. n - 1 : s'[k] \in e => k = i) <=>
                     \/ \A k \in 1 .. n : s[k] \in e => k = i
                     \/ s[n] \in e /\ \A k \in 1 .. n - 1 : s[k] \in e => k = i
        BY <2>2, <2>6, <2>i, <3>1
      <3> HIDE DEF H
      <3> QED
        BY <3>2, <3>3, <3>4
    <2>9. ASSUME NEW d \in 1 .. n - 1
          PROVE  /\ Len(removed_critical_stack'[d]) = d - 1
                 /\ \A i \in 1 .. d - 1 :
                      removed_critical_stack'[d][i] =
                        {e \in {e \in H : s'[i] \in e /\ \A k \in 1 .. d - 1 : s'[k] \in e => k = i} : s'[d] \in e}
      <3>1. /\ Len(removed_critical_stack[d]) = d - 1
            /\ \A i \in 1 .. d - 1 :
                 removed_critical_stack[d][i] =
                   {e \in {e \in H : s[i] \in e /\ \A k \in 1 .. d - 1 : s[k] \in e => k = i} : s[d] \in e}
        BY <1>0, <2>6, <2>i DEF MarksInv, Critical
      <3>2. \A i \in 1 .. d - 1 : s'[i] = s[i]
        BY <2>2
      <3> QED
        BY <2>2, <2>5, <3>1, <3>2
    <2>10. MinimizeInclusion(partial_hg_)' = partial_hg_'
      <3>1. MinimizeInclusion(partial_hg_) = partial_hg_
        BY <1>0 DEF MarksInv
      <3> QED
        BY <2>1, <3>1 DEF MinimizeInclusion
    <2>11. /\ uncov' = Unhit(partial_hg_, Len(s))'
           /\ \A i \in 1 .. n - 1 : crit'[i] = Critical(partial_hg_, i, Len(s))'
      BY <2>1, <2>2, <2>7, <2>8 DEF Unhit, Critical
    <2>12. \A d \in 1 .. n - 1 :
             /\ Len(removed_critical_stack'[d]) = d - 1
             /\ \A i \in 1 .. d - 1 :
                  removed_critical_stack'[d][i] = {e \in Critical(partial_hg_, i, d - 1)' : s'[d] \in e}
      BY <2>1, <2>9 DEF Critical
    <2> QED
      BY <2>1, <2>2, <2>10, <2>11, <2>12 DEF MarksInv
  <1>7. Cut \/ Violater \/ Extend \/ Confirm \/ AllTried =>
          UNCHANGED <<partial_hg_, s, crit, uncov, removed_critical_stack>> /\ at' # "read" /\ at # "read"
    <2>1. Cut \/ Extend \/ Confirm => UNCHANGED <<partial_hg_, s, crit, uncov, removed_critical_stack>> /\ at' # "read" /\ at # "read"
      BY DEF Cut, Extend, Confirm
    <2>2. Violater \/ AllTried => UNCHANGED <<partial_hg_, s, crit, uncov, removed_critical_stack>> /\ at' # "read" /\ at # "read"
      BY DEF Violater, AllTried
    <2> QED
      BY <2>1, <2>2
  <1> QED
    BY <1>1, <1>2, <1>3, <1>4, <1>5, <1>6, <1>7 DEF HpiNext

(* Every step keeps the edges real, and enough of them.                    *)
LEMMA EdgesKeep ==
  ASSUME HpiInv, HpiNext
  PROVE  EdgesInv'
  <1> USE DEF HpiInv
  <1>0. HpiTypeInv /\ DepthInv /\ TreeInv /\ MarksInv /\ EdgesInv /\ table' = table
    BY DEF HpiNext
  <1>s. Len(s) \in Nat /\ Len(calls) \in Nat /\ (s = <<>> <=> Len(s) = 0) /\ (calls = <<>> <=> Len(calls) = 0)
        /\ (Inner <=> Len(calls) > 1)
    BY Shape DEF HpiTypeInv
  <1>r. \A e : Real(e)' <=> Real(e)
    BY <1>0 DEF Real, Rows, AgreeOn
  <1>u. ASSUME partial_hg_' = partial_hg_, at' # "extend", Len(calls') <= Len(calls),
               Len(calls') \in Nat, \A k \in 1 .. Len(calls') - 1 : s'[k] = s[k]
        PROVE  EdgesInv'
    <2>1. \A e \in partial_hg_' : Real(e)'
      BY <1>0, <1>r, <1>u DEF EdgesInv
    <2>2. ASSUME NEW j \in 1 .. Len(calls') PROVE Unhit(partial_hg_, j - 1)' # {}
      <3>1. \A k \in 1 .. j - 1 : s'[k] = s[k]
        BY <1>u
      <3>2. j \in 1 .. Len(calls)
        BY <1>s, <1>u
      <3>3. PICK e \in partial_hg_ : \A k \in 1 .. j - 1 : s[k] \notin e
        BY <1>0, <3>2 DEF EdgesInv, Unhit
      <3> QED
        BY <1>u, <3>1, <3>3 DEF Unhit
    <2> QED
      BY <1>u, <2>1, <2>2 DEF EdgesInv
  <1>1. CASE SampleColumn
    <2> DEFINE c == Min(unsampled)
    <2>1. PICK edges \in IF CreateFor(table, c) = {} THEN {{}} ELSE Samples(CreateFor(table, c)) :
            partial_hg_' = MinimizeInclusion(partial_hg_ \cup edges)
      BY <1>1 DEF SampleColumn
    <2>2. \A e \in edges : Real(e)
      BY <1>0, <1>1, <2>1, ColumnSamples DEF HpiTypeInv, SampleColumn
    <2>3. partial_hg_' \subseteq partial_hg_ \cup edges
      BY <2>1, MinimizedTwice
    <2>4. \A e \in partial_hg_' : Real(e)'
      BY <1>0, <1>r, <2>2, <2>3 DEF EdgesInv
    <2>5. Len(calls') = 0 /\ at' # "extend"
      BY <1>0, <1>1, <1>s DEF SampleColumn, DepthInv
    <2> QED
      BY <2>4, <2>5 DEF EdgesInv
  <1>2. CASE StartSearch \/ Violater \/ Confirm \/ AllTried
    <2>1. partial_hg_' = partial_hg_ /\ s' = s /\ at' # "extend"
      <3>1. StartSearch \/ Confirm => partial_hg_' = partial_hg_ /\ s' = s /\ at' # "extend"
        BY DEF StartSearch, Confirm
      <3>2. Violater \/ AllTried => partial_hg_' = partial_hg_ /\ s' = s /\ at' # "extend"
        BY DEF Violater, AllTried
      <3> QED
        BY <1>2, <3>1, <3>2
    <2>2. Len(calls') \in Nat /\ Len(calls') <= Len(calls)
      <3>1. CASE StartSearch \/ Confirm
        BY <1>s, <3>1 DEF StartSearch, Confirm
      <3>2. CASE Violater
        <4>1. calls # <<>> /\ calls' = WithoutColumn(Min(Call.rest))
          BY <1>0, <1>s, <3>2 DEF Violater, DepthInv
        <4> QED
          BY <1>0, <1>s, <4>1, WithoutIs
      <3>3. CASE AllTried
        <4>1. calls # <<>> /\ calls' = Front(calls)
          BY <1>0, <1>s, <3>3 DEF AllTried, DepthInv
        <4> QED
          BY <1>s, <4>1, PoppedCall
      <3> QED
        BY <1>2, <3>1, <3>2, <3>3
    <2> QED
      BY <1>u, <2>1, <2>2
  <1>3. CASE Cut
    <2>1. PICK e \in uncov : calls' = Append(calls, [c |-> e \cap cand, rest |-> e \cap cand])
      BY <1>3 DEF Cut
    <2>2. UNCHANGED <<partial_hg_, s>> /\ at' = "branch" /\ Len(calls) = Len(s) /\ at = "cut"
      BY <1>0, <1>3 DEF Cut, DepthInv
    <2>3. Len(calls') = Len(s) + 1
      BY <1>0, <1>s, <2>1, <2>2 DEF HpiTypeInv
    <2>4. e \in Unhit(partial_hg_, Len(s))
      BY <1>0, <2>1, <2>2 DEF MarksInv
    <2>5. \A j \in 1 .. Len(calls') : Unhit(partial_hg_, j - 1) # {}
      <3>1. \A j \in 1 .. Len(calls') : j \in 1 .. Len(calls) \/ j - 1 = Len(s)
        BY <1>s, <2>2, <2>3
      <3> QED
        BY <1>0, <2>4, <3>1 DEF EdgesInv
    <2>6. \A e1 \in partial_hg_' : Real(e1)'
      BY <1>0, <1>r, <2>2 DEF EdgesInv
    <2> QED
      BY <2>2, <2>5, <2>6 DEF EdgesInv, Unhit
  <1>4. CASE Branch
    <2> DEFINE v == Min(Call.rest)
               n == Len(s)
               hit == Hittings(v)
    <2>1. /\ calls # <<>> /\ at = "branch" /\ UpdateCritAndUncov(hit) /\ calls' = WithoutColumn(v)
          /\ s' = Append(s, v) /\ UNCHANGED partial_hg_ /\ Len(calls) = n + 1 /\ Call.rest # {}
          /\ (Inner => ~IsViolater(v))
      BY <1>0, <1>4, <1>s DEF Branch, DepthInv
    <2>2. v \in Columns
      BY <1>0, <2>1, CallIs
    <2>3. hit \in Marks
      BY <1>0 DEF Hittings, HpiTypeInv, Marks
    <2>4. /\ \A i \in 1 .. n : crit'[i] = crit[i] \ hit
          /\ crit'[n + 1] = hit \cap uncov /\ uncov' = uncov \ hit
      BY <1>0, <2>1, <2>3, TypeOfUpdate DEF UpdateCritAndUncov
    <2>5. Len(calls') = n + 1
      BY <1>0, <2>1, WithoutIs
    <2> HIDE DEF v, hit
    <2>6. Len(s') = n + 1 /\ \A j \in 1 .. n : s'[j] = s[j]
      BY <1>0, <2>1, <2>2, AppendIs DEF HpiTypeInv
    <2>7. \A i \in 1 .. n : crit'[i] # {}
      <3> SUFFICES ASSUME NEW i \in 1 .. n PROVE crit'[i] # {}
        OBVIOUS
      <3>1. ~(crit[i] \subseteq hit)
        <4>1. Inner /\ i \in DOMAIN crit
          BY <1>0, <1>s, <2>1 DEF DepthInv, HpiTypeInv
        <4> QED
          BY <2>1, <4>1 DEF IsViolater, hit
      <3> QED
        BY <2>4, <3>1
    <2>8. crit'[n + 1] # {} \/ uncov' # {}
      <3>1. n + 1 \in 1 .. Len(calls) /\ (n + 1) - 1 = n
        BY <1>s, <2>1
      <3>2. uncov # {}
        BY <1>0, <2>1, <3>1 DEF EdgesInv, MarksInv
      <3> QED
        BY <2>4, <3>2
    <2>9. \A e \in partial_hg_' : Real(e)'
      BY <1>0, <1>r, <2>1 DEF EdgesInv
    <2>10. ASSUME NEW j \in 1 .. Len(calls') PROVE Unhit(partial_hg_, j - 1)' # {}
      <3>1. \A k \in 1 .. j - 1 : s'[k] = s[k]
        BY <1>s, <2>5, <2>6
      <3>2. PICK e \in partial_hg_ : \A k \in 1 .. j - 1 : s[k] \notin e
        BY <1>0, <2>1, <2>5 DEF EdgesInv, Unhit
      <3> QED
        BY <2>1, <3>1, <3>2 DEF Unhit
    <2>11. Len(s') - 1 = n
      BY <1>s, <2>6
    <2> QED
      BY <2>6, <2>7, <2>8, <2>9, <2>10, <2>11 DEF EdgesInv
  <1>5. CASE Extend
    <2>1. UNCHANGED <<partial_hg_, s, calls>> /\ at' # "extend"
      BY <1>5 DEF Extend
    <2> QED
      BY <1>s, <1>u, <2>1
  <1>6. CASE UpdateEdges
    <2>1. at = "extend" /\ intersection_stack' = PullUpIntersections /\ UNCHANGED <<s, calls>> /\ at' # "extend"
      BY <1>6 DEF UpdateEdges
    <2>2. PICK new_edges \in Samples(Last(intersection_stack')) :
            LET supsets == {e \in partial_hg_ : \E f \in new_edges : f \subseteq e}
            IN partial_hg_' = (partial_hg_ \ supsets) \cup new_edges
      BY <1>6 DEF UpdateEdges
    <2>3. new_edges # {} /\ \A e \in new_edges : Real(e) /\ \A k \in 1 .. Len(s) : s[k] \notin e
      BY <2>1, NewEdgesAre
    <2>4. new_edges \subseteq partial_hg_' /\ partial_hg_' \subseteq partial_hg_ \cup new_edges
      BY <2>2
    <2>5. \A e \in partial_hg_' : Real(e)'
      BY <1>0, <1>r, <2>3, <2>4 DEF EdgesInv
    <2>6. ASSUME NEW j \in 1 .. Len(calls') PROVE Unhit(partial_hg_, j - 1)' # {}
      <3>1. PICK e \in new_edges : TRUE
        BY <2>3
      <3>2. \A k \in 1 .. j - 1 : k \in 1 .. Len(s)
        BY <1>0, <1>s, <2>1 DEF DepthInv
      <3> QED
        BY <2>1, <2>3, <2>4, <3>1, <3>2 DEF Unhit
    <2> QED
      BY <2>1, <2>5, <2>6 DEF EdgesInv
  <1>7. CASE Return
    <2>1. /\ at = "return" /\ s' = Front(s) /\ partial_hg_' = partial_hg_ /\ at' # "extend"
          /\ calls' = Front(calls) \/ calls' = calls
      BY <1>7 DEF Return
    <2>2. calls # <<>> /\ Len(calls) = Len(s)
      BY <1>0, <1>s, <2>1 DEF DepthInv
    <2>3. Len(calls') \in Nat /\ Len(calls') <= Len(calls)
      <3>1. calls' = Front(calls) => Len(calls') = Len(calls) - 1
        BY <2>2, PoppedCall
      <3> QED
        BY <1>s, <2>1, <2>2, <3>1
    <2>4. \A k \in 1 .. Len(s) - 1 : s'[k] = s[k]
      BY <2>1, PoppedPath
    <2>5. \A k \in 1 .. Len(calls') - 1 : s'[k] = s[k]
      BY <1>s, <2>2, <2>3, <2>4
    <2> QED
      BY <1>u, <2>1, <2>3, <2>5
  <1> QED
    BY <1>1, <1>2, <1>3, <1>4, <1>5, <1>6, <1>7 DEF HpiNext

(* Every step keeps the intersections.                                     *)
LEMMA PlisKeep ==
  ASSUME HpiInv, HpiNext
  PROVE  PlisInv'
  <1> USE DEF HpiInv
  <1>0. HpiTypeInv /\ DepthInv /\ PlisInv /\ table' = table
    BY DEF HpiNext
  <1>s. Len(s) \in Nat /\ Len(calls) \in Nat /\ (s = <<>> <=> Len(s) = 0) /\ (calls = <<>> <=> Len(calls) = 0)
        /\ (Inner <=> Len(calls) > 1)
    BY Shape DEF HpiTypeInv
  <1>c. \A X : ClustersOf(X)' = ClustersOf(X)
    BY <1>0 DEF ClustersOf, Rows, AgreeOn
  <1> DEFINE L == Len(intersection_stack)
             M == Len(tointersect_queue)
  <1>l. L \in Nat /\ M \in Nat /\ L + M = Len(s)
    BY <1>0 DEF HpiTypeInv, PlisInv
  <1>1. CASE UNCHANGED <<s, intersection_stack, tointersect_queue>>
    <2>1. \A k : ClustersOf(Path(k))' = ClustersOf(Path(k))
      BY <1>c, <1>1 DEF Path
    <2> QED
      BY <1>0, <1>1, <2>1 DEF PlisInv
  <1>2. CASE Branch
    <2> DEFINE v == Min(Call.rest)
               n == Len(s)
               new == CreateFor(table, v)
    <2>1. calls # <<>> /\ s' = Append(s, v) /\ Len(calls) = n + 1 /\ Call.rest # {}
      BY <1>0, <1>2, <1>s DEF Branch, DepthInv
    <2>2. v \in Columns
      BY <1>0, <2>1, CallIs
    <2>3. IF Inner THEN tointersect_queue' = Append(tointersect_queue, v) /\ UNCHANGED intersection_stack
          ELSE intersection_stack' = Append(intersection_stack, new) /\ UNCHANGED tointersect_queue
      BY <1>2 DEF Branch
    <2>4. new = ClustersOf({v}) /\ new \in RowSets
      BY <1>0, <2>2, FirstClusters, ClustersOfRows DEF HpiTypeInv
    <2> HIDE DEF v, new
    <2>5. Len(s') = n + 1 /\ s'[n + 1] = v /\ s' # <<>> /\ \A j \in 1 .. n : s'[j] = s[j]
      <3>1. Len(s') = n + 1 /\ s'[n + 1] = v /\ s' \in Seq(Columns) /\ \A j \in 1 .. n : s'[j] = s[j]
        BY <1>0, <2>1, <2>2, AppendIs DEF HpiTypeInv
      <3> QED
        BY <1>s, <3>1
    <2>6. \A k \in 1 .. n : Path(k)' = Path(k)
      BY <1>s, <2>5 DEF Path
    <2>7. \A k \in 1 .. n : ClustersOf(Path(k))' = ClustersOf(Path(k))
      BY <1>c, <2>6
    <2>8. CASE Inner
      <3>1. /\ Len(tointersect_queue') = M + 1 /\ tointersect_queue'[M + 1] = v
            /\ \A k \in 1 .. M : tointersect_queue'[k] = tointersect_queue[k]
        <4>1. tointersect_queue \in Seq(Columns) /\ tointersect_queue' = Append(tointersect_queue, v)
          BY <1>0, <2>3, <2>8 DEF HpiTypeInv
        <4> QED
          BY <2>2, <4>1, AppendIs
      <3>2. intersection_stack' = intersection_stack /\ s # <<>>
        BY <1>s, <2>1, <2>3, <2>8
      <3>3. \A k \in 1 .. L : intersection_stack'[k] = ClustersOf(Path(k))'
        <4>1. \A k \in 1 .. L : k \in 1 .. n
          BY <1>l
        <4> QED
          BY <1>0, <2>7, <3>2, <4>1 DEF PlisInv
      <3>4. \A k \in 1 .. M + 1 : tointersect_queue'[k] = s'[L + k]
        <4>1. \A k \in 1 .. M + 1 : k \in 1 .. M \/ k = M + 1
          BY <1>l
        <4>2. \A k \in 1 .. M : L + k \in 1 .. n /\ tointersect_queue[k] = s[L + k]
          BY <1>0, <1>l DEF PlisInv
        <4>3. L + (M + 1) = n + 1
          BY <1>l
        <4> HIDE DEF L, M, n
        <4> QED
          BY <2>5, <3>1, <4>1, <4>2, <4>3
      <3>5. L + (M + 1) = n + 1
        BY <1>l
      <3>6. intersection_stack # <<>>
        BY <1>0, <3>2 DEF PlisInv
      <3> QED
        BY <2>5, <3>1, <3>2, <3>3, <3>4, <3>5, <3>6 DEF PlisInv
    <2>9. CASE ~Inner
      <3>1. n = 0 /\ L = 0 /\ M = 0
        BY <1>s, <1>l, <2>1, <2>9
      <3>2. Len(intersection_stack') = 1 /\ intersection_stack'[1] = new /\ UNCHANGED tointersect_queue
        BY <1>0, <2>3, <2>4, <2>9, <3>1, AppendIs DEF HpiTypeInv
      <3>3. Path(1)' = {v}
        BY <2>5, <3>1 DEF Path
      <3>4. ClustersOf(Path(1))' = new
        BY <1>c, <2>4, <3>3
      <3>5. \A k \in 1 .. 1 : intersection_stack'[k] = ClustersOf(Path(k))'
        BY <3>2, <3>4
      <3>6. intersection_stack' # <<>>
        <4>1. intersection_stack' = Append(intersection_stack, new) /\ intersection_stack \in Seq(RowSets)
          BY <1>0, <2>3, <2>9 DEF HpiTypeInv
        <4> QED
          BY <2>4, <3>2, <4>1, AppendIs, EmptySeq
      <3> QED
        BY <2>5, <3>1, <3>2, <3>5, <3>6 DEF PlisInv
    <2> QED
      BY <2>8, <2>9
  <1>3. CASE Confirm \/ UpdateEdges
    <2>1. intersection_stack' = PullUpIntersections /\ tointersect_queue' = <<>> /\ s' = s /\ at = "extend"
      BY <1>3 DEF Confirm, UpdateEdges
    <2>2. s # <<>>
      BY <1>0, <2>1 DEF DepthInv
    <2>3. /\ intersection_stack' \in Seq(RowSets) /\ Len(intersection_stack') = Len(s)
          /\ \A k \in 1 .. Len(s) : intersection_stack'[k] = ClustersOf(Path(k))
      BY <1>0, <2>1, <2>2, Intersections
    <2>4. \A k : ClustersOf(Path(k))' = ClustersOf(Path(k))
      BY <1>c, <2>1 DEF Path
    <2>5. Len(tointersect_queue') = 0 /\ intersection_stack' # <<>>
      BY <1>s, <2>1, <2>2, <2>3, EmptySeq
    <2> QED
      BY <1>s, <2>1, <2>3, <2>4, <2>5 DEF PlisInv
  <1>4. CASE Return
    <2>1. at = "return" /\ PopIntersection /\ s' = Front(s)
      BY <1>4 DEF Return
    <2> DEFINE n == Len(s)
               L1 == Len(intersection_stack')
               M1 == Len(tointersect_queue')
    <2>2. /\ intersection_stack' \in Seq(RowSets) /\ tointersect_queue' \in Seq(Columns)
          /\ L1 + M1 = n - 1 /\ (n > 1 => intersection_stack' # <<>>) /\ L1 <= L /\ M1 <= M
          /\ tointersect_queue' # <<>> => L1 = L
          /\ \A k \in 1 .. L1 : intersection_stack'[k] = intersection_stack[k]
          /\ \A k \in 1 .. M1 : tointersect_queue'[k] = tointersect_queue[k]
      BY <2>1, PoppedIntersections
    <2>3. n \in 1 .. n /\ Len(s') = n - 1 /\ s' \in Seq(Columns) /\ \A j \in 1 .. n - 1 : s'[j] = s[j]
      BY <2>1, PoppedPath
    <2>4. L1 \in Nat /\ M1 \in Nat
      BY <2>2
    <2>5. \A k \in 1 .. L1 : intersection_stack'[k] = ClustersOf(Path(k))'
      <3>1. \A k \in 1 .. L1 : k \in 1 .. L /\ k \in 1 .. n - 1
        BY <1>l, <2>2, <2>4
      <3>2. \A k \in 1 .. n - 1 : Path(k)' = Path(k)
        BY <2>3 DEF Path
      <3>3. \A k \in 1 .. n - 1 : ClustersOf(Path(k))' = ClustersOf(Path(k))
        BY <1>c, <3>2
      <3> HIDE DEF n, L1
      <3> QED
        BY <1>0, <2>2, <3>1, <3>3 DEF PlisInv
    <2>6. ASSUME NEW k \in 1 .. M1 PROVE tointersect_queue'[k] = s'[L1 + k]
      <3>1. tointersect_queue' # <<>>
        BY <2>4
      <3>2. k \in 1 .. M /\ L + k \in 1 .. n - 1 /\ L1 = L
        BY <1>l, <2>2, <2>4, <3>1
      <3>3. tointersect_queue[k] = s[L + k]
        BY <1>0, <3>2 DEF PlisInv
      <3> HIDE DEF n, L, L1, M1
      <3> QED
        BY <2>2, <2>3, <3>2, <3>3
    <2>7. s' # <<>> => n > 1
      BY <2>3
    <2> QED
      BY <2>2, <2>3, <2>5, <2>6, <2>7 DEF PlisInv
  <1>5. SampleColumn \/ StartSearch \/ Cut \/ Violater \/ Extend \/ AllTried =>
          UNCHANGED <<s, intersection_stack, tointersect_queue>>
    <2>1. SampleColumn \/ StartSearch \/ Cut => UNCHANGED <<s, intersection_stack, tointersect_queue>>
      BY DEF SampleColumn, StartSearch, Cut
    <2>2. Violater \/ Extend \/ AllTried => UNCHANGED <<s, intersection_stack, tointersect_queue>>
      BY DEF Violater, Extend, AllTried
    <2> QED
      BY <2>1, <2>2
  <1> QED
    BY <1>1, <1>2, <1>3, <1>4, <1>5 DEF HpiNext

(* A leaf without clusters is a minimal unique set: each of its columns    *)
(* has an edge of its own, a pair of rows that agree on all others.        *)
LEMMA ConfirmedIsMinimal ==
  ASSUME HpiInv, Confirm
  PROVE  ToSet(s) \in MinimalUccs(table)
  <1> USE DEF HpiInv
  <1>0. HpiTypeInv /\ DepthInv /\ TreeInv /\ MarksInv /\ EdgesInv /\ PlisInv /\ table \in AllTables
    BY DEF HpiTypeInv
  <1> DEFINE n == Len(s)
             X == Path(n)
  <1>1. /\ at = "extend" /\ uncov = {} /\ Last(intersection_stack') = {}
        /\ intersection_stack' = PullUpIntersections
    BY DEF Confirm
  <1>2. s # <<>> /\ n \in 1 .. n /\ n \in 0 .. n
    BY <1>0, <1>1 DEF DepthInv, HpiTypeInv
  <1>3. ToSet(s) = X /\ X \in SUBSET Columns
    BY <1>0, <1>2, PathIs DEF HpiTypeInv
  <1>4. ClustersOf(X) = {}
    <2>1. Len(PullUpIntersections) = n /\ PullUpIntersections[n] = ClustersOf(X)
      BY <1>0, <1>2, Intersections
    <2> QED
      BY <1>1, <2>1 DEF Last
  <1> HIDE DEF X
  <1>5. IsUnique(table, X)
    BY <1>0, <1>3, <1>4, UniqueIs
  <1>6. ASSUME NEW Y \in SUBSET Columns, IsUnique(table, Y), Y \subseteq X, Y # X PROVE FALSE
    <2>1. PICK i \in 1 .. n : s[i] \notin Y
      BY <1>6 DEF X, Path
    <2>2. crit[i] # {}
      <3>1. i \in 1 .. n - 1 \/ i = n
        BY <1>2
      <3> QED
        BY <1>0, <1>1, <3>1 DEF EdgesInv
    <2>3. PICK e \in partial_hg_ : \A k \in 1 .. n : s[k] \in e => k = i
      BY <1>0, <2>2 DEF MarksInv, Critical
    <2>4. Len(table) > 1
      BY <1>1, Unread
    <2>5. e \cap Y # {}
      BY <1>0, <1>6, <2>3, <2>4, UniqueHitEdges DEF EdgesInv
    <2>6. PICK k \in 1 .. n : s[k] \in e \cap Y
      BY <1>6, <2>5 DEF X, Path
    <2> QED
      BY <2>1, <2>3, <2>6
  <1> QED
    BY <1>3, <1>5, <1>6, MinimalIs

(* So no step finds anything else.                                         *)
LEMMA UccsKeep ==
  ASSUME HpiInv, HpiNext
  PROVE  UccsInv'
  <1>0. table' = table /\ uccs \subseteq MinimalUccs(table)
    BY DEF HpiInv, UccsInv, HpiNext
  <1>1. MinimalUccs(table)' = MinimalUccs(table)
    BY <1>0
  <1>2. CASE Confirm
    BY <1>0, <1>1, <1>2, ConfirmedIsMinimal DEF Confirm, UccsInv
  <1>3. CASE uccs' = uccs
    BY <1>0, <1>1, <1>3 DEF UccsInv
  <1>4. HpiNext => Confirm \/ uccs' = uccs
    <2>1. SampleColumn \/ StartSearch \/ Cut \/ Violater => uccs' = uccs
      BY DEF SampleColumn, StartSearch, Cut, Violater
    <2>2. Branch \/ Extend \/ UpdateEdges => uccs' = uccs
      BY DEF Branch, Extend, UpdateEdges
    <2>3. Return \/ AllTried => uccs' = uccs
      BY DEF Return, AllTried
    <2> QED
      BY <2>1, <2>2, <2>3 DEF HpiNext
  <1> QED
    BY <1>2, <1>3, <1>4

(* Minimal unique sets are open all the time.                              *)
LEMMA OpenUccs ==
  ASSUME HpiInv, at # "read", NEW U \in MinimalUccs(table)
  PROVE  U \in SUBSET Columns /\ Open(U)
  <1>1. U \in SUBSET Columns /\ IsUnique(table, U)
    BY MinimalIs
  <1>2. Len(table) > 1 /\ table \in AllTables
    BY Unread DEF HpiInv, HpiTypeInv
  <1>3. \A e \in partial_hg_ : Real(e)
    BY DEF HpiInv, EdgesInv
  <1>4. \A e \in partial_hg_ : e \cap U # {}
    BY <1>1, <1>2, <1>3, UniqueHitEdges
  <1> QED
    BY <1>1, <1>4 DEF Open

(* When a column is given up, or a leaf is not minimal, what that would    *)
(* leave out contains a set that was found already.                        *)
LEMMA GivenUp ==
  ASSUME HpiInv, at # "read", Len(s) <= Len(calls), NEW T \in SUBSET Columns, NEW i \in 1 .. Len(s),
         Open(T \ {s[i]}), ~InNode(T \ {s[i]}),
         \A x \in T : \/ x \in cand \/ \E k \in 1 .. Len(s) : x = s[k]
                      \/ \E j \in 1 .. Len(calls) : j > i /\ x \in calls[j].c
  PROVE  \E U \in uccs : U \subseteq T
  <1> DEFINE S == T \ {s[i]}
  <1>1. Covered(S)
    BY DEF HpiInv, CoverInv
  <1>2. \A d \in 1 .. Len(calls) : ~PendingAt(d, S)
    BY NotPending DEF HpiInv
  <1>3. \E U \in uccs : U \subseteq S
    BY <1>1, <1>2 DEF Covered
  <1> QED
    BY <1>3

(* Every step keeps everything that is open covered: nothing is passed     *)
(* over that was not found, whatever edges come up in the meantime.        *)
LEMMA CoverKeeps ==
  ASSUME HpiInv, HpiNext
  PROVE  CoverInv'
  <1> SUFFICES ASSUME at' # "read", NEW T \in SUBSET Columns, Open(T)' PROVE Covered(T)'
    BY DEF CoverInv
  <1>0. HpiTypeInv /\ DepthInv /\ TreeInv /\ MarksInv /\ EdgesInv
    BY DEF HpiInv
  <1>s. Len(s) \in Nat /\ Len(calls) \in Nat /\ (s = <<>> <=> Len(s) = 0) /\ (calls = <<>> <=> Len(calls) = 0)
        /\ (Inner <=> Len(calls) > 1)
    BY <1>0, Shape DEF HpiTypeInv
  <1>o. partial_hg_' = partial_hg_ => Open(T)
    BY DEF Open
  <1>t. at # "read" /\ Open(T) => Covered(T)
    BY DEF HpiInv, CoverInv
  <1>f. uccs \subseteq uccs' /\ (\E U \in uccs : U \subseteq T) => Covered(T)'
    BY DEF Covered
  <1>1. CASE SampleColumn
    BY <1>1 DEF SampleColumn
  <1>2. CASE StartSearch
    <2>1. s' = <<>> /\ at' = "cut" /\ cand' = Columns /\ Len(s') = 0
      BY <1>0, <1>2, <1>s DEF StartSearch, DepthInv
    <2>2. InNode(T)'
      BY <2>1 DEF InNode
    <2> QED
      BY <2>2 DEF Covered
  <1>3. CASE Cut
    <2> DEFINE n == Len(s)
    <2>1. PICK e \in uncov : /\ calls' = Append(calls, [c |-> e \cap cand, rest |-> e \cap cand])
                             /\ cand' = cand \ e
      BY <1>3 DEF Cut
    <2> DEFINE call == [c |-> e \cap cand, rest |-> e \cap cand]
    <2>2. Len(calls) = n /\ UNCHANGED <<s, uccs, partial_hg_>> /\ at = "cut"
      BY <1>0, <1>3 DEF Cut, DepthInv
    <2>3. call \in Frames /\ call.c = e \cap cand /\ call.rest = e \cap cand
      BY <1>0, <2>1 DEF HpiTypeInv, Frames
    <2> HIDE DEF call
    <2>4. /\ Len(calls') = n + 1 /\ calls'[n + 1] = call
          /\ \A j \in 1 .. n : calls'[j] = calls[j]
      BY <1>0, <2>1, <2>2, <2>3, AppendIs DEF HpiTypeInv, call
    <2>5. e \in partial_hg_ /\ \A k \in 1 .. n : s[k] \notin e
      BY <1>0, <2>1, <2>2 DEF MarksInv, Unhit
    <2>6. Open(T) /\ Covered(T)
      BY <1>o, <1>t, <2>2
    <2> HIDE DEF n
    <2>7. n = Len(s) /\ n \in Nat /\ n + 1 \in 1 .. n + 1 /\ \A j \in 1 .. n : j \in 1 .. n + 1 /\ j < n + 1
      BY <1>s DEF n
    <2>8. CASE InNode(T)
      <3>m. PICK m \in 1 .. n + 1 : m = n + 1
        BY <2>7
      <3>1. T \cap e # {}
        BY <2>5, <2>6 DEF Open
      <3>2. T \cap calls'[m].rest # {}
        BY <2>3, <2>4, <2>5, <2>7, <2>8, <3>1, <3>m DEF InNode
      <3>3. \A x \in T : Within(m, x)'
        <4> SUFFICES ASSUME NEW x \in T PROVE Within(m, x)'
          OBVIOUS
        <4>1. CASE x \in cand
          BY <2>1, <2>3, <2>4, <3>m, <4>1 DEF Within
        <4>2. CASE \E k \in 1 .. n : x = s[k]
          BY <2>2, <2>7, <3>m, <4>2 DEF Within
        <4> QED
          BY <2>7, <2>8, <4>1, <4>2 DEF InNode
      <3>4. \A k \in 1 .. m - 1 : s'[k] \in T
        BY <2>2, <2>7, <2>8, <3>m DEF InNode
      <3>5. PendingAt(m, T)'
        BY <3>2, <3>3, <3>4 DEF PendingAt
      <3> QED
        BY <2>4, <3>5 DEF Covered
    <2>9. CASE \E d \in 1 .. Len(calls) : PendingAt(d, T)
      <3>1. PICK d \in 1 .. n : PendingAt(d, T)
        BY <2>2, <2>9
      <3>2. \A x \in T : Within(d, x)'
        <4> SUFFICES ASSUME NEW x \in T PROVE Within(d, x)'
          OBVIOUS
        <4>1. CASE x \in cand
          <5>1. x \in cand' \/ x \in calls'[n + 1].c
            BY <2>1, <2>3, <2>4, <4>1
          <5>2. n + 1 \in 1 .. Len(calls') /\ n + 1 > d
            BY <2>4, <2>7
          <5> QED
            BY <5>1, <5>2 DEF Within
        <4>2. CASE \E k \in 1 .. Len(s) : k <= d /\ x = s[k]
          BY <2>2, <4>2 DEF Within
        <4>3. CASE x \in calls[d].rest
          BY <2>4, <4>3 DEF Within
        <4>4. CASE \E j \in 1 .. Len(calls) : j > d /\ x \in calls[j].c
          BY <2>2, <2>4, <2>7, <4>4 DEF Within
        <4> QED
          BY <3>1, <4>1, <4>2, <4>3, <4>4 DEF PendingAt, Within
      <3>3. PendingAt(d, T)'
        BY <2>2, <2>4, <3>1, <3>2 DEF PendingAt
      <3> QED
        BY <2>4, <2>7, <3>3 DEF Covered
    <2> QED
      BY <1>f, <2>2, <2>6, <2>8, <2>9 DEF Covered
  <1>4. CASE Violater
    <2> DEFINE v == Min(Call.rest)
               n == Len(s)
    <2>1. /\ calls # <<>> /\ calls' = WithoutColumn(v) /\ Len(calls) = n + 1 /\ at = "branch" /\ Call.rest # {}
          /\ UNCHANGED <<s, cand, uccs, partial_hg_, crit, at>> /\ IsViolater(v)
      BY <1>0, <1>4, <1>s DEF Violater, DepthInv
    <2>2. /\ Len(calls') = n + 1
          /\ \A j \in 1 .. n + 1 : j # n + 1 => calls'[j] = calls[j]
          /\ \A j \in 1 .. n + 1 : calls'[j].c = calls[j].c
          /\ calls'[n + 1].rest = calls[n + 1].rest \ {v}
      BY <1>0, <2>1, WithoutIs, CallIs
    <2>3. v \in calls[n + 1].rest /\ v \in Columns
      BY <1>0, <2>1, CallIs
    <2> HIDE DEF v
    <2>4. Open(T) /\ Covered(T) /\ ~InNode(T)
      BY <1>o, <1>t, <2>1 DEF InNode
    <2> HIDE DEF n
    <2>5. n = Len(s) /\ n \in Nat /\ n + 1 \in 1 .. n + 1 /\ \A j \in 1 .. n + 1 : j \in 1 .. n \/ j = n + 1
      BY <1>s DEF n
    <2>6. ASSUME NEW d \in 1 .. n + 1, PendingAt(d, T), v \notin T \/ d # n + 1 PROVE Covered(T)'
      <3>1. T \cap calls'[d].rest # {}
        BY <2>2, <2>6 DEF PendingAt
      <3>2. \A x \in T : Within(d, x)'
        <4> SUFFICES ASSUME NEW x \in T PROVE Within(d, x)'
          OBVIOUS
        <4>1. Within(d, x)
          BY <2>6 DEF PendingAt
        <4>2. x \in calls[d].rest => x \in calls'[d].rest
          BY <2>2, <2>6
        <4>3. (\E j \in 1 .. Len(calls) : j > d /\ x \in calls[j].c) => \E j \in 1 .. Len(calls') : j > d /\ x \in calls'[j].c
          BY <2>1, <2>2
        <4> QED
          BY <2>1, <4>1, <4>2, <4>3 DEF Within
      <3>3. PendingAt(d, T)'
        BY <2>1, <2>6, <3>1, <3>2 DEF PendingAt
      <3> QED
        BY <2>2, <3>3 DEF Covered
    <2>7. ASSUME PendingAt(n + 1, T), v \in T PROVE \E U \in uccs : U \subseteq T
      <3>1. PICK i \in 1 .. n : crit[i] \subseteq Hittings(v)
        <4>1. DOMAIN crit = 1 .. n
          BY <1>0, <2>5 DEF DepthInv, HpiTypeInv
        <4> QED
          BY <2>1, <4>1 DEF IsViolater
      <3>2. \A k \in 1 .. n : s[k] \in T
        BY <2>5, <2>7 DEF PendingAt
      <3>3. v # s[i]
        <4>1. i \in 1 .. n + 1 /\ i < n + 1 /\ i <= Len(s)
          BY <2>5
        <4> QED
          BY <1>0, <2>1, <2>3, <2>5, <4>1 DEF TreeInv
      <3>4. \A e \in Critical(partial_hg_, i, n) : \E x \in e \cap T : x # s[i]
        BY <1>0, <2>5, <2>7, <3>1, <3>3 DEF MarksInv, Hittings
      <3>5. \A e \in partial_hg_ : e \cap (T \ {s[i]}) # {}
        <4>1. n \in 0 .. Len(s) /\ Len(s) <= Len(calls)
          BY <2>1, <2>5
        <4>2. \A e \in partial_hg_ : e \cap T # {}
          BY <2>4 DEF Open
        <4> QED
          BY <1>0, <3>2, <3>4, <4>1, <4>2, Redundant
      <3>6. Open(T \ {s[i]}) /\ ~InNode(T \ {s[i]})
        BY <2>1, <3>5 DEF Open, InNode
      <3>7. \A x \in T : \/ x \in cand \/ \E k \in 1 .. Len(s) : x = s[k]
                         \/ \E j \in 1 .. Len(calls) : j > i /\ x \in calls[j].c
        <4> SUFFICES ASSUME NEW x \in T
                     PROVE  \/ x \in cand \/ \E k \in 1 .. Len(s) : x = s[k]
                            \/ \E j \in 1 .. Len(calls) : j > i /\ x \in calls[j].c
          OBVIOUS
        <4>1. Within(n + 1, x)
          BY <2>7 DEF PendingAt
        <4>2. n + 1 \in 1 .. Len(calls) /\ n + 1 > i
          BY <2>1, <2>5
        <4>3. x \in calls[n + 1].rest => x \in calls[n + 1].c
          BY <1>0, <4>2 DEF TreeInv
        <4>4. ~\E j \in 1 .. Len(calls) : j > n + 1
          BY <2>1, <2>5
        <4> QED
          BY <4>1, <4>2, <4>3, <4>4 DEF Within
      <3>8. Len(s) <= Len(calls) /\ i \in 1 .. Len(s) /\ at # "read"
        BY <2>1, <2>5
      <3> QED
        BY <3>6, <3>7, <3>8, GivenUp
    <2>8. CASE \E d \in 1 .. Len(calls) : PendingAt(d, T)
      <3>1. PICK d \in 1 .. n + 1 : PendingAt(d, T)
        BY <2>1, <2>8
      <3>2. CASE v \notin T \/ d # n + 1
        BY <2>6, <3>1, <3>2
      <3>3. CASE v \in T /\ d = n + 1
        BY <1>f, <2>1, <2>7, <3>1, <3>3
      <3> QED
        BY <3>2, <3>3
    <2> QED
      BY <1>f, <2>1, <2>4, <2>8 DEF Covered
  <1>5. CASE Branch
    <2> DEFINE v == Min(Call.rest)
               n == Len(s)
    <2>1. /\ calls # <<>> /\ calls' = WithoutColumn(v) /\ Len(calls) = n + 1 /\ at = "branch" /\ Call.rest # {}
          /\ UNCHANGED <<cand, uccs, partial_hg_>> /\ s' = Append(s, v) /\ at' = "extend"
      BY <1>0, <1>5, <1>s DEF Branch, DepthInv
    <2>2. /\ Len(calls') = n + 1
          /\ \A j \in 1 .. n + 1 : j # n + 1 => calls'[j] = calls[j]
          /\ \A j \in 1 .. n + 1 : calls'[j].c = calls[j].c
          /\ calls'[n + 1].rest = calls[n + 1].rest \ {v}
      BY <1>0, <2>1, WithoutIs, CallIs
    <2>3. v \in calls[n + 1].rest /\ v \in Columns
      BY <1>0, <2>1, CallIs
    <2> HIDE DEF v
    <2>4. Len(s') = n + 1 /\ s'[n + 1] = v /\ \A j \in 1 .. n : s'[j] = s[j]
      BY <1>0, <2>1, <2>3, AppendIs DEF HpiTypeInv
    <2>5. Open(T) /\ Covered(T) /\ ~InNode(T)
      BY <1>o, <1>t, <2>1 DEF InNode
    <2> HIDE DEF n
    <2>6. n = Len(s) /\ n \in Nat /\ n + 1 \in 1 .. n + 1 /\ \A j \in 1 .. n + 1 : j \in 1 .. n \/ j = n + 1
      BY <1>s DEF n
    <2>7. \A j \in 1 .. n : j \in 1 .. n + 1
      BY <2>6
    <2>8. ASSUME NEW d \in 1 .. n + 1, PendingAt(d, T), T \cap calls'[d].rest # {} PROVE Covered(T)'
      <3>1. \A k \in 1 .. d - 1 : k \in 1 .. n
        BY <2>6
      <3>2. \A k \in 1 .. d - 1 : s'[k] \in T
        BY <2>4, <2>8, <3>1 DEF PendingAt
      <3>3. \A x \in T : Within(d, x)'
        <4> SUFFICES ASSUME NEW x \in T PROVE Within(d, x)'
          OBVIOUS
        <4>1. Within(d, x)
          BY <2>8 DEF PendingAt
        <4>2. CASE \E k \in 1 .. Len(s) : k <= d /\ x = s[k]
          BY <2>4, <2>6, <2>7, <4>2 DEF Within
        <4>3. CASE x \in cand
          BY <2>1, <4>3 DEF Within
        <4>4. CASE x \in calls[d].rest
          <5>1. CASE x = v /\ d = n + 1
            BY <2>4, <2>6, <5>1 DEF Within
          <5>2. CASE x \in calls'[d].rest
            BY <5>2 DEF Within
          <5> QED
            BY <2>2, <4>4, <5>1, <5>2
        <4>5. CASE \E j \in 1 .. Len(calls) : j > d /\ x \in calls[j].c
          BY <2>1, <2>2, <4>5 DEF Within
        <4> QED
          BY <4>1, <4>2, <4>3, <4>4, <4>5 DEF Within
      <3>4. PendingAt(d, T)'
        BY <2>8, <3>2, <3>3 DEF PendingAt
      <3> QED
        BY <2>2, <3>4 DEF Covered
    <2>9. ASSUME PendingAt(n + 1, T), T \cap calls'[n + 1].rest = {} PROVE Covered(T)'
      <3>1. v \in T
        BY <2>2, <2>9 DEF PendingAt
      <3>2. \A k \in 1 .. n + 1 : s'[k] \in T
        BY <2>4, <2>6, <2>9, <3>1 DEF PendingAt
      <3>3. ASSUME NEW x \in T PROVE x \in cand' \/ \E k \in 1 .. n + 1 : x = s'[k]
        <4>1. Within(n + 1, x) /\ x \notin calls'[n + 1].rest
          BY <2>9 DEF PendingAt
        <4>2. ~\E j \in 1 .. Len(calls) : j > n + 1
          BY <2>1, <2>6
        <4>3. CASE x \in calls[n + 1].rest
          BY <2>2, <2>4, <2>6, <4>1, <4>3
        <4>4. CASE \E k \in 1 .. Len(s) : x = s[k]
          BY <2>4, <2>6, <2>7, <4>4
        <4> QED
          BY <2>1, <4>1, <4>2, <4>3, <4>4 DEF Within
      <3>4. InNode(T)'
        BY <2>1, <2>4, <3>2, <3>3 DEF InNode
      <3> QED
        BY <3>4 DEF Covered
    <2>10. CASE \E d \in 1 .. Len(calls) : PendingAt(d, T)
      <3>1. PICK d \in 1 .. n + 1 : PendingAt(d, T)
        BY <2>1, <2>10
      <3>2. CASE T \cap calls'[d].rest # {}
        BY <2>8, <3>1, <3>2
      <3>3. CASE T \cap calls'[d].rest = {}
        <4>1. d = n + 1
          BY <2>2, <3>1, <3>3 DEF PendingAt
        <4> QED
          BY <2>9, <3>1, <3>3, <4>1
      <3> QED
        BY <3>2, <3>3
    <2> QED
      BY <1>f, <2>1, <2>5, <2>10 DEF Covered
  <1>6. CASE Extend
    <2>1. UNCHANGED <<partial_hg_, s, cand, calls, uccs>> /\ at = "extend" /\ at' = "cut"
      BY <1>6 DEF Extend
    <2>2. Covered(T)
      BY <1>o, <1>t, <2>1
    <2> QED
      BY <2>1, <2>2 DEF Covered, PendingAt, Within, InNode
  <1>7. CASE Confirm
    <2>1. UNCHANGED <<partial_hg_, s, cand, calls>> /\ at = "extend" /\ uccs' = uccs \cup {ToSet(s)}
      BY <1>7 DEF Confirm
    <2>2. Covered(T)
      BY <1>o, <1>t, <2>1
    <2>3. CASE InNode(T)
      <3>1. ToSet(s) \subseteq T
        BY <1>0, <2>3 DEF InNode, ToSet, HpiTypeInv
      <3> QED
        BY <2>1, <3>1 DEF Covered
    <2>4. CASE \E d \in 1 .. Len(calls) : PendingAt(d, T)
      BY <2>1, <2>4 DEF Covered, PendingAt, Within
    <2> QED
      BY <1>f, <2>1, <2>2, <2>3, <2>4 DEF Covered
  <1>8. CASE UpdateEdges
    <2> DEFINE n == Len(s)
    <2>1. /\ at = "extend" /\ uncov = {} /\ intersection_stack' = PullUpIntersections
          /\ UNCHANGED <<s, cand, calls, uccs>> /\ Len(calls) = Len(s)
      BY <1>0, <1>8 DEF UpdateEdges, DepthInv
    <2>2. PICK new_edges \in Samples(Last(intersection_stack')) :
            LET supsets == {e \in partial_hg_ : \E f \in new_edges : f \subseteq e}
            IN partial_hg_' = (partial_hg_ \ supsets) \cup new_edges
      BY <1>8 DEF UpdateEdges
    <2>3. ASSUME NEW S \in SUBSET Columns, \A e \in partial_hg_' : e \cap S # {} PROVE Open(S)
      <3> SUFFICES ASSUME NEW e \in partial_hg_ PROVE e \cap S # {}
        BY DEF Open
      <3>1. CASE \E f \in new_edges : f \subseteq e
        <4>1. PICK f \in new_edges : f \subseteq e
          BY <3>1
        <4>2. f \in partial_hg_'
          BY <2>2
        <4> QED
          BY <2>3, <4>1, <4>2
      <3>2. CASE ~\E f \in new_edges : f \subseteq e
        <4>1. e \in partial_hg_'
          BY <2>2, <3>2
        <4> QED
          BY <2>3, <4>1
      <3> QED
        BY <3>1, <3>2
    <2>4. \A e \in partial_hg_' : e \cap T # {}
      BY DEF Open
    <2>5. Covered(T)
      BY <1>t, <2>1, <2>3, <2>4
    <2>6. CASE \E d \in 1 .. Len(calls) : PendingAt(d, T)
      BY <2>1, <2>6 DEF Covered, PendingAt, Within
    <2>7. CASE InNode(T) /\ at' = "cut"
      BY <2>1, <2>7 DEF Covered, InNode
    <2>8. CASE InNode(T) /\ at' # "cut"
      <3>1. ~SFulfillsMinimalityCondition(crit')
        BY <1>8, <2>8 DEF UpdateEdges
      <3>2. DepthInv' /\ HpiTypeInv' /\ MarksInv'
        BY TypesKeep, MarksKeep
      <3>3. PICK i \in 1 .. n : crit'[i] = {}
        <4>1. DOMAIN crit' = 1 .. n
          BY <2>1, <3>2 DEF DepthInv, HpiTypeInv
        <4> QED
          BY <3>1, <4>1 DEF SFulfillsMinimalityCondition
      <3>4. Critical(partial_hg_', i, n) = {}
        BY <2>1, <3>2, <3>3 DEF MarksInv, Critical
      <3>5. \A e \in partial_hg_' : e \cap (T \ {s[i]}) # {}
        <4>1. n \in 0 .. Len(s) /\ Len(s) <= Len(calls)
          BY <1>s, <2>1
        <4>2. \A k \in 1 .. n : s[k] \in T
          BY <2>8 DEF InNode
        <4>3. \A e \in Critical(partial_hg_', i, n) : \E x \in e \cap T : x # s[i]
          BY <3>4
        <4> DEFINE H == partial_hg_'
        <4> HIDE DEF H
        <4> QED
          BY <1>0, <2>4, <4>1, <4>2, <4>3, Redundant DEF H
      <3>6. Open(T \ {s[i]}) /\ ~InNode(T \ {s[i]})
        BY <2>3, <3>5 DEF InNode
      <3>7. \A x \in T : x \in cand \/ \E k \in 1 .. Len(s) : x = s[k]
        BY <2>8 DEF InNode
      <3>8. Len(s) <= Len(calls) /\ i \in 1 .. Len(s) /\ at # "read"
        BY <1>s, <2>1
      <3>9. \E U \in uccs : U \subseteq T
        BY <3>6, <3>7, <3>8, GivenUp
      <3> QED
        BY <1>f, <2>1, <3>9
    <2> QED
      BY <1>f, <2>1, <2>5, <2>6, <2>7, <2>8 DEF Covered
  <1>9. CASE Return
    <2> DEFINE n == Len(s)
    <2>1. /\ at = "return" /\ s' = Front(s) /\ UNCHANGED <<partial_hg_, uccs>>
          /\ Len(calls) = n /\ s # <<>> /\ calls # <<>>
      BY <1>0, <1>9, <1>s DEF Return, DepthInv
    <2>2. n \in 1 .. n /\ n \in Nat /\ Len(s') = n - 1 /\ Last(s) = s[n] /\ \A k \in 1 .. n - 1 : s'[k] = s[k]
      BY <2>1, PoppedPath
    <2>3. Open(T) /\ Covered(T) /\ ~InNode(T)
      BY <1>o, <1>t, <2>1 DEF InNode
    <2>4. Call = calls[n]
      BY <1>0, <2>1, CallIs
    <2> HIDE DEF n
    <2>5. n = Len(s) /\ \A k \in 1 .. n : k \in 1 .. n - 1 \/ k = n
      BY <2>2 DEF n
    <2>6. \A k \in 1 .. n - 1 : k \in 1 .. n
      BY <2>2
    <2>7. CASE cand' = cand \cup {s[n]} /\ UNCHANGED calls /\ at' = "branch"
      <3>1. ASSUME NEW d \in 1 .. Len(calls), PendingAt(d, T) PROVE PendingAt(d, T)'
        <4>1. d \in 1 .. n /\ \A k \in 1 .. d - 1 : k \in 1 .. n - 1
          BY <2>1, <2>2
        <4>2. \A k \in 1 .. d - 1 : s'[k] \in T
          BY <2>2, <3>1, <4>1 DEF PendingAt
        <4>3. \A x \in T : Within(d, x)'
          <5> SUFFICES ASSUME NEW x \in T PROVE Within(d, x)'
            OBVIOUS
          <5>1. CASE \E k \in 1 .. Len(s) : k <= d /\ x = s[k]
            BY <2>2, <2>5, <2>7, <5>1 DEF Within
          <5> QED
            BY <2>7, <3>1, <5>1 DEF PendingAt, Within
        <4> QED
          BY <2>7, <3>1, <4>2, <4>3 DEF PendingAt
      <3> QED
        BY <1>f, <2>1, <2>3, <2>7, <3>1 DEF Covered
    <2>8. CASE /\ cand' = cand \cup Call.c /\ calls' = Front(calls)
               /\ ~SFulfillsMinimalityCondition(crit')
      <3>1. Len(calls') = n - 1 /\ \A j \in 1 .. n - 1 : calls'[j] = calls[j]
        BY <2>1, <2>8, PoppedCall
      <3>2. ASSUME NEW d \in 1 .. n - 1, PendingAt(d, T) PROVE PendingAt(d, T)'
        <4>1. \A k \in 1 .. d - 1 : k \in 1 .. n - 1
          BY <2>2
        <4>2. \A k \in 1 .. d - 1 : s'[k] \in T
          BY <2>2, <3>2, <4>1 DEF PendingAt
        <4>3. \A x \in T : Within(d, x)'
          <5> SUFFICES ASSUME NEW x \in T PROVE Within(d, x)'
            OBVIOUS
          <5>1. CASE \E k \in 1 .. Len(s) : k <= d /\ x = s[k]
            <6>1. PICK k \in 1 .. n : k <= d /\ x = s[k]
              BY <2>5, <5>1
            <6>2. k \in 1 .. n - 1
              BY <2>2, <6>1
            <6> QED
              BY <2>2, <6>1, <6>2 DEF Within
          <5>2. CASE \E j \in 1 .. Len(calls) : j > d /\ x \in calls[j].c
            <6>1. PICK j \in 1 .. n : j > d /\ x \in calls[j].c
              BY <2>1, <5>2
            <6>2. CASE j = n
              BY <2>4, <2>8, <6>1, <6>2 DEF Within
            <6>3. CASE j \in 1 .. n - 1
              BY <3>1, <6>1, <6>3 DEF Within
            <6> QED
              BY <2>5, <6>2, <6>3
          <5>3. CASE x \in cand
            BY <2>8, <5>3 DEF Within
          <5>4. CASE x \in calls[d].rest
            BY <3>1, <5>4 DEF Within
          <5> QED
            BY <3>2, <5>1, <5>2, <5>3, <5>4 DEF PendingAt, Within
        <4> QED
          BY <3>1, <3>2, <4>2, <4>3 DEF PendingAt
      <3>3. ASSUME PendingAt(n, T) PROVE \E U \in uccs : U \subseteq T
        <4>1. DepthInv' /\ HpiTypeInv' /\ MarksInv'
          BY TypesKeep, MarksKeep
        <4>2. PICK i \in 1 .. n - 1 : crit'[i] = {}
          <5>1. DOMAIN crit' = 1 .. n - 1
            BY <2>2, <4>1 DEF DepthInv, HpiTypeInv
          <5> QED
            BY <2>8, <5>1 DEF SFulfillsMinimalityCondition
        <4>3. crit'[i] = {e \in partial_hg_ : s[i] \in e /\ \A k \in 1 .. n - 1 : s[k] \in e => k = i}
          <5>1. crit'[i] = {e \in partial_hg_' : s'[i] \in e /\ \A k \in 1 .. Len(s') : s'[k] \in e => k = i}
            <6>1. i \in 1 .. Len(s')
              BY <2>2
            <6> QED
              BY <4>1, <6>1 DEF MarksInv, Critical
          <5>2. \A e : (\A k \in 1 .. Len(s') : s'[k] \in e => k = i) <=> \A k \in 1 .. n - 1 : s[k] \in e => k = i
            BY <2>2
          <5> QED
            BY <2>1, <2>2, <5>1, <5>2
        <4>4. Critical(partial_hg_, i, n - 1) = {}
          BY <4>2, <4>3 DEF Critical
        <4>5. n - 1 \in 0 .. Len(s) /\ Len(s) <= Len(calls) /\ i \in 1 .. Len(s) /\ n > i /\ n \in 1 .. Len(calls)
          BY <1>s, <2>1, <2>2, <2>5
        <4>6. \A e \in partial_hg_ : e \cap (T \ {s[i]}) # {}
          <5>1. \A k \in 1 .. n - 1 : s[k] \in T
            BY <3>3 DEF PendingAt
          <5>2. \A e \in Critical(partial_hg_, i, n - 1) : \E x \in e \cap T : x # s[i]
            BY <4>4
          <5>3. \A e \in partial_hg_ : e \cap T # {}
            BY <2>3 DEF Open
          <5> DEFINE m == n - 1
          <5> HIDE DEF m
          <5> QED
            BY <1>0, <4>5, <5>1, <5>2, <5>3, Redundant DEF m
        <4>7. Open(T \ {s[i]}) /\ ~InNode(T \ {s[i]})
          BY <2>1, <4>6 DEF Open, InNode
        <4>8. \A x \in T : \/ x \in cand \/ \E k \in 1 .. Len(s) : x = s[k]
                           \/ \E j \in 1 .. Len(calls) : j > i /\ x \in calls[j].c
          <5>1. calls[n].rest \subseteq calls[n].c
            BY <1>0, <4>5 DEF TreeInv
          <5> QED
            BY <2>1, <2>2, <3>3, <4>5, <5>1 DEF PendingAt, Within
        <4> QED
          BY <2>1, <4>5, <4>7, <4>8, GivenUp
      <3>4. CASE \E d \in 1 .. Len(calls) : PendingAt(d, T)
        <4>1. PICK d \in 1 .. n : PendingAt(d, T)
          BY <2>1, <3>4
        <4>2. CASE d = n
          BY <1>f, <2>1, <3>3, <4>1, <4>2
        <4>3. CASE d \in 1 .. n - 1
          BY <3>1, <3>2, <4>1, <4>3 DEF Covered
        <4> QED
          BY <2>5, <4>2, <4>3
      <3> QED
        BY <1>f, <2>1, <2>3, <3>4 DEF Covered
    <2> QED
      BY <1>9, <2>2, <2>7, <2>8 DEF Return
  <1>10. CASE AllTried
    <2> DEFINE n == Len(s)
    <2>1. /\ at = "branch" /\ Len(calls) = n + 1 /\ calls # <<>> /\ UNCHANGED <<partial_hg_, s, uccs>>
          /\ cand' = cand \cup Call.c /\ calls' = Front(calls) /\ Call.rest = {}
      BY <1>0, <1>10, <1>s DEF AllTried, DepthInv
    <2>2. Call = calls[n + 1]
      BY <1>0, <2>1, CallIs
    <2>3. Len(calls') = n /\ \A j \in 1 .. n : calls'[j] = calls[j]
      BY <1>s, <2>1, PoppedCall
    <2>4. Open(T) /\ Covered(T) /\ ~InNode(T)
      BY <1>o, <1>t, <2>1 DEF InNode
    <2> HIDE DEF n
    <2>5. n = Len(s) /\ n \in Nat /\ \A j \in 1 .. n + 1 : j \in 1 .. n \/ j = n + 1
      BY <1>s DEF n
    <2>6. ASSUME NEW d \in 1 .. Len(calls), PendingAt(d, T) PROVE d \in 1 .. n /\ PendingAt(d, T)'
      <3>1. d \in 1 .. n
        BY <2>1, <2>2, <2>5, <2>6 DEF PendingAt
      <3>2. \A x \in T : Within(d, x)'
        <4> SUFFICES ASSUME NEW x \in T PROVE Within(d, x)'
          OBVIOUS
        <4>1. CASE \E j \in 1 .. Len(calls) : j > d /\ x \in calls[j].c
          <5>1. PICK j \in 1 .. n + 1 : j > d /\ x \in calls[j].c
            BY <2>1, <4>1
          <5>2. CASE j = n + 1
            BY <2>1, <2>2, <5>1, <5>2 DEF Within
          <5>3. CASE j \in 1 .. n
            BY <2>3, <5>1, <5>3 DEF Within
          <5> QED
            BY <2>5, <5>2, <5>3
        <4>2. CASE x \in cand
          BY <2>1, <4>2 DEF Within
        <4>3. CASE x \in calls[d].rest
          BY <2>3, <3>1, <4>3 DEF Within
        <4>4. CASE \E k \in 1 .. Len(s) : k <= d /\ x = s[k]
          BY <2>1, <4>4 DEF Within
        <4> QED
          BY <2>6, <4>1, <4>2, <4>3, <4>4 DEF PendingAt, Within
      <3> QED
        BY <2>1, <2>3, <2>6, <3>1, <3>2 DEF PendingAt
    <2> QED
      BY <1>f, <2>1, <2>3, <2>4, <2>6 DEF Covered
  <1> QED
    BY <1>1, <1>2, <1>3, <1>4, <1>5, <1>6, <1>7, <1>8, <1>9, <1>10 DEF HpiNext

(* It holds at the start.                                                  *)
LEMMA HpiStarts ==
  ASSUME table \in AllTables, HpiInit
  PROVE  HpiInv
  <1> USE DEF HpiInit
  <1>1. HpiTypeInv
    BY EmptySeq DEF HpiTypeInv, Marks, Frames
  <1>2. DepthInv /\ Len(s) = 0 /\ Len(calls) = 0
    BY DEF DepthInv
  <1>3. TreeInv
    BY <1>2 DEF TreeInv
  <1>4. MarksInv
    BY <1>2 DEF MarksInv, MinimizeInclusion
  <1>5. EdgesInv
    BY <1>2 DEF EdgesInv, Real
  <1>6. PlisInv
    BY DEF PlisInv
  <1>7. UccsInv /\ CoverInv
    BY DEF UccsInv, CoverInv
  <1> QED
    BY <1>1, <1>2, <1>3, <1>4, <1>5, <1>6, <1>7 DEF HpiInv

(* And says all that is claimed; in the end, when no call is left,         *)
(* whatever is open contains a set that was found.                         *)
LEMMA AnswerIsExact ==
  ASSUME HpiInv
  PROVE  UccsAreRight
  <1>0. HpiTypeInv /\ DepthInv /\ TreeInv /\ MarksInv /\ EdgesInv /\ PlisInv /\ UccsInv
    BY DEF HpiInv
  <1>1. MarksAreRight
    <2>1. DOMAIN s = 1 .. Len(s) /\ (at = "done" => Len(calls) = 0)
      BY <1>0 DEF HpiTypeInv, DepthInv
    <2>2. uncov = IF at = "read" THEN {} ELSE {e \in partial_hg_ : e \cap ToSet(s) = {}}
      <3>1. uncov = IF at = "read" THEN {} ELSE {e \in partial_hg_ : \A k \in 1 .. Len(s) : s[k] \notin e}
        BY <1>0 DEF MarksInv, Unhit
      <3>2. \A e : (\A k \in 1 .. Len(s) : s[k] \notin e) <=> e \cap ToSet(s) = {}
        BY <2>1 DEF ToSet
      <3> QED
        BY <3>1, <3>2
    <2>3. ASSUME NEW i \in DOMAIN s PROVE crit[i] = {e \in partial_hg_ : e \cap ToSet(s) = {s[i]}}
      <3>1. crit[i] = {e \in partial_hg_ : s[i] \in e /\ \A k \in 1 .. Len(s) : s[k] \in e => k = i}
        <4>1. i \in 1 .. Len(s)
          BY <2>1
        <4> QED
          BY <1>0, <4>1 DEF MarksInv, Critical
      <3>2. \A j, k \in 1 .. Len(s) : s[j] = s[k] => j = k
        <4>1. Len(s) <= Len(calls)
          BY <1>0, <2>1, Shape DEF DepthInv, HpiTypeInv
        <4> QED
          BY <1>0, <2>1, <4>1, Distinct
      <3>3. \A e : (s[i] \in e /\ \A k \in 1 .. Len(s) : s[k] \in e => k = i) <=> e \cap ToSet(s) = {s[i]}
        BY <2>1, <3>2 DEF ToSet
      <3> QED
        BY <3>1, <3>3
    <2> QED
      BY <1>0, <2>2, <2>3 DEF MarksAreRight, MarksInv
  <1>2. IntersectionIsRight
    <2> SUFFICES ASSUME s # <<>> PROVE Last(PullUpIntersections) = ClustersOf(ToSet(s))
      BY DEF IntersectionIsRight
    <2>1. Len(s) \in 1 .. Len(s) /\ ToSet(s) = Path(Len(s))
      BY <1>0, PathIs DEF HpiTypeInv
    <2>2. Len(PullUpIntersections) = Len(s) /\ \A k \in 1 .. Len(s) : PullUpIntersections[k] = ClustersOf(Path(k))
      BY <1>0, Intersections
    <2> QED
      BY <2>1, <2>2 DEF Last
  <1>3. ASSUME at = "done" PROVE uccs = MinimalUccs(table)
    <2> SUFFICES ASSUME NEW U \in MinimalUccs(table) PROVE U \in uccs
      BY <1>0 DEF UccsInv
    <2>1. U \in SUBSET Columns /\ Open(U)
      BY <1>3, OpenUccs
    <2>2. Covered(U)
      BY <1>3, <2>1 DEF HpiInv, CoverInv
    <2>3. Len(calls) = 0 /\ ~InNode(U)
      BY <1>0, <1>3 DEF DepthInv, InNode
    <2>4. PICK V \in uccs : V \subseteq U
      BY <2>2, <2>3 DEF Covered
    <2>5. V \in SUBSET Columns /\ IsUnique(table, V)
      BY <1>0, <2>4, MinimalIs DEF UccsInv
    <2>6. V = U
      BY <2>4, <2>5, MinimalIs
    <2> QED
      BY <2>4, <2>6
  <1> QED
    BY <1>0, <1>1, <1>2, <1>3 DEF UccsAreRight, UccsInv

(* HPIValid keeps its marks and intersections right, finds only minimal    *)
(* unique column combinations, and in the end all of them: for any number  *)
(* of columns, any table, and whatever pairs of rows it samples.           *)
THEOREM UccsAreAlwaysRight == HpiSpec => []UccsAreRight
  <1>1. table \in AllTables /\ HpiInit => HpiInv
    BY HpiStarts
  <1>2. HpiInv /\ [HpiNext]_<<table, hpiVars>> => HpiInv'
    <2>1. CASE HpiNext
      BY <2>1, TypesKeep, TreeKeeps, MarksKeep, EdgesKeep, PlisKeep, UccsKeep, CoverKeeps DEF HpiInv
    <2>2. CASE UNCHANGED <<table, hpiVars>>
      <3>0. /\ UNCHANGED <<table, at, partial_hg_, unsampled, s, cand, crit, uncov, removed_critical_stack>>
            /\ UNCHANGED <<intersection_stack, tointersect_queue, calls, check, uccs>>
        BY <2>2 DEF hpiVars
      <3>1. HpiInv => HpiTypeInv' /\ DepthInv' /\ TreeInv'
        <4>1. HpiInv => HpiTypeInv'
          BY <3>0 DEF HpiInv, HpiTypeInv, AllTables, RowSets, Rows
        <4>2. HpiInv => DepthInv'
          BY <3>0 DEF HpiInv, DepthInv
        <4>3. HpiInv => TreeInv'
          BY <3>0 DEF HpiInv, TreeInv
        <4> QED
          BY <4>1, <4>2, <4>3
      <3>2. HpiInv => MarksInv'
        <4>1. Unhit(partial_hg_, Len(s))' = Unhit(partial_hg_, Len(s))
          BY <3>0 DEF Unhit
        <4>2. /\ \A i : Critical(partial_hg_, i, Len(s))' = Critical(partial_hg_, i, Len(s))
              /\ \A i, d : Critical(partial_hg_, i, d)' = Critical(partial_hg_, i, d)
          BY <3>0 DEF Critical
        <4>3. MinimizeInclusion(partial_hg_)' = MinimizeInclusion(partial_hg_)
          BY <3>0
        <4> QED
          BY <3>0, <4>1, <4>2, <4>3 DEF HpiInv, MarksInv
      <3>3. HpiInv => EdgesInv'
        <4>1. \A e : Real(e)' <=> Real(e)
          BY <3>0 DEF Real, Rows, AgreeOn
        <4> QED
          BY <3>0, <4>1 DEF HpiInv, EdgesInv, Unhit
      <3>4. HpiInv => PlisInv'
        <4>1. \A n : Path(n)' = Path(n)
          BY <3>0 DEF Path
        <4>2. \A n : ClustersOf(Path(n))' = ClustersOf(Path(n))
          BY <3>0, <4>1 DEF ClustersOf, Rows, AgreeOn
        <4> QED
          BY <3>0, <4>2 DEF HpiInv, PlisInv
      <3>5. HpiInv => UccsInv'
        BY <3>0 DEF HpiInv, UccsInv
      <3>6. HpiInv => CoverInv'
        <4>1. \A T : Open(T)' <=> Open(T)
          BY <3>0 DEF Open
        <4>2. \A d, x : Within(d, x)' <=> Within(d, x)
          BY <3>0 DEF Within
        <4>3. \A d, T : PendingAt(d, T)' <=> PendingAt(d, T)
          BY <3>0, <4>2 DEF PendingAt
        <4>4. \A T : InNode(T)' <=> InNode(T)
          BY <3>0 DEF InNode
        <4>5. \A T : Covered(T)' <=> Covered(T)
          BY <3>0, <4>3, <4>4 DEF Covered
        <4> QED
          BY <3>0, <4>1, <4>5 DEF HpiInv, CoverInv
      <3> QED
        BY <3>1, <3>2, <3>3, <3>4, <3>5, <3>6 DEF HpiInv
    <2> QED
      BY <2>1, <2>2
  <1>3. HpiInv => UccsAreRight
    BY AnswerIsExact
  <1> QED
    BY <1>1, <1>2, <1>3, PTL DEF HpiSpec, AllTables
=============================================================================
