-------------------------------- MODULE Dfd ---------------------------------
(***************************************************************************)
(* DFD's search for the left sides of one column (src/src/core/algorithms/ *)
(* fd/dfd/lattice_traversal): a random walk that goes down from what holds *)
(* and up from what does not, and starts again from seeds until there are  *)
(* none.  The columns' searches are tasks of one pool that share only the  *)
(* storage of partitions, so one is modelled.  The maps of dependencies    *)
(* and of non-dependencies are sharded by key, which no answer depends on. *)
(***************************************************************************)
EXTENDS Integers, FiniteSets, Sequences

CONSTANT Candidates      \* the columns other than rhs_
ASSUME DfdAssumption == IsFiniteSet(Candidates)

VARIABLES
  holds,                 \* the sets that determine rhs_, given by the table
  observations,          \* visited sets to their categories
  dependencies_map,
  non_dependencies_map,
  minimal_deps,
  maximal_non_deps,
  seeds,                 \* a stack, of the elements of a hash set: popped in any order
  trace,                 \* the stack of the sets to come back to
  node                   \* the set visited, {} between two seeds
walk == <<observations, dependencies_map, non_dependencies_map, minimal_deps, maximal_non_deps, seeds, trace, node>>
dfd_vars == <<holds, walk>>

DepKinds == {"minimal_dep", "dep", "candidate_dep"}
NonDepKinds == {"maximal_non_dep", "non_dep", "candidate_non_dep"}
Sides == SUBSET Candidates
Below(X) == {X \ {c} : c \in X}
Above(X) == {X \cup {c} : c \in Candidates \ X}

(* LatticeObservations::UpdateDependencyCategory, UpdateNonDependencyCategory. *)
DependencyCategory(X) ==
  IF Cardinality(X) <= 1 THEN "minimal_dep"
  ELSE IF \E Y \in Below(X) \cap DOMAIN observations : observations[Y] \in DepKinds THEN "dep"
  ELSE IF Below(X) \subseteq DOMAIN observations THEN "minimal_dep" ELSE "candidate_dep"
NonDependencyCategory(X) ==
  IF \E Y \in Above(X) \cap DOMAIN observations : observations[Y] \in NonDepKinds THEN "non_dep"
  ELSE IF Above(X) \subseteq DOMAIN observations THEN "maximal_non_dep" ELSE "candidate_non_dep"

BugKnownDependency(X) == \E Y \in dependencies_map : X \subseteq Y     \* a fault
KnownDependency(X) == \E Y \in dependencies_map : Y \subseteq X
KnownNonDependency(X) == \E Y \in non_dependencies_map : X \subseteq Y
AddNewDependency(X) ==
  IF KnownDependency(X) THEN dependencies_map
  ELSE {Y \in dependencies_map : ~(X \subseteq Y)} \cup {X}
AddNewNonDependency(X) ==
  IF KnownNonDependency(X) THEN non_dependencies_map
  ELSE {Y \in non_dependencies_map : ~(Y \subseteq X)} \cup {X}

Recategorized(X) == X \in DOMAIN observations /\ observations[X] \in {"candidate_dep", "candidate_non_dep"}
Inferred(X) == X \notin DOMAIN observations /\ (KnownNonDependency(X) \/ KnownDependency(X))
(* Whether the walk takes X for a dependency: a category it has, what the  *)
(* maps infer (non-dependencies first), or the two partitions' pairs.      *)
TakenForDependency(X) ==
  IF X \in DOMAIN observations THEN observations[X] \in DepKinds
  ELSE ~KnownNonDependency(X) /\ (KnownDependency(X) \/ X \in holds)
Category(X) ==
  IF X \in DOMAIN observations /\ ~Recategorized(X) THEN observations[X]
  ELSE IF TakenForDependency(X) THEN DependencyCategory(X) ELSE NonDependencyCategory(X)
-----------------------------------------------------------------------------
(* PickNextNode, after the node got its category: the unchecked sets it    *)
(* may go to, and those the maps give a category instead.                  *)
Put(X, cat) == [Y \in DOMAIN observations \cup {X} |-> IF Y = X THEN cat ELSE observations[Y]]
Unchecked(obs, X) ==
  CASE obs[X] = "candidate_dep" -> Below(X) \ DOMAIN obs
    [] obs[X] = "candidate_non_dep" -> Above(X) \ DOMAIN obs
    [] OTHER -> {}

Visit ==
  LET X == node
      cat == Category(X)
      is_new == X \notin DOMAIN observations
      is_dep == TakenForDependency(X)
      deps == IF is_new /\ is_dep THEN AddNewDependency(X) ELSE dependencies_map
      non_deps == IF is_new /\ ~is_dep THEN AddNewNonDependency(X) ELSE non_dependencies_map
      seen == Put(X, cat)
      unchecked == Unchecked(seen, X)
      known_non == {Y \in unchecked : \E Z \in non_deps : Y \subseteq Z}
      known_dep == {Y \in unchecked : cat = "candidate_non_dep" /\ \E Z \in deps : Z \subseteq Y}
      left == unchecked \ (known_non \cup known_dep)
      settled == cat \in {"candidate_dep", "candidate_non_dep"} /\ left = {} /\ known_non = {}
      final == IF ~settled THEN cat
               ELSE IF cat = "candidate_dep" THEN "minimal_dep" ELSE "maximal_non_dep"
  IN /\ node # {}
     /\ dependencies_map' = deps /\ non_dependencies_map' = non_deps
     /\ observations' = [Y \in DOMAIN seen \cup known_non \cup known_dep |->
                           IF Y = X THEN final ELSE IF Y \in known_dep THEN "dep"
                           ELSE IF Y \in known_non THEN "non_dep" ELSE seen[Y]]
     \* A category that InferCategory found is not put in the right set.
     /\ minimal_deps' = IF final = "minimal_dep" /\ (settled \/ (~Inferred(X) /\ (is_new \/ Recategorized(X))))
                        THEN minimal_deps \cup {X} ELSE minimal_deps
     /\ maximal_non_deps' =
          IF final = "maximal_non_dep" /\ (settled \/ (~Inferred(X) /\ (is_new \/ Recategorized(X))))
          THEN maximal_non_deps \cup {X} ELSE maximal_non_deps
     /\ \/ left # {} /\ node' \in left /\ trace' = Append(trace, X)
        \/ left = {} /\ trace # <<>> /\ node' = trace[Len(trace)]
           /\ trace' = SubSeq(trace, 1, Len(trace) - 1)
        \/ left = {} /\ trace = <<>> /\ node' = {} /\ trace' = trace
     /\ UNCHANGED <<holds, seeds>>

PopSeed ==
  /\ node = {} /\ seeds # {}
  /\ node' \in seeds /\ seeds' = seeds \ {node'}
  /\ UNCHANGED <<holds, observations, dependencies_map, non_dependencies_map, minimal_deps, maximal_non_deps, trace>>

Minimize(S) == {X \in S : ~\E Y \in S : Y \subseteq X /\ Y # X}
BugNextSeeds ==       \* a fault: seeds that are dependencies come again
  IF maximal_non_deps = {} THEN {}
  ELSE Minimize({X \in Sides : \A N \in maximal_non_deps : X \cap (Candidates \ N) # {}})
(* GenerateNextSeeds: the least sets not in any maximal non-dependency;    *)
(* the order in which those are taken does not matter.                     *)
NextSeeds ==
  LET hitting == Minimize({X \in Sides : \A N \in maximal_non_deps : X \cap (Candidates \ N) # {}})
  IN IF maximal_non_deps = {} THEN {} ELSE hitting \ minimal_deps
GenerateNextSeeds ==
  /\ node = {} /\ seeds = {} /\ NextSeeds # {}
  /\ seeds' = NextSeeds
  /\ UNCHANGED <<holds, observations, dependencies_map, non_dependencies_map, minimal_deps, maximal_non_deps, trace, node>>

Returned == node = {} /\ seeds = {} /\ NextSeeds = {}
DfdNext == Visit \/ PopSeed \/ GenerateNextSeeds

(* FindLHSs begins with the columns that are unique.  A column determined  *)
(* by nothing at all is registered without a search.                       *)
FindLHSs(h, unique) ==
  /\ holds = h
  /\ observations = [X \in unique |-> "minimal_dep"]
  /\ dependencies_map = unique /\ non_dependencies_map = {}
  /\ minimal_deps = unique /\ maximal_non_deps = {}
  /\ seeds = {{c} : c \in Candidates} /\ trace = <<>> /\ node = {}
UpSets(S) == {h \in SUBSET (S \ {{}}) : \A X \in h : \A Y \in S : X \subseteq Y => Y \in h}
DfdInit == \E h \in UpSets(Sides) : \E unique \in SUBSET {X \in h : Cardinality(X) = 1} : FindLHSs(h, unique)
DfdSpec == DfdInit /\ [][DfdNext]_dfd_vars /\ WF_dfd_vars(DfdNext)
-----------------------------------------------------------------------------
(* DFD's walk puts no set into the wrong category, and in the end it has   *)
(* found the least sets that determine the column, and no other.           *)
CategoriesAreTrue == \A X \in DOMAIN observations : observations[X] \in DepKinds <=> X \in holds
LeastAreFound == Returned => minimal_deps = Minimize(holds)
WalkIsRight == CategoriesAreTrue /\ LeastAreFound

(* The walk comes to an end.                                               *)
WalkReturns == <>[]Returned
=============================================================================
