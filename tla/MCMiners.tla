------------------------------ MODULE MCMiners ------------------------------
(***************************************************************************)
(* The miners of one relation, on every table within the bounds: rows in   *)
(* an order (no miner depends on it), values named in the order they come  *)
(* up, fewer of them in the later rows.  By itself, DFD's walk for the     *)
(* first column, whatever determines it; HPIValid's search on every table  *)
(* of two values a column, whatever it samples; and the containers of sets *)
(* after every few operations.                                             *)
(***************************************************************************)
EXTENDS Dfd, HpiValid

LM == INSTANCE LatticeMiners
AG == INSTANCE AgreeSets
HF == INSTANCE HyFd
HU == INSTANCE HyUcc
NC == INSTANCE NegativeCovers
SC == INSTANCE SetContainers WITH BitsPerWord <- 2

VARIABLES
  part,
  history       \* operations on a container of sets

LexLess(a, b) == \E c \in Columns : a[c] < b[c] /\ \A d \in 1 .. c - 1 : a[d] = b[d]
NextValue(t, c) == Max({0} \cup {t[r][c] : r \in Rows(t)}) + 1
ValuesOf(t, c) == 1 .. Min({MaxValue, NextValue(t, c), 6 - Len(t) - 1})

AddRow(row) ==
  /\ Len(table) < MaxRows
  /\ \A c \in Columns : row[c] \in ValuesOf(table, c)
  /\ table # <<>> => ~LexLess(row, Last(table))
  /\ table' = Append(table, row)

NoWalk ==
  /\ holds = {} /\ observations = [X \in {} |-> ""] /\ dependencies_map = {} /\ non_dependencies_map = {}
  /\ minimal_deps = {} /\ maximal_non_deps = {} /\ seeds = {} /\ trace = <<>> /\ node = {}

(* Up to three operations on sets of three columns, and then the removal   *)
(* of one that is there.                                                   *)
SetColumns == 0 .. 2
Operate ==
  \E op \in {"put", "remove"}, key \in SUBSET SetColumns :
    /\ Len(history) < 3 \/ (Len(history) = 3 /\ op = "remove" /\ key \in SC!Present(history, 3))
    /\ history' = Append(history, [op |-> op, key |-> key])

MinersInit ==
  /\ table = <<>> /\ history = <<>> /\ HpiInit
  /\ \/ part \in {"tables", "search", "sets"} /\ NoWalk
     \/ part = "walk" /\ DfdInit
MinersNext ==
  /\ UNCHANGED part /\ (part # "sets" => UNCHANGED history)
  /\ \/ part = "sets" /\ Operate /\ UNCHANGED <<table, dfd_vars, hpiVars>>
     \/ /\ part = "tables" /\ UNCHANGED <<dfd_vars, hpiVars>>
        /\ \E row \in [Columns -> 1 .. MaxValue] : AddRow(row)
     \/ part = "walk" /\ DfdNext /\ UNCHANGED <<table, hpiVars>>
     \/ /\ part = "search" /\ unsampled = Columns /\ UNCHANGED <<dfd_vars, hpiVars>>
        /\ \E row \in [Columns -> 1 .. 2] : AddRow(row)
     \/ part = "search" /\ HpiNext /\ UNCHANGED dfd_vars
minersVars == <<part, table, history, dfd_vars, hpiVars>>
MinersSpec ==
  /\ MinersInit /\ [][MinersNext]_minersVars
  /\ WF_minersVars(part = "walk" /\ MinersNext) /\ WF_minersVars(part = "search" /\ at # "read" /\ MinersNext)
-----------------------------------------------------------------------------
Exact(minimal, bounds, Found(_)) == \A max_lhs \in bounds : Found(max_lhs) = UpTo(max_lhs, minimal)
FindMinimal(t, minimal, agree_sets) ==
  /\ Exact(minimal, 0 .. NumColumns, LAMBDA m : LM!TaneFds(t, "g1", <<0, 1>>, m))
  /\ Exact(minimal, {1, NumColumns}, LAMBDA m : LM!FunFds(t, m))
  /\ Exact(minimal, {1, NumColumns}, LAMBDA m : NC!FDepFds(t, m))
  /\ Exact(minimal, {1, NumColumns}, LAMBDA m : AG!DepminerFds(t, agree_sets, m))
  /\ Exact(minimal, {1, NumColumns}, LAMBDA m : AG!FastFdsFds(t, agree_sets, m))

(* TANE, FUN, FDep, and DepMiner and FastFDs on all agree sets, find the   *)
(* minimal dependencies, and with a bound on the left side those within    *)
(* it, and so does AID-FD; what FD_Mine finds holds, and implies all that  *)
(* does but what an empty left side determines; and EulerFD finds what the *)
(* pairs of rows that it can sample allow.                                 *)
MinersAreRight ==
  part = "tables" /\ Len(table) > 1 =>
    /\ FindMinimal(table, MinimalFds(table), AG!AgreeSetsOf(table))
    /\ NC!AidIsRight(table) /\ NC!EulerIsRight(table)
    /\ \A ascending \in BOOLEAN :
         LET fds == LM!FdMineFds(table, NumColumns, ascending)
         IN /\ \A f \in fds : Holds(table, f[1], f[2])
            /\ \A A \in Columns : \A X \in (SUBSET (Columns \ {A})) \ {{}} :
                 Holds(table, X, A) => \E f \in fds : f[2] = A /\ f[1] \subseteq X

(* HyFD and HyUCC find what is minimal, whichever of equal elements their  *)
(* sorting puts first and with or without threads, when their validators   *)
(* have been through all levels and the sampler has not made a second pool *)
(* of threads (it asserts that it has none, and the execution ends there). *)
RightHybrid(t, fds, unique) ==
  \A parallel \in BOOLEAN, up \in BOOLEAN :
    /\ \A max_lhs \in IF parallel THEN {NumColumns} ELSE {1, NumColumns} :
         LET r == HF!HyFd(t, parallel, up, max_lhs) IN r.done /\ ~r.reused => r.fds = UpTo(max_lhs, fds)
    /\ LET r == HU!HyUcc(t, parallel, up) IN r.done /\ ~r.reused => r.uccs = unique
HybridIsRight == part = "tables" /\ Len(table) > 1 => RightHybrid(table, MinimalFds(table), MinimalUccs(table))

(* Of the ways to find the agree sets, those that do not go by             *)
(* CalculateSupersets find them all, and the others invent none.           *)
AgreeSetsAreRight ==
  LET exact == {"HandleEqvClass", "HandlePartition"}
  IN part = "tables" =>
     /\ \A mc \in exact : AG!GenPliMaxRepresentation(table, mc) = AG!MaximalClasses(table)
     /\ \A method \in AG!AsMethods, mc \in AG!McMethods :
          LET agree_sets == AG!GenAgreeSets(table, method, mc)
          IN IF mc \in exact \/ method = "GetAgreeSet" THEN agree_sets = AG!AgreeSetsOf(table)
             ELSE agree_sets \subseteq AG!AgreeSetsOf(table)

(* Bitsets, maps from sets and search trees of sets keep what they were    *)
(* given, and find what they are asked for; and so do the ways to find the *)
(* agree sets.                                                             *)
ContainersAreRight ==
  part = "sets" =>
    /\ SC!MapIsRight(history, SetColumns) /\ SC!TreeIsRight(history, SetColumns)
    /\ history = <<>> => SC!BitsetsAreRight(6)
SetsAreRight == ContainersAreRight /\ AgreeSetsAreRight

(* The measures are zero exactly when the dependency holds, and g1, g2 and *)
(* g3 are what they are defined as.                                        *)
MeasuresAreRight == part = "tables" => LM!MeasuresAreRight(table)

(* DFD's walk and HPIValid's search come to an end.                        *)
SearchesEnd == WalkReturns /\ SearchReturns

(* agree_set_factory.h:97-105: every way to find the maximal classes leads *)
(* to the agree sets of the relation.                                      *)
SupersetsKeepAll ==
  part = "tables" =>
    \A mc \in AG!McMethods : AG!GenAgreeSets(table, "MapOfIDSets", mc) = AG!AgreeSetsOf(table)

(* hyfd.h:18-32: the validator validates the dependencies and specializes  *)
(* the incorrect candidates; on six rows of six columns it does not come   *)
(* to all of them.                                                         *)
SixRows ==
  << <<1, 2, 2, 2, 2, 2>>, <<1, 2, 1, 2, 2, 2>>, <<1, 4, 1, 3, 2, 1>>,
     <<1, 2, 1, 2, 2, 1>>, <<1, 2, 3, 3, 1, 1>>, <<2, 9, 9, 9, 9, 9>> >>
SixRowsSpec == part = "tables" /\ table = SixRows /\ history = <<>> /\ NoWalk /\ HpiInit /\ [][MinersNext]_minersVars
OnlyFdsAreFound == \A f \in HF!HyFd(table, FALSE, TRUE, NumColumns).fds : Holds(table, f[1], f[2])
=============================================================================
