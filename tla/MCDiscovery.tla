----------------------------- MODULE MCDiscovery ----------------------------
(***************************************************************************)
(* The algorithms other than the miners of functional dependencies and     *)
(* unique columns, each on every input of some shapes: one table or two,   *)
(* rows in an order where no algorithm depends on it.  By itself, the      *)
(* domain manager of the IND miners on streams of blocks, and the dynamic  *)
(* verification of a functional dependency, the values of whose sides are  *)
(* interchangeable.                                                        *)
(***************************************************************************)
EXTENDS DiscoveryTables, TLC

OR == INSTANCE Order
FO == INSTANCE FastOd WITH MinMeaningfulRangeSize <- 2
SD == INSTANCE Sd
AP == INSTANCE Apriori
FA == INSTANCE FastAdc
ST == INSTANCE Statistics

MCColumnCounts == <<2, 1>>

Symmetry == Permutations(LhsValues) \cup Permutations(RhsValues)

(* Strings of spaces, letters of both cases, digits and the like: a null   *)
(* is the code 0.                                                          *)
Codes == {32, 65, 98, 35}
Strings == {<<>>, <<0>>, <<65, 32, 98>>, <<9, 55, 65>>} \cup (UNION {[1 .. n -> Codes] : n \in {1, 2}})
MCShapes ==
  { Shape("inds", <<Table(2, 0 .. 2, 2), Table(2, 0 .. 2, 2)>>),
    Shape("inds", <<Table(3, 0 .. 1, 2), Table(3, 0 .. 1, 2)>>),
    Shape("inds", <<Table(4, 0 .. 1, 2)>>),
    Shape("orders", <<Table(3, 1 .. 2, 4)>>), Shape("orders", <<AnyOrder(Table(2, 1 .. 2, 4))>>),
    Shape("orders", <<Table(4, 1 .. 2, 2)>>), Shape("orders", <<Table(3, 1 .. 3, 3)>>),
    Shape("orders", <<Table(2, 0 .. 2, 3)>>),
    Shape("gaps", <<AnyOrder(Table(1, -1 .. 5, 4))>>), Shape("gaps", <<AnyOrder(Table(2, 0 .. 2, 3))>>),
    Shape("verify", <<AnyOrder(Table(2, 0 .. 2, 4))>>), Shape("verify", <<Table(3, 0 .. 1, 4)>>),
    Shape("rules", <<Table(5, 0 .. 1, 2)>>), Shape("rules", <<Table(4, 0 .. 1, 3)>>),
    Shape("cells", <<AnyOrder(Table(1, DOMAIN ST!Accepts \cup {"null", "empty"}, 3))>>),
    Shape("numbers", <<AnyOrder(Table(1, -2 .. 4, 4))>>), Shape("texts", <<AnyOrder(Table(1, Strings, 2))>>),
    Shape("denials", <<Table(2, 0 .. 2, 3)>>), Shape("denials", <<Table(2, 0 .. 1, 4)>>) }

-----------------------------------------------------------------------------
(* FASTOD, ORDER and the verifier of order dependencies, on ranks.         *)
AreRanks(t) == \A c \in DOMAIN t[1] : \A r \in DOMAIN t : t[r][c] <= 1 \/ \E s \in DOMAIN t : t[s][c] = t[r][c] - 1
OdsAreRight ==
  Read("orders") /\ AreRanks(tables[1]) => FO!CanonicalAreRight(tables[1]) /\ OR!ListsAreRight(tables[1])

(* The verifier of sequential dependencies: on the values of a column as   *)
(* they come, and on two columns, all rows and some.                       *)
Gaps == {SD!Gap(0, 1), SD!Gap(0, 3), SD!Gap(0, -1), SD!Gap(1, 1), SD!Gap(2, 2), SD!Gap(1, 2), SD!Gap(2, 3), SD!Gap(3, 4), SD!Gap(2, -1)}
SdIsRight ==
  Read("gaps") => \A g \in Gaps :
    IF Columns(tables[1]) = 1 THEN SD!OpsAreRight([r \in DOMAIN tables[1] |-> tables[1][r][1]], g)
    ELSE SD!RowsAreRight(tables[1], g)

(* What is said of the order of rows, by columns or by gaps between them,  *)
(* is so.                                                                  *)
OrdersAreRight == OdsAreRight /\ SdIsRight

(* The statistics of a column, and the type its cells give it: of numbers  *)
(* 3 is null and 4 empty.                                                  *)
Column(t, values, type, null) ==
  LET given == {r \in DOMAIN t : t[r][1] \in values} IN
  [type |-> IF given = {} THEN "undefined" ELSE type, rows |-> Len(t), nulls |-> {r \in DOMAIN t : t[r][1] = null},
   data |-> [r \in given |-> t[r][1]]]
StatisticsAreRight ==
  /\ Read("cells") => ST!TypesAreRight([r \in DOMAIN tables[1] |-> tables[1][r][1]])
  /\ Read("numbers") => ST!NumbersAreRight(Column(tables[1], -2 .. 2, "int", 3))
  /\ Read("texts") => ST!TextsAreRight(Column(tables[1], Strings \ {<<>>, <<0>>}, "string", <<0>>))

(* Apriori, a row the set of the columns with a 1 in it.                   *)
Transactions(t) == [r \in DOMAIN t |-> {c \in DOMAIN t[r] : t[r][c] = 1}]
ArsAreRight ==
  Read("rules") => \A minsup \in {<<1, 3>>, <<1, 2>>}, minconf \in {<<1, 2>>, <<1, 1>>} :
                     AP!AprioriIsRight(Transactions(tables[1]), minsup, minconf)

(* FastADC: what it finds of the pairs of rows, in shards of two or three  *)
(* rows, on all tables; the constraints on those with few values and rows. *)
DcOptions(cross, threshold, length) ==
  [allow_cross_columns |-> cross, minimum_shared_value |-> <<3, 10>>, comparable_threshold |-> <<1, 10>>,
   evidence_threshold |-> threshold, shard_length |-> length, threads |-> length = 2]
Typed(t, numeric) == [rows |-> t, numeric |-> numeric]
IsSmall(t) == Len(t) \in {2, 3} /\ \A r \in DOMAIN t : Range(t[r]) \subseteq {0, 1}
DenialsAreRight ==
  Read("denials") =>
    /\ \A numeric \in SUBSET {1, 2}, length \in {0, 2, 3} :
         length <= Len(tables[1]) => FA!PairsAreRight(Typed(tables[1], numeric), DcOptions(TRUE, <<0, 1>>, length))
    /\ IsSmall(tables[1]) =>
         /\ FA!DcsAreRight(Typed(tables[1], {1, 2}), DcOptions(FALSE, <<0, 1>>, 0))
         /\ FA!DcsAreRight(Typed(tables[1], {1}), DcOptions(FALSE, <<1, 6>>, 0))
         /\ FA!DcsAreRight(Typed(tables[1], {}), DcOptions(TRUE, <<1, 6>>, 0))

(* What Apriori finds are rules, and all those with at most three items on *)
(* the right are found; the denial constraints that FastADC finds are all  *)
(* there are; and the statistics of a column are its own, where computing  *)
(* them does not end at the assertion on the share of zeros.               *)
ReportsAreRight == ArsAreRight /\ DenialsAreRight /\ StatisticsAreRight

(* "finds minimum deletions + insertions" (sd_verifier.cpp:348): the       *)
(* verifier's operations are as few as possible, on positive values at     *)
(* least.                                                                  *)
OpsAreMinimal ==
  Read("gaps") /\ Columns(tables[1]) = 1 /\ (\A r \in DOMAIN tables[1] : tables[1][r][1] > 0) =>
    \A g \in Gaps : SD!OpsAreLeast([r \in DOMAIN tables[1] |-> tables[1][r][1]], g)
=============================================================================
