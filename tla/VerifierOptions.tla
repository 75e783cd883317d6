-------------------------- MODULE VerifierOptions ---------------------------
(***************************************************************************)
(* What three verifiers register as their options: data for                *)
(* AlgorithmOptions.                                                       *)
(***************************************************************************)
EXTENDS Integers
-----------------------------------------------------------------------------
(* The options a DomainPACVerifier registers                               *)
(* (src/src/core/algorithms/pac/pac_verifier/pac_verifier.cpp and          *)
(* domain_pac_verifier/domain_pac_verifier.h).  Real numbers are counted   *)
(* in tenths; the diagonal threshold, which nothing depends on, is left    *)
(* out.                                                                    *)

PacNames == {"pac_table", "column_indices", "domain",
             "min_eps", "max_eps", "min_delta", "delta_steps"}
PacLoad    == {"pac_table", "domain"}
PacExecute == {"min_eps"}

DefaultMinDelta == 9

PacDefault(o, field) ==
  CASE o = "min_eps" -> {0}
    [] o = "max_eps" -> {-10}
    [] o = "min_delta" ->
         {IF field["min_eps"] > 0 \/ field["max_eps"] >= 0 THEN 0
          ELSE DefaultMinDelta}
    [] o = "delta_steps" -> {(10 - field["min_delta"]) * 100}
    [] OTHER -> {}

PacAccepts(o, v, field) ==
  CASE o = "min_eps"   -> v >= 0
    [] o = "max_eps"   -> ~(v > 0 /\ v < field["min_eps"])
    [] o = "min_delta" -> v <= 10
    [] OTHER           -> TRUE

PacCondOpts(o, v, field) ==
  CASE o = "pac_table"     -> {"column_indices"}
    [] o = "min_eps"   -> {"max_eps"}
    [] o = "max_eps"   -> {"min_delta"}
    [] o = "min_delta" -> {"delta_steps"}
    [] OTHER           -> {}

PacRequired(o, set) == TRUE
-----------------------------------------------------------------------------
(* The options a MetricVerifier registers                                  *)
(* (src/src/core/algorithms/metric/metric_verifier.cpp) whose conditions   *)
(* or checks depend on each other.  A right-hand side is "number" or       *)
(* "text" (one column of that type), "mixed" (one column of neither),      *)
(* "plane" or "space" (two, three numeric columns).                         *)

MetricNames == {"metric_table", "metric", "rhs_indices", "metric_algorithm", "q"}
MetricLoad    == {"metric_table"}
MetricExecute == {"metric"}

OneColumn == {"number", "text", "mixed"}

MetricDefault(o, field) == IF o = "q" THEN {"two"} ELSE {}

ValidateRhs(rhs, metric) ==
  IF metric = "euclidean" THEN rhs \in {"number", "plane", "space"}
  ELSE rhs = "text"

AlgoCheck(algo, field) ==
  algo = "calipers" => field["metric"] = "euclidean" /\ field["rhs_indices"] = "plane"

MetricAccepts(o, v, field) ==
  CASE o = "rhs_indices"      -> ValidateRhs(v, field["metric"])
    [] o = "metric_algorithm" -> AlgoCheck(v, field)
    [] o = "q"                -> v # "zero"
    [] OTHER                  -> TRUE

(* Mutant: need_algo_only does not look at the size *)
BugRhsCondOpts(rhs, metric) ==
  IF metric = "cosine" THEN {"metric_algorithm", "q"} ELSE {"metric_algorithm"}

(* need_algo_and_q, need_algo_only                                         *)
RhsCondOpts(rhs, metric) ==
  CASE metric = "cosine" -> {"metric_algorithm", "q"}
    [] metric = "levenshtein" -> {"metric_algorithm"}
    [] metric = "euclidean" /\ rhs \notin OneColumn -> {"metric_algorithm"}
    [] OTHER -> {}

MetricCondOpts(o, v, field) ==
  CASE o = "metric"      -> {"rhs_indices"}
    [] o = "rhs_indices" -> RhsCondOpts(v, field["metric"])
    [] OTHER             -> {}

MetricRequired(o, set) == TRUE
-----------------------------------------------------------------------------
(* The options a SetBasedAodVerifier registers                             *)
(* (src/src/core/algorithms/od/set_based_verifier/verifier.cpp): the       *)
(* context of an OC is required unless the one of an OFD is set, and the   *)
(* other way round.  An index is "in" or "out" of the table's range; the   *)
(* left and the right index of an OC are one option here.                  *)

AodNames == {"aod_table", "oc_context", "oc_indices", "oc_left_ordering",
             "ofd_context", "ofd_right_index"}
AodLoad    == {"aod_table"}
AodExecute == {"oc_context", "ofd_context"}

AodDefault(o, field) == IF o = "oc_left_ordering" THEN {"asc"} ELSE {}

AodAccepts(o, v, field) ==
  o \in AodNames \ {"aod_table", "oc_left_ordering"} => v = "in"

AodCondOpts(o, v, field) ==
  CASE o = "oc_context"  -> {"oc_indices", "oc_left_ordering"}
    [] o = "ofd_context" -> {"ofd_right_index"}
    [] OTHER             -> {}

AodRequired(o, set) ==
  CASE o = "oc_context"  -> "ofd_context" \notin set
    [] o = "ofd_context" -> "oc_context" \notin set
    [] OTHER             -> TRUE
=============================================================================
