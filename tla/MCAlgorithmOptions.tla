-------------------------- MODULE MCAlgorithmOptions ------------------------
(***************************************************************************)
(* AlgorithmOptions for three verifiers, with few values per option: a     *)
(* chain of conditional options whose checks and defaults read each        *)
(* other's values (PAC), conditional options that depend on the values of  *)
(* two others (metric), and two options each required only while the other *)
(* is not set (AOD).                                                       *)
(***************************************************************************)
EXTENDS AlgorithmOptions, VerifierOptions

AllNames(a) ==
  CASE a = "pac" -> PacNames [] a = "metric" -> MetricNames [] a = "aod" -> AodNames
AllLoad(a) ==
  CASE a = "pac" -> PacLoad [] a = "metric" -> MetricLoad [] a = "aod" -> AodLoad
AllExecute(a) ==
  CASE a = "pac" -> PacExecute [] a = "metric" -> MetricExecute [] a = "aod" -> AodExecute
AllOffered(o) ==
  CASE o = "min_eps"          -> {0, 20}
    [] o = "max_eps"          -> {10, 30}
    [] o = "min_delta"        -> {5, 11}
    [] o = "delta_steps"      -> {}
    [] o = "metric"           -> {"euclidean", "levenshtein", "cosine"}
    [] o = "rhs_indices"      -> {"number", "text", "plane"}
    [] o = "metric_algorithm" -> {"brute", "calipers"}
    [] o = "q"                -> {"zero", "three"}
    [] o = "oc_left_ordering" -> {"desc"}
    [] o = "oc_context"       -> {"in", "out"}
    [] OTHER                  -> {"in"}

AllKeywords(a, p) ==
  IF p = "load" THEN AllLoad(a) \cup (AllNames(a) \cap {"column_indices"})
  ELSE AllNames(a) \ (AllLoad(a) \cup {"column_indices"})

AllDefault(o, field) ==
  CASE o \in PacNames    -> PacDefault(o, field)
    [] o \in MetricNames -> MetricDefault(o, field)
    [] o \in AodNames    -> AodDefault(o, field)

AllAccepts(o, v, field) ==
  CASE o \in PacNames    -> PacAccepts(o, v, field)
    [] o \in MetricNames -> MetricAccepts(o, v, field)
    [] o \in AodNames    -> AodAccepts(o, v, field)

AllCondOpts(o, v, field) ==
  CASE o \in PacNames    -> PacCondOpts(o, v, field)
    [] o \in MetricNames -> MetricCondOpts(o, v, field)
    [] o \in AodNames    -> AodCondOpts(o, v, field)

AllRequired(o, set) == o \in AodNames => AodRequired(o, set)

(* assert(!(metric_ == Metric::kEuclidean && rhs_indices_.size() == 1)) at *)
(* the start of algo_check: the algorithm is only asked for, and checked,  *)
(* when the metric and the right-hand side call for one.                   *)
AlgoCheckAssertion ==
  last.option = "metric_algorithm" /\ last.result \in {"ok", "rejected"}
    => ~(opts.field["metric"] = "euclidean" /\ opts.field["rhs_indices"] \in OneColumn)

(* It holds while options are set through keyword arguments only, whatever *)
(* calls fail.                                                             *)
AlgoCheckInCalls == disturbed # "forever" => AlgoCheckAssertion

(* Keyword arguments that describe an OC, or an OFD, are enough: the       *)
(* context that was not given is not asked for, although both were needed  *)
(* when the first pass began.                                              *)
Describes(r, context) ==
  r[context] = "in" /\ \A c \in AodCondOpts(context, "in", r) :
                         AodDefault(c, r) # {} \/ r[c] # NoValue

OneContextIsEnough ==
  [][/\ opts.algorithm = "aod"
     /\ disturbed = "no" /\ loaded /\ purpose = "execute"
     /\ \/ Describes(request, "oc_context") /\ request["ofd_context"] = NoValue
        \/ Describes(request, "ofd_context") /\ request["oc_context"] = NoValue
     /\ stage # "call"
     => stage' # "idle"]_optionVars
=============================================================================
