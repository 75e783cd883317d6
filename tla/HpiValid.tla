------------------------------ MODULE HpiValid ------------------------------
(***************************************************************************)
(* HPIValid's search for unique column combinations                        *)
(* (src/src/core/algorithms/ucc/hpivalid): the sets of columns that hit    *)
(* all difference sets seen so far are enumerated, and one that is not     *)
(* unique brings new difference sets of rows that agree on it, picked at   *)
(* random, while the enumeration is under way.  An edge stands for itself, *)
(* a mark of edges for the set of them.                                    *)
(***************************************************************************)
EXTENDS Tables

CONSTANT ToView   \* the pairs a sample takes at most: round(pairs ^ 0.3)
ASSUME HpiAssumption == NumColumns \in Nat \ {0} /\ MaxValue \in Nat /\ ToView \in Nat

VARIABLES
  table, at,
  partial_hg_, unsampled,              \* the columns whose clusters are not sampled yet
  s, cand, crit, uncov, removed_critical_stack,
  intersection_stack, tointersect_queue,
  calls,                               \* of each call the columns to branch on, and those left
  check,                               \* what the last call returned
  uccs
hpiVars ==
  <<at, partial_hg_, unsampled, s, cand, crit, uncov, removed_critical_stack,
    intersection_stack, tointersect_queue, calls, check, uccs>>

MinimizeInclusion(E) == {e \in E : ~\E f \in E : f # e /\ f \subseteq e}
DifferenceSets(pairs) == MinimizeInclusion({Columns \ AgreeOn(table, p[1], p[2]) : p \in pairs})
PairsOf(pli) == UNION {{p \in K \X K : p[1] < p[2]} : K \in pli}
Samples(pli) ==
  {DifferenceSets(P) : P \in UNION {kSubset(n, PairsOf(pli)) : n \in 1 .. Min({ToView, Cardinality(PairsOf(pli))})}}

Hittings(v) == {e \in partial_hg_ : v \in e}
SFulfillsMinimalityCondition(marks) == \A i \in DOMAIN marks : marks[i] # {}
IsViolater(v) == \E i \in DOMAIN crit : crit[i] \subseteq Hittings(v)

HpiInit ==
  /\ at = "read" /\ partial_hg_ = {Columns} /\ unsampled = Columns
  /\ s = <<>> /\ cand = Columns /\ crit = <<>> /\ uncov = {} /\ removed_critical_stack = <<>>
  /\ intersection_stack = <<>> /\ tointersect_queue = <<>> /\ calls = <<>> /\ check = FALSE /\ uccs = {}
-----------------------------------------------------------------------------
(* Run: a sample of every column's clusters.                               *)
SampleColumn ==
  /\ at = "read" /\ unsampled # {} /\ Len(table) > 1
  /\ LET c == Min(unsampled)
     IN /\ \E edges \in IF CreateFor(table, c) = {} THEN {{}} ELSE Samples(CreateFor(table, c)) :
             partial_hg_' = MinimizeInclusion(partial_hg_ \cup edges)
        /\ unsampled' = unsampled \ {c}
  /\ UNCHANGED <<at, s, cand, crit, uncov, removed_critical_stack, intersection_stack, tointersect_queue, calls, check, uccs>>
StartSearch ==
  /\ at = "read" /\ unsampled = {}
  /\ at' = "cut" /\ uncov' = partial_hg_
  /\ UNCHANGED <<partial_hg_, unsampled, s, cand, crit, removed_critical_stack, intersection_stack, tointersect_queue, calls, check, uccs>>

(* The edge not hit with the fewest candidates; which of several does not  *)
(* follow from the edges alone.                                            *)
Cut ==
  /\ at = "cut" /\ at' = "branch"
  /\ \E e \in uncov :
       /\ \A f \in uncov : Cardinality(e \cap cand) <= Cardinality(f \cap cand)
       /\ calls' = Append(calls, [c |-> e \cap cand, rest |-> e \cap cand])
       /\ cand' = cand \ e
  /\ UNCHANGED <<partial_hg_, unsampled, s, crit, uncov, removed_critical_stack, intersection_stack, tointersect_queue, check, uccs>>

Call == Last(calls)
WithoutColumn(v) == [calls EXCEPT ![Len(calls)].rest = @ \ {v}]
Inner == Len(calls) > 1

Violater ==
  /\ at = "branch" /\ Call.rest # {} /\ Inner /\ IsViolater(Min(Call.rest))
  /\ calls' = WithoutColumn(Min(Call.rest))
  /\ UNCHANGED <<at, partial_hg_, unsampled, s, cand, crit, uncov, removed_critical_stack, intersection_stack, tointersect_queue, check, uccs>>

UpdateCritAndUncov(hit) ==
  /\ removed_critical_stack' = Append(removed_critical_stack, [i \in DOMAIN crit |-> crit[i] \cap hit])
  /\ crit' = Append([i \in DOMAIN crit |-> crit[i] \ hit], hit \cap uncov)
  /\ uncov' = uncov \ hit
Branch ==
  /\ at = "branch" /\ Call.rest # {} /\ (Inner => ~IsViolater(Min(Call.rest)))
  /\ LET v == Min(Call.rest)
     IN /\ UpdateCritAndUncov(Hittings(v))
        /\ s' = Append(s, v) /\ calls' = WithoutColumn(v)
        /\ IF Inner THEN tointersect_queue' = Append(tointersect_queue, v) /\ UNCHANGED intersection_stack
           ELSE intersection_stack' = Append(intersection_stack, CreateFor(table, v)) /\ UNCHANGED tointersect_queue
  /\ at' = "extend"
  /\ UNCHANGED <<partial_hg_, unsampled, cand, check, uccs>>

(* ExtendOrConfirmS, with an edge that is not hit, or with none.           *)
Extend ==
  /\ at = "extend" /\ uncov # {} /\ at' = "cut"
  /\ UNCHANGED <<partial_hg_, unsampled, s, cand, crit, uncov, removed_critical_stack, intersection_stack, tointersect_queue, calls, check, uccs>>

PullUpIntersections ==
  LET after[n \in 0 .. Len(tointersect_queue)] ==
        IF n = 0 THEN intersection_stack
        ELSE Append(after[n - 1], Intersect(Last(after[n - 1]), CreateFor(table, tointersect_queue[n])))
  IN after[Len(tointersect_queue)]
Confirm ==
  /\ at = "extend" /\ uncov = {}
  /\ intersection_stack' = PullUpIntersections /\ tointersect_queue' = <<>>
  /\ Last(intersection_stack') = {}
  /\ uccs' = uccs \cup {ToSet(s)} /\ check' = FALSE
  /\ at' \in {"return", "timeout"}
  /\ UNCHANGED <<partial_hg_, unsampled, s, cand, crit, uncov, removed_critical_stack, calls>>

(* Edges with a new one inside go everywhere, and the new ones are not hit *)
(* by anything.                                                            *)
(* A fault: the removed marks keep the edges that are no more.             *)
BugUpdateRemoved(supsets) == removed_critical_stack
UpdateRemoved(supsets) ==
  [d \in DOMAIN removed_critical_stack |->
     [i \in DOMAIN removed_critical_stack[d] |-> removed_critical_stack[d][i] \ supsets]]
UpdateEdges ==
  /\ at = "extend" /\ uncov = {}
  /\ intersection_stack' = PullUpIntersections /\ tointersect_queue' = <<>>
  /\ Last(intersection_stack') # {}
  /\ \E new_edges \in Samples(Last(intersection_stack')) :
       LET supsets == {e \in partial_hg_ : \E f \in new_edges : f \subseteq e}
       IN /\ partial_hg_' = (partial_hg_ \ supsets) \cup new_edges
          /\ uncov' = new_edges
          /\ crit' = [i \in DOMAIN crit |-> crit[i] \ supsets]
          /\ removed_critical_stack' = UpdateRemoved(supsets)
  /\ IF SFulfillsMinimalityCondition(crit') THEN at' = "cut" /\ UNCHANGED check
     ELSE at' = "return" /\ check' = TRUE
  /\ UNCHANGED <<unsampled, s, cand, calls, uccs>>

PopIntersection ==
  IF tointersect_queue = <<>> THEN intersection_stack' = Front(intersection_stack) /\ UNCHANGED tointersect_queue
  ELSE tointersect_queue' = Front(tointersect_queue) /\ UNCHANGED intersection_stack
RestoreCritAndUncov ==
  /\ uncov' = uncov \cup Last(crit)
  /\ crit' = [i \in 1 .. Len(crit) - 1 |-> crit[i] \cup Last(removed_critical_stack)[i]]
  /\ removed_critical_stack' = Front(removed_critical_stack)
(* Back in the caller, which gives up as well when a new edge has taken    *)
(* away what one of its columns is needed for.                             *)
Return ==
  /\ at = "return"
  /\ PopIntersection /\ RestoreCritAndUncov /\ s' = Front(s)
  /\ IF check /\ Inner /\ ~SFulfillsMinimalityCondition(crit')
       THEN cand' = cand \cup Call.c /\ calls' = Front(calls) /\ at' = "return"
       ELSE cand' = cand \cup {Last(s)} /\ at' = "branch" /\ UNCHANGED calls
  /\ UNCHANGED <<partial_hg_, unsampled, check, uccs>>
AllTried ==
  /\ at = "branch" /\ Call.rest = {}
  /\ cand' = cand \cup Call.c /\ calls' = Front(calls) /\ check' = FALSE
  /\ at' = IF Inner THEN "return" ELSE "done"
  /\ UNCHANGED <<partial_hg_, unsampled, s, crit, uncov, removed_critical_stack, intersection_stack, tointersect_queue, uccs>>

HpiNext ==
  /\ \/ SampleColumn \/ StartSearch \/ Cut \/ Violater \/ Branch \/ Extend \/ Confirm
     \/ UpdateEdges \/ Return \/ AllTried
  /\ UNCHANGED table
HpiSpec ==
  /\ table \in Seq([Columns -> 1 .. MaxValue]) /\ HpiInit
  /\ [][HpiNext]_<<table, hpiVars>>
-----------------------------------------------------------------------------
(* The marks are what they stand for, and no edge contains another.        *)
MarksAreRight ==
  /\ uncov = IF at = "read" THEN {} ELSE {e \in partial_hg_ : e \cap ToSet(s) = {}}
  /\ \A i \in DOMAIN s : crit[i] = {e \in partial_hg_ : e \cap ToSet(s) = {s[i]}}
  /\ MinimizeInclusion(partial_hg_) = partial_hg_

(* The rows that agree on X, two or more each, by definition.              *)
ClustersOf(X) ==
  {K \in {{q \in Rows(table) : X \subseteq AgreeOn(table, q, r)} : r \in Rows(table)} : Cardinality(K) > 1}
IntersectionIsRight ==
  s # <<>> => Last(PullUpIntersections) = ClustersOf(ToSet(s))

(* The marks follow the edges whatever is added or taken away, and so does *)
(* the intersection the set; no set is found that is not unique or that    *)
(* another one makes redundant, and without a timeout all are found.       *)
UccsAreRight ==
  /\ MarksAreRight /\ IntersectionIsRight
  /\ uccs \subseteq MinimalUccs(table)
  /\ at = "done" => uccs = MinimalUccs(table)

(* The search comes to an end.                                             *)
SearchReturns == at = "extend" ~> at \in {"done", "timeout"}
=============================================================================
