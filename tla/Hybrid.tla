------------------------------- MODULE Hybrid -------------------------------
(***************************************************************************)
(* What HyFD and HyUCC share (src/src/core/algorithms/fd/hycommon): the    *)
(* preprocessed table and the sampler of agree sets.  Columns are numbered *)
(* after sorting by Preprocess, and a record holds the cluster of its row  *)
(* in each.  Where std::sort and the queue leave equal elements in any     *)
(* order, two are tried: up and down.                                      *)
(***************************************************************************)
EXTENDS Tables

Singleton == MaxRows + 1      \* kSingletonClusterId, greater than every cluster
IsConstantIn(p, i) == Len(p.records) <= 1 \/ \E k \in DOMAIN p.plis[i] : Len(p.plis[i][k]) = Len(p.records)

(* Preprocess: the columns with the most clusters first.                   *)
Preprocess(t, up) ==
  LET clusters == [c \in Columns |-> NumCluster(t, CreateFor(t, c))]
      before(b, c) == clusters[b] > clusters[c] \/ (clusters[b] = clusters[c] /\ (IF up THEN b < c ELSE c < b))
      og == Sorted(Columns, before)
      ByFirst(K, L) == Min(K) < Min(L)
      pli == Tuple([i \in Columns |-> Sorted(CreateFor(t, og[i]), ByFirst)])
      id(r, i) == IF \E K \in Range(pli[i]) : r \in K
                  THEN CHOOSE k \in DOMAIN pli[i] : r \in pli[i][k] ELSE Singleton
  IN [up |-> up, og |-> og, records |-> Tuple([r \in Rows(t) |-> Tuple([i \in Columns |-> id(r, i)])]),
      plis |-> Tuple([i \in Columns |-> Tuple([k \in DOMAIN pli[i] |-> Sorted(pli[i][k], <)])])]
Restored(p, X) == {p.og[i] : i \in X}

Match(p, r, s) == {i \in Columns : p.records[r][i] = p.records[s][i] /\ p.records[r][i] # Singleton}

(* SortClusters: each column's clusters by its two neighbours, descending. *)
Neighbor(i, d) == ((i - 1 + d + NumColumns) % NumColumns) + 1
SortClusters(p) ==
  LET key(i, r) == <<p.records[r][Neighbor(i, -1)], p.records[r][Neighbor(i, 1)]>>
      before(i, r, s) ==
        \/ key(i, r)[1] > key(i, s)[1]
        \/ key(i, r)[1] = key(i, s)[1] /\ key(i, r)[2] > key(i, s)[2]
        \/ key(i, r) = key(i, s) /\ (IF p.up THEN r < s ELSE s < r)
  IN IF NumColumns < 3 THEN p
     ELSE [p EXCEPT !.plis = Tuple([i \in Columns |-> Tuple([k \in DOMAIN p.plis[i] |->
             Sorted(Range(p.plis[i][k]), LAMBDA r, s : before(i, r, s))])])]
-----------------------------------------------------------------------------
(* The sampler: total and new agree sets, the queue of windows that still  *)
(* found something, its threshold (a fraction), whether it has a pool, and *)
(* whether it had one when it made one, where the assertion in             *)
(* GetAgreeSets ends the execution.                                        *)
NewSampler == [total |-> {}, new |-> {}, queue |-> {}, threshold |-> <<1, 100>>, pool |-> FALSE, reused |-> FALSE]
Efficiency(i) == [attr |-> i, violations |-> 0, comparisons |-> 0, window |-> 0]
CalcEfficiency(e) == IF e.comparisons = 0 THEN <<0, 1>> ELSE <<e.violations, e.comparisons>>
Below(e, f) == e[1] * f[2] < f[1] * e[2]
Add(s, sets) == [s EXCEPT !.total = @ \cup sets, !.new = @ \cup (sets \ s.total)]

(* RunWindow: each row of a cluster against the one a window further.      *)
Compared(p, e) ==
  UNION {{<<p.plis[e.attr][k][i], p.plis[e.attr][k][i + e.window]>> : i \in 1 .. Len(p.plis[e.attr][k]) - e.window} :
           k \in DOMAIN p.plis[e.attr]}
RunWindow(p, s, e) ==
  LET slid == [e EXCEPT !.window = @ + 1]
      next == Add(s, {Match(p, c[1], c[2]) : c \in Compared(p, slid)})
      violations == Cardinality(next.new) - Cardinality(s.new)
  IN [sampler |-> next, efficiency |-> [slid EXCEPT !.violations = violations,
                                                   !.comparisons = Cardinality(Compared(p, slid))]]
Push(s, e) == IF CalcEfficiency(e)[1] > 0 THEN [s EXCEPT !.queue = @ \cup {e}] ELSE s
Top(p, s) ==
  LET best == {e \in s.queue : \A f \in s.queue : ~Below(CalcEfficiency(e), CalcEfficiency(f))}
  IN CHOOSE e \in best : \A f \in best : IF p.up THEN e.attr <= f.attr ELSE e.attr >= f.attr

(* In parallel the tasks keep their matches to themselves, so none of them *)
(* sees a violation and nothing is pushed.                                 *)
Initialized(p, s, parallel) ==
  LET run(acc, i) ==
        LET w == RunWindow(p, acc, Efficiency(i)) IN IF parallel THEN w.sampler ELSE Push(w.sampler, w.efficiency)
      ran == FoldLeft(run, [s EXCEPT !.pool = parallel, !.reused = @ \/ s.pool], [i \in Columns |-> i])
      half == CalcEfficiency(Top(p, ran))
  IN IF ran.queue = {} THEN ran
     ELSE [ran EXCEPT !.threshold = IF Below(<<half[1], 2 * half[2]>>, <<1, 100>>) THEN <<half[1], 2 * half[2]>> ELSE <<1, 100>>]
Lowered(p, s) ==
  LET top == CalcEfficiency(Top(p, s))
      half == <<s.threshold[1], 2 * s.threshold[2]>>
      ninth == <<top[1] * 9, top[2] * 10>>
  IN [s EXCEPT !.threshold = IF Below(half, ninth) THEN half ELSE ninth]

RECURSIVE Drain(_, _)
Drain(p, s) ==
  LET best == Top(p, s)
      w == RunWindow(p, [s EXCEPT !.queue = @ \ {best}], best)
  IN IF s.queue = {} THEN s
     ELSE IF Below(CalcEfficiency(best), s.threshold) THEN s
     ELSE Drain(p, Push(w.sampler, w.efficiency))

(* Sampler::GetAgreeSets, the new ones in "found".                         *)
GetAgreeSets(p, s, suggestions, parallel) ==
  LET suggested == Add(s, {Match(p, c[1], c[2]) : c \in suggestions})
      sorted == IF s.queue = {} THEN SortClusters(p) ELSE p
      began == IF s.queue = {} THEN Initialized(sorted, suggested, parallel) ELSE Lowered(p, suggested)
      drained == Drain(sorted, began)
  IN [prep |-> sorted, found |-> drained.new, sampler |-> [drained EXCEPT !.new = {}]]

(* BuildClustersIdentifier: none for a row alone in its class somewhere.   *)
SameClusters(p, X, r, s) == X \subseteq Match(p, r, s)
(* The rows of the index of X's first column, in order; the first other    *)
(* row of its group that a row is compared with.                           *)
InOrder(p, X) == FlattenSeq(p.plis[Min(X)])
Pivot(p, X, k) ==
  LET rows == InOrder(p, X) IN Min({j \in 1 .. k : SameClusters(p, X, rows[j], rows[k])} \cup {k})
=============================================================================
