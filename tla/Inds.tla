-------------------------------- MODULE Inds --------------------------------
(***************************************************************************)
(* Inclusion dependencies between the columns of some tables               *)
(* (src/src/core/algorithms/ind): Spider, which goes through the sorted    *)
(* domains of all columns at once and finds the unary ones, exact or with  *)
(* an error, Mind, which goes on to wider ones level by level, and the     *)
(* verifier.  A column is <<its table, its index>>; 0 is the empty string. *)
(***************************************************************************)
EXTENDS Integers, Sequences, FiniteSets, FiniteSetsExt, SequencesExt

EmptyCell == 0
AsTuple(s) == SubSeq(s, 1, Len(s))
Precedes(a, b) == a[1] < b[1] \/ (a[1] = b[1] /\ a[2] < b[2])

Projection(t, cols) == {[i \in DOMAIN cols |-> t[r][cols[i]]] : r \in DOMAIN t}
Domain(ts, a) == {ts[a[1]][r][a[2]] : r \in DOMAIN ts[a[1]]}
ColumnsOf(ts) == UNION {{<<i, c>> : c \in DOMAIN ts[i][1]} : i \in DOMAIN ts}
(* Columns of empty strings only have no domain.                           *)
Attributes(ts) == {a \in ColumnsOf(ts) : Domain(ts, a) # {EmptyCell}}
-----------------------------------------------------------------------------
(* Spider.  Of each attribute the values not yet passed, the current one   *)
(* being the least; the queue holds those with a current value.            *)
InitAttributes(ts, attrs) ==
  [queue |-> attrs, rest |-> [a \in attrs |-> Domain(ts, a)],
   refs |-> [a \in attrs |-> attrs \ {a}], deps |-> [a \in attrs |-> attrs \ {a}],
   occurrences |-> [a \in attrs |-> [b \in attrs |-> 0]]]

Current(s, a) == Min(s.rest[a])
Top(s) ==
  CHOOSE a \in s.queue : \A b \in s.queue \ {a} :
    Current(s, a) < Current(s, b) \/ (Current(s, a) = Current(s, b) /\ Precedes(a, b))
(* The attributes at the top's value, itself alone if nulls are unequal.   *)
Group(s, top, is_null_equal_null) ==
  IF Current(s, top) = EmptyCell /\ ~is_null_equal_null THEN {top}
  ELSE {a \in s.queue : Current(s, a) = Current(s, top)}

(* An attribute leaves the dependents of those it no longer refers to.     *)
IntersectRefs(s, ids) ==
  [queue |-> s.queue, rest |-> s.rest,
   refs |-> [a \in DOMAIN s.refs |-> IF a \in ids THEN s.refs[a] \cap ids ELSE s.refs[a]],
   deps |-> [b \in DOMAIN s.deps |-> IF b \in ids THEN s.deps[b] ELSE s.deps[b] \ ids],
   occurrences |-> [a \in DOMAIN s.occurrences |-> [b \in DOMAIN s.occurrences[a] |->
                      IF a \in ids /\ b \in ids THEN s.occurrences[a][b] + 1 ELSE s.occurrences[a][b]]]]

(* A fault: one without references has finished, whoever depends on it.    *)
BugHasFinished(s, a, exact) == Cardinality(s.rest[a]) = 1 \/ (exact /\ s.refs[a] = {})
HasFinished(s, a, exact) ==
  Cardinality(s.rest[a]) = 1 \/ (exact /\ s.refs[a] = {} /\ s.deps[a] = {})

Moved(s, ids, exact) ==
  LET finished == {a \in ids : HasFinished(s, a, exact)}
  IN [s EXCEPT !.queue = @ \ finished,
               !.rest = [a \in DOMAIN @ |-> IF a \in ids \ finished THEN @[a] \ {Min(@[a])} ELSE @[a]]]
AfterGroup(s, ids, exact) == Moved(IntersectRefs(s, ids), ids, exact)
NextGroup(s, is_null_equal_null, exact) ==
  IF s.queue = {} THEN s ELSE AfterGroup(s, Group(s, Top(s), is_null_equal_null), exact)
ProcessedAttributes(ts, is_null_equal_null, exact) ==
  FoldSet(LAMBDA i, s : NextGroup(s, is_null_equal_null, exact),
          InitAttributes(ts, Attributes(ts)),
          UNION {{a} \X Domain(ts, a) : a \in Attributes(ts)})

(* GetError, as a fraction.                                                *)
ErrorOf(occurrences, a, b) == <<occurrences[a][a] - occurrences[a][b], occurrences[a][a]>>
Within(error, max_error) == error[1] * max_error[2] <= max_error[1] * error[2]

MinedBy(s, max_error) ==
  {d \in (DOMAIN s.refs) \X (DOMAIN s.refs) :
     /\ d[1] # d[2]
     /\ IF max_error[1] = 0 THEN d[2] \in s.refs[d[1]] ELSE Within(ErrorOf(s.occurrences, d[1], d[2]), max_error)}
Spider(ts, is_null_equal_null, max_error) ==
  MinedBy(ProcessedAttributes(ts, is_null_equal_null, max_error[1] = 0), max_error)
-----------------------------------------------------------------------------
(* Mind.  A dependency is two column combinations, <<table, columns>>.     *)
LastColumn(cc) == Last(cc[2])
StartsWith(p, q) ==
  \A side \in {1, 2} : p[side][1] = q[side][1] /\ Front(p[side][2]) = Front(q[side][2])
WithColumn(cc, c) == <<cc[1], Append(cc[2], c)>>
WithoutIndex(cc, i) == <<cc[1], RemoveAt(cc[2], i)>>
CreateCandidate(p, q) == <<WithColumn(p[1], LastColumn(q[1])), WithColumn(p[2], LastColumn(q[2]))>>
HaveIndicesIntersection(lhs, rhs) == lhs[1] = rhs[1] /\ ToSet(lhs[2]) \cap ToSet(rhs[2]) # {}
CanPruneCandidate(candidate, prev) ==
  /\ Len(candidate[1][2]) > 2
  /\ \E i \in DOMAIN candidate[1][2] :
       <<WithoutIndex(candidate[1], i), WithoutIndex(candidate[2], i)>> \notin prev

(* Of two dependencies of a level, the first of them earlier in the list.  *)
CandidateOf(p, q, prev) ==
  IF /\ StartsWith(p, q)
     /\ LastColumn(p[1]) < LastColumn(q[1]) /\ LastColumn(p[2]) # LastColumn(q[2])
     /\ ~HaveIndicesIntersection(CreateCandidate(p, q)[1], CreateCandidate(p, q)[2])
     /\ ~CanPruneCandidate(CreateCandidate(p, q), prev)
  THEN <<CreateCandidate(p, q)>> ELSE <<>>
CandidatesOf(level) ==
  FlattenSeq([i \in DOMAIN level |->
    FlattenSeq([j \in 1 .. Len(level) - i |-> CandidateOf(level[i], level[i + j], ToSet(level))])])

TestCandidate(lhs_rows, rhs_rows, max_error) ==
  IF max_error[1] = 0 THEN lhs_rows \subseteq rhs_rows
  ELSE Within(<<Cardinality(lhs_rows \ rhs_rows), Cardinality(lhs_rows)>>, max_error)
Holds(ts, d, max_error) ==
  TestCandidate(Projection(ts[d[1][1]], d[1][2]), Projection(ts[d[2][1]], d[2][2]), max_error)
Holding(ts, candidates, max_error) ==
  FlattenSeq([i \in DOMAIN candidates |->
                IF Holds(ts, candidates[i], max_error) THEN <<candidates[i]>> ELSE <<>>])

(* Spider registers its dependencies by dependent, then by reference.      *)
Unary(inds) == AsTuple([i \in DOMAIN inds |-> << <<inds[i][1][1], <<inds[i][1][2]>>>>, <<inds[i][2][1], <<inds[i][2][2]>>>> >>])
Earlier(S, d) == {e \in S : Precedes(e[1], d[1]) \/ (e[1] = d[1] /\ Precedes(e[2], d[2]))}
Registered(S) == AsTuple([i \in 1 .. Cardinality(S) |-> CHOOSE d \in S : Cardinality(Earlier(S, d)) = i - 1])
NextLevel(ts, m, max_error, max_arity) ==
  IF m.level = <<>> \/ Len(Last(m.level)[1][2]) = max_arity THEN [m EXCEPT !.level = <<>>]
  ELSE LET level == Holding(ts, CandidatesOf(m.level), max_error)
       IN [level |-> level, inds |-> m.inds \cup ToSet(level)]
Mind(ts, is_null_equal_null, max_error, max_arity) ==
  LET unary == Unary(Registered(Spider(ts, is_null_equal_null, max_error)))
  IN FoldSet(LAMBDA i, m : NextLevel(ts, m, max_error, max_arity),
             [level |-> unary, inds |-> ToSet(unary)],
             1 .. Max({Len(ts[i][1]) : i \in DOMAIN ts})).inds
-----------------------------------------------------------------------------
(* INDVerifier: the rows of the left table by what they hold, where the    *)
(* right one does not hold it.                                             *)
Clusters(ts, d) ==
  LET rhs_rows == Projection(ts[d[2][1]], d[2][2])
      lhs_row(r) == [i \in DOMAIN d[1][2] |-> ts[d[1][1]][r][d[1][2][i]]]
      violating_rows == {r \in DOMAIN ts[d[1][1]] : lhs_row(r) \notin rhs_rows}
  IN {{s \in violating_rows : lhs_row(s) = lhs_row(r)} : r \in violating_rows}
VerifiedError(ts, d) == <<Cardinality(Clusters(ts, d)), Cardinality(Projection(ts[d[1][1]], d[1][2]))>>
-----------------------------------------------------------------------------
(* By definition: the unary dependencies within an error, an empty string  *)
(* being unequal to all if nulls are; and the candidates of more columns.  *)
UnaryInds(ts, is_null_equal_null, max_error) ==
  LET unequal == IF is_null_equal_null THEN {} ELSE {EmptyCell}
  IN {d \in Attributes(ts) \X Attributes(ts) :
        /\ d[1] # d[2]
        /\ Within(<<Cardinality(Domain(ts, d[1]) \ (Domain(ts, d[2]) \ unequal)), Cardinality(Domain(ts, d[1]))>>,
                  max_error)}

AscendingSeqs(n) == {s \in UNION {[1 .. k -> 1 .. n] : k \in 2 .. n} : \A i, j \in DOMAIN s : i < j => s[i] < s[j]}
InjectiveSeqs(n, k) == {s \in [1 .. k -> 1 .. n] : IsInjective(s)}
WideInds(ts) ==
  UNION {UNION {{<<lhs, <<j, s>>>> : s \in InjectiveSeqs(Len(ts[j][1]), Len(lhs[2]))}
                  : lhs \in {i} \X AscendingSeqs(Len(ts[i][1]))} : i, j \in DOMAIN ts}
Parts(d) == {<<WithoutIndex(d[1], i), WithoutIndex(d[2], i)>> : i \in DOMAIN d[1][2]}

(* Spider finds the unary dependencies; Mind finds of the wider ones,      *)
(* between different columns, those within the error all of whose parts it *)
(* found, at the error the verifier finds for them, and with no error that *)
(* is all of them, unless they have a column of empty strings or nulls are *)
(* unequal.                                                                *)
SpiderIsRight(ts) ==
  \A is_null_equal_null \in BOOLEAN, max_error \in {<<0, 1>>, <<1, 3>>, <<1, 2>>} :
    Spider(ts, is_null_equal_null, max_error) = UnaryInds(ts, is_null_equal_null, max_error)
MindFinds(ts, max_error, found, wide) ==
  {d \in found : Len(d[1][2]) > 1}
    = {d \in wide : ~HaveIndicesIntersection(d[1], d[2]) /\ Within(VerifiedError(ts, d), max_error) /\ Parts(d) \subseteq found}
WithoutNull(ts, d) == \A side \in {1, 2} : \A i \in DOMAIN d[side][2] : EmptyCell \notin Domain(ts, <<d[side][1], d[side][2][i]>>)
MindIsRight(ts) ==
  /\ \A is_null_equal_null \in BOOLEAN, max_error \in {<<0, 1>>, <<1, 2>>} :
       MindFinds(ts, max_error, Mind(ts, is_null_equal_null, max_error, 9), WideInds(ts))
  /\ {d \in WideInds(ts) : /\ WithoutNull(ts, d) /\ Clusters(ts, d) = {}
                            /\ ~HaveIndicesIntersection(d[1], d[2])} \subseteq Mind(ts, FALSE, <<0, 1>>, 9)
IndsAreRightIn(ts) == SpiderIsRight(ts) /\ MindIsRight(ts)
=============================================================================
