----------------------------- MODULE DynamicFd -----------------------------
(***************************************************************************)
(* algos::fd_verifier::DynamicFDVerifier                                   *)
(* (src/src/core/algorithms/fd/fd_verifier/dynamic_fd_verifier.cpp,        *)
(* dynamic_stats_calculator.cpp), which keeps the verdict on one           *)
(* functional dependency up to date while batches of inserts, deletes and  *)
(* updates change a table, and the two structures each batch changes: the  *)
(* position list indexes of the two sides                                  *)
(* (src/src/core/model/table/dynamic_position_list_index.cpp) and the      *)
(* table itself (dynamic_table_data.h).                                    *)
(*                                                                         *)
(* A row is its pair of values: the columns of a side make up one value.   *)
(* Rows with a wrong number of columns, which every loop over a stream     *)
(* skips, and wrong column names, which are rejected, are left out.        *)
(***************************************************************************)
EXTENDS Integers, Sequences, FiniteSets, FiniteSetsExt

CONSTANTS
  LhsValues, RhsValues,
  Blank,        \* what deletion leaves in a row
  SizeLimit,    \* the values of size_t are 0 .. SizeLimit - 1
  MaxRows,      \* bound: rows in the table
  MaxBatch,     \* bound: statements in a batch
  MaxCalls,     \* bound: calls of execute
  Reloads       \* whether load_data may be called again

Row == [lhs : LhsValues, rhs : RhsValues]

ASSUME DynamicFdAssumption ==
  /\ Blank \notin Row
  /\ SizeLimit \in Nat /\ MaxRows \in Nat /\ MaxRows < SizeLimit
  /\ MaxBatch \in Nat /\ MaxCalls \in Nat
  /\ Reloads \in BOOLEAN

VARIABLES
  input,    \* the rows of input_table_
  table,    \* rows: columns_, by row index from 0; deleted: deleted_rows_
  lhsPli,   \* lhs_pli_
  rhsPli,   \* rhs_pli_
  stats,    \* the numbers of the highlights in stats_calculator_
  held,     \* the options that are set when no call runs, and their values
  last,     \* how the last call ended
  calls     \* how often execute was called

dynamicVars == <<input, table, lhsPli, rhsPli, stats, held, last, calls>>

Operations == {"insert", "delete", "update"}
NoBatch    == [insert |-> <<>>, delete |-> {}, update |-> <<>>]
NoneHeld   == [set |-> {}, batch |-> NoBatch, inserts |-> 0, updates |-> 0]
NoErrors   == [clusters |-> 0, rows |-> 0, conflicts |-> 0]

Ids(updates) == {updates[k].id : k \in DOMAIN updates}

(* What is left of a stream of which n rows were read.                     *)
After(stream, n) == SubSeq(stream, n + 1, Len(stream))
-----------------------------------------------------------------------------
(* A position list index.  A record is in one cluster, that of its value,  *)
(* so the clusters are given by the function from record to value.         *)

CreateFor(values) ==
  [value |-> [i \in 0 .. Len(values) - 1 |-> values[i + 1]],
   valid |-> Len(values), next |-> Len(values)]

Values(pli) == {pli.value[i] : i \in DOMAIN pli.value}

Cluster(pli, v) == {i \in DOMAIN pli.value : pli.value[i] = v}

(* Mutant: what was updated is not taken out of its old cluster            *)
BugUpdateWith(pli, inserts, updates, deletes) ==
  LET kept  == DOMAIN pli.value \ (deletes \ Ids(updates))
      new   == pli.next .. pli.next + Len(inserts) - 1
  IN [value |-> [i \in kept \cup new |->
                   IF i \in new THEN inserts[i - pli.next + 1] ELSE pli.value[i]],
      valid |-> (pli.valid - Cardinality(deletes) + Len(inserts)) % SizeLimit,
      next  |-> pli.next + Len(inserts)]

(* The ids of the updates are among the deletes.  The size falls with      *)
(* every update, since only an insert raises it again.                     *)
UpdateWith(pli, inserts, updates, deletes) ==
  LET kept  == DOMAIN pli.value \ deletes
      new   == pli.next .. pli.next + Len(inserts) - 1
      At(i) == CHOOSE k \in DOMAIN updates : updates[k].id = i
  IN [value |-> [i \in kept \cup Ids(updates) \cup new |->
                   IF i \in new THEN inserts[i - pli.next + 1]
                   ELSE IF i \in Ids(updates) THEN updates[At(i)].value
                   ELSE pli.value[i]],
      valid |-> (pli.valid - Cardinality(deletes) + Len(inserts)) % SizeLimit,
      next  |-> pli.next + Len(inserts)]

(* The values of the clusters of the intersection.                         *)
Probe(pli, that) ==
  {<<pli.value[i], that.value[i]>> : i \in DOMAIN pli.value}

Intersect(pli, that) ==
  IF pli.valid > that.valid THEN Probe(that, pli) ELSE Probe(pli, that)
-----------------------------------------------------------------------------
(* The verdict.                                                            *)

(* CreateFrequencies: how often each value of the other side occurs.       *)
Frequencies(cluster, pli) ==
  [v \in {pli.value[i] : i \in cluster} |->
     Cardinality({i \in cluster : pli.value[i] = v})]

Pairs(n) == n * (n - 1)

Conflicts(cluster, pli) ==
  LET freq == Frequencies(cluster, pli)
  IN Pairs(Cardinality(cluster))
       - SumFunction([v \in DOMAIN freq |-> Pairs(freq[v])])

CalculateStatistics(lhs, rhs) ==
  LET bad == {v \in Values(lhs) :
                Cardinality(DOMAIN Frequencies(Cluster(lhs, v), rhs)) > 1}
  IN [clusters  |-> Cardinality(bad),
      rows      |-> SumFunction([v \in bad |-> Cardinality(Cluster(lhs, v))]),
      conflicts |-> SumFunction([v \in bad |-> Conflicts(Cluster(lhs, v), rhs)])]

(* Mutant: the index of the other side decides *)
BugVerifyFD(lhs, rhs) ==
  IF Cardinality(Values(rhs)) = Cardinality(Intersect(lhs, rhs)) THEN NoErrors
  ELSE CalculateStatistics(lhs, rhs)

VerifyFD(lhs, rhs) ==
  IF Cardinality(Values(lhs)) = Cardinality(Intersect(lhs, rhs)) THEN NoErrors
  ELSE CalculateStatistics(lhs, rhs)
-----------------------------------------------------------------------------
(* The table.                                                              *)

NumRows == Cardinality(DOMAIN table.rows)

IsRowIndexValid(id) == id \in DOMAIN table.rows /\ id \notin table.deleted

(* Update's effect up to the n-th update: deletes, inserts, updates.       *)
TableAfter(b, n) ==
  LET grown  == NumRows + Len(b.insert)
      done   == SubSeq(b.update, 1, n)
      At(id) == CHOOSE k \in DOMAIN done : done[k].id = id
  IN [rows |-> [id \in 0 .. grown - 1 |->
                  IF id \in Ids(done) THEN done[At(id)].row
                  ELSE IF id >= NumRows THEN b.insert[id - NumRows + 1]
                  ELSE IF id \in b.delete THEN Blank
                  ELSE table.rows[id]],
      deleted |-> table.deleted \cup b.delete]

(* Mutant: the deletes of the batch do not count *)
BugDeleted(b) == {k \in DOMAIN b.update : b.update[k].id \in table.deleted}

(* The updates at which Update throws: the first of them ends it.          *)
Deleted(b) ==
  {k \in DOMAIN b.update : b.update[k].id \in table.deleted \cup b.delete}
-----------------------------------------------------------------------------
TableOf(rows) ==
  [rows |-> [id \in 0 .. Len(rows) - 1 |-> rows[id + 1]], deleted |-> {}]

DynamicInit ==
  /\ input = <<>> /\ table = TableOf(<<>>)
  /\ lhsPli = CreateFor(<<>>) /\ rhsPli = CreateFor(<<>>)
  /\ stats = NoErrors
  /\ held = NoneHeld
  /\ last = "none" /\ calls = 0

Loaded == last # "none"

(* LoadDataInternal: the indexes are built from a first pass over the      *)
(* input, the table from a second one.                                     *)
Load(rows) ==
  /\ ~Loaded
  /\ input' = rows /\ table' = TableOf(rows)
  /\ lhsPli' = CreateFor([k \in DOMAIN rows |-> rows[k].lhs])
  /\ rhsPli' = CreateFor([k \in DOMAIN rows |-> rows[k].rhs])
  /\ stats' = VerifyFD(lhsPli', rhsPli')
  /\ last' = "loaded"
  /\ UNCHANGED <<held, calls>>

(* A second load_data finds the input at its end, where the last pass left *)
(* it, and the option that holds it set: the indexes are built from        *)
(* nothing, and only then is the input reset.  What else it leaves behind  *)
(* (statement options set to their defaults) is not followed further.      *)
Reload ==
  /\ Reloads /\ Loaded /\ last # "reloaded"
  /\ lhsPli' = CreateFor(<<>>) /\ rhsPli' = CreateFor(<<>>)
  /\ stats' = VerifyFD(lhsPli', rhsPli')
  /\ table' = TableOf(input)
  /\ last' = "reloaded"
  /\ UNCHANGED <<input, held, calls>>
-----------------------------------------------------------------------------
(* execute with keyword arguments: an option that is still set keeps the   *)
(* value it has, the others take the given one.                            *)

Resolve(kwargs, given) ==
  [o \in Operations |-> IF o \in given THEN kwargs[o] ELSE held.batch[o]]

Unset == Operations \ held.set

CheckDeletes(deletes) == \A id \in deletes : IsRowIndexValid(id)

CheckUpdates(updates) ==
  /\ \A id \in Ids(updates) : IsRowIndexValid(id)
  /\ Cardinality(Ids(updates)) = Len(updates)

Rejected(kwargs) ==
  {o \in Unset : (o = "delete" /\ ~CheckDeletes(kwargs.delete))
                 \/ (o = "update" /\ ~CheckUpdates(kwargs.update))}

CallExecute(kwargs) ==
  /\ Loaded /\ last # "reloaded"
  /\ calls < MaxCalls                                              \* bound
  /\ NumRows + Len(Resolve(kwargs, Unset).insert) <= MaxRows       \* bound
  /\ calls' = calls + 1
  /\ UNCHANGED input

(* A value fails its check: what was set before it stays set.              *)
ExecuteRejected(kwargs) ==
  /\ CallExecute(kwargs)
  /\ Rejected(kwargs) # {}
  /\ \E S \in SUBSET {o \in Unset \ Rejected(kwargs) : kwargs[o] # NoBatch[o]} :
       held' = [held EXCEPT !.set = @ \cup S, !.batch = Resolve(kwargs, S)]
  /\ last' = "rejected"
  /\ UNCHANGED <<table, lhsPli, rhsPli, stats>>

(* Mutant: the deletes are moved into the first call, the second gets none *)
BugUpdateIndexes(b) ==
  LET inserts == After(b.insert, held.inserts)
      updates == After(b.update, held.updates)
      Side(pli, Of(_), deletes) ==
        UpdateWith(pli, [k \in DOMAIN inserts |-> Of(inserts[k])],
                   [k \in DOMAIN updates |-> [id |-> updates[k].id,
                                             value |-> Of(updates[k].row)]],
                   deletes)
  IN /\ lhsPli' = Side(lhsPli, LAMBDA row : row.lhs, b.delete \cup Ids(updates))
     /\ rhsPli' = Side(rhsPli, LAMBDA row : row.rhs, {})

(* The first half of ExecuteInternal: both indexes take the rest of the    *)
(* streams, which are then reset.                                          *)
UpdateIndexes(b) ==
  LET inserts == After(b.insert, held.inserts)
      updates == After(b.update, held.updates)
      deletes == b.delete \cup Ids(updates)
      Side(pli, Of(_)) ==
        UpdateWith(pli, [k \in DOMAIN inserts |-> Of(inserts[k])],
                   [k \in DOMAIN updates |-> [id |-> updates[k].id,
                                             value |-> Of(updates[k].row)]],
                   deletes)
  IN /\ lhsPli' = Side(lhsPli, LAMBDA row : row.lhs)
     /\ rhsPli' = Side(rhsPli, LAMBDA row : row.rhs)

ExecuteSucceeds(kwargs) ==
  LET b == Resolve(kwargs, Unset)
  IN /\ CallExecute(kwargs)
     /\ Rejected(kwargs) = {} /\ Deleted(b) = {}
     /\ UpdateIndexes(b)
     /\ table' = TableAfter(b, Len(b.update))
     /\ stats' = VerifyFD(lhsPli', rhsPli')
     /\ held' = NoneHeld
     /\ last' = "executed"

(* DynamicTableData::Update meets an update of a row that the same batch   *)
(* deleted: it throws after ResetState and with both indexes and a part of *)
(* the table changed; the options stay set, the streams where they are.    *)
ExecuteFails(kwargs) ==
  LET b == Resolve(kwargs, Unset)
      k == Min(Deleted(b))
  IN /\ CallExecute(kwargs)
     /\ Rejected(kwargs) = {} /\ Deleted(b) # {}
     /\ UpdateIndexes(b)
     /\ table' = TableAfter(b, k - 1)
     /\ stats' = NoErrors
     /\ held' = [set |-> Operations, batch |-> b,
                 inserts |-> Len(b.insert), updates |-> k]
     /\ last' = "failed"

(* What callers pass: at most MaxBatch statements, also on rows that do    *)
(* not exist.                                                              *)
SeqsUpTo(S, n) == UNION {[1 .. k -> S] : k \in 0 .. n}

Batches ==
  LET ids == 0 .. NumRows
  IN UNION {[insert : SeqsUpTo(Row, n[1]), delete : {D \in SUBSET ids : Cardinality(D) <= n[2]},
             update : SeqsUpTo([id : ids, row : Row], n[3])] :
              n \in {m \in [1 .. 3 -> 0 .. MaxBatch] : m[1] + m[2] + m[3] = MaxBatch}}

DynamicNext ==
  \/ \E rows \in SeqsUpTo(Row, MaxRows) : Load(rows)
  \/ Reload
  \/ \E b \in Batches : ExecuteSucceeds(b) \/ ExecuteFails(b) \/ ExecuteRejected(b)

DynamicSpec == DynamicInit /\ [][DynamicNext]_dynamicVars
-----------------------------------------------------------------------------
(* Properties.                                                             *)

Live == DOMAIN table.rows \ table.deleted

IsPli(pli, values) ==
  /\ pli.value \in [DOMAIN pli.value -> values]
  /\ pli.valid \in 0 .. SizeLimit - 1 /\ pli.next \in Nat

(* Types; the blank rows are the deleted ones.                             *)
TypeOK ==
  /\ table.rows \in [0 .. NumRows - 1 -> Row \cup {Blank}]
  /\ table.deleted = {id \in DOMAIN table.rows : table.rows[id] = Blank}
  /\ IsPli(lhsPli, LhsValues) /\ IsPli(rhsPli, RhsValues)
  /\ held.set \subseteq Operations
  /\ last \in {"none", "loaded", "reloaded", "executed", "rejected", "failed"}

(* The two indexes hold the same records, whatever failed before: no       *)
(* position of one is outside the probing table of the other, and the      *)
(* sizes that Intersect compares, wrong as they are after an update, are   *)
(* wrong by the same number.                                               *)
IndexesAgree ==
  /\ DOMAIN lhsPli.value = DOMAIN rhsPli.value
  /\ lhsPli.next = rhsPli.next /\ lhsPli.valid = rhsPli.valid
  /\ \A i \in DOMAIN lhsPli.value : i < lhsPli.next

(* No batch has failed in Update, and data was loaded once.                *)
Undisturbed == last \notin {"failed", "reloaded"}

(* After any number of batches the indexes are those of the live rows, and *)
(* the next insert gets the same number in the indexes and in the table.   *)
IndexesDescribeTable ==
  Undisturbed =>
    /\ lhsPli.value = [id \in Live |-> table.rows[id].lhs]
    /\ rhsPli.value = [id \in Live |-> table.rows[id].rhs]
    /\ lhsPli.next = NumRows

(* Both at once: two indexes and a table, kept by different code from the  *)
(* same batches, describe the same records.                                *)
IndexesAreRight == TypeOK /\ IndexesAgree /\ IndexesDescribeTable

(* The definition of the dependency, on pairs of rows.                     *)
Conflict(i, j) ==
  /\ table.rows[i].lhs = table.rows[j].lhs
  /\ table.rows[i].rhs # table.rows[j].rhs

ConflictPairs == {p \in Live \X Live : Conflict(p[1], p[2])}
ConflictRows  == {p[1] : p \in ConflictPairs}

Truth ==
  [clusters  |-> Cardinality({table.rows[i].lhs : i \in ConflictRows}),
   rows      |-> Cardinality(ConflictRows),
   conflicts |-> Cardinality(ConflictPairs)]

(* The numbers a caller reads after a batch, which come from comparing     *)
(* numbers of clusters and from frequencies in the indexes, are those of   *)
(* the definition on the table; after a failure they still are numbers.    *)
VerdictIsRight ==
  /\ stats.clusters \in Nat /\ stats.rows \in Nat /\ stats.conflicts \in Nat
  /\ Undisturbed => stats = Truth

(* "Returns true if FD holds": FDHolds(), which looks whether there are    *)
(* highlights.                                                             *)
FDHoldsIsRight == stats.clusters = 0 => ConflictPairs = {}
=============================================================================
