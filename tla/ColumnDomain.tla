---------------------------- MODULE ColumnDomain ----------------------------
(***************************************************************************)
(* How the IND miners read the distinct values of their columns            *)
(* (src/src/core/model/table/column_domain.{h,cpp},                        *)
(* column_domain_iterator.cpp): DomainManager takes the tables block by    *)
(* block, and swaps to disk when the memory limit is near; what it has of  *)
(* a column is then a list of partitions, which an iterator merges.  A     *)
(* value in memory takes one unit, whatever its length.                    *)
(***************************************************************************)
EXTENDS Integers, Sequences, FiniteSets, FiniteSetsExt, SequencesExt

CONSTANTS
  ColumnCounts,    \* the numbers of columns of the tables
  MaxBlocks,       \* bound: blocks of a table
  BlockColumns,    \* what a block may hold of a column; 0 is the empty string
  MemLimits,       \* the limits a user may set, in values
  WorstBlock,      \* the memory a block is first assumed to take
  SizeOfT          \* the values of size_t are 0 .. SizeOfT - 1

ASSUME DomainAssumption ==
  /\ ColumnCounts \in Seq(Nat) /\ ColumnCounts # <<>>
  /\ \A S \in BlockColumns : S \subseteq Nat /\ S # {} /\ IsFiniteSet(S)
  /\ MemLimits \subseteq Nat /\ WorstBlock \in Nat \ {0} /\ \A m \in MemLimits : m < SizeOfT

VARIABLES
  mem_limit_,
  domains_, raw_domains_,   \* each domain a sequence of partitions
  mem_usage_, processed_block_count_, swap_candidate_,
  block_count, left,        \* blocks of the present round, and those not read yet
  at,                       \* where CreateFrom is
  stream,                   \* table and blocks read so far
  seen                      \* all values so far of each column of all tables
domainVars ==
  <<mem_limit_, domains_, raw_domains_, mem_usage_, processed_block_count_, swap_candidate_, block_count, left, at, stream, seen>>

(* A finite set of numbers as a sequence, and of a sequence the elements   *)
(* at some places.                                                         *)
Ascending(S) == CHOOSE q \in [1 .. Cardinality(S) -> S] : \A i, j \in DOMAIN q : i < j => q[i] < q[j]
AtPlaces(s, K) == [i \in 1 .. Cardinality(K) |-> s[Ascending(K)[i]]]

Null == 0
NewPartition == [values |-> {}, swapped |-> FALSE]
IsNULL(p) == p.values \subseteq {Null} /\ ~p.swapped
MemoryUsage(p) == IF p.swapped THEN 0 ELSE Cardinality(p.values)
TrySwap(p) == IF IsNULL(p) THEN p ELSE [p EXCEPT !.swapped = TRUE]
SumOver(f(_), s) == FoldSeq(LAMBDA e, acc : acc + f(e), 0, s)
DomainUsage(domain) == SumOver(MemoryUsage, domain)

(* ColumnDomainIterator: the partitions' readers, as what is left in each  *)
(* of them.                                                                *)
Readers(domain) == {p.values : p \in {q \in ToSet(domain) : ~IsNULL(q)}}
(* A fault: only one of them moves.                                        *)
BugMoveToNext(readers) ==
  LET value == Min({Min(r) : r \in readers})
      reader == CHOOSE r \in readers : Min(r) = value
  IN [value |-> value, readers |-> (readers \ {reader}) \cup ({reader \ {value}} \ {{}})]
(* The least value leaves all the readers that begin with it.              *)
MoveToNext(readers) ==
  LET value == Min({Min(r) : r \in readers})
  IN [value |-> value, readers |-> {r \ {value} : r \in readers} \ {{}}]
Iterated(domain) ==
  LET from[readers \in SUBSET SUBSET UNION Readers(domain)] ==
        IF readers = {} THEN <<>>
        ELSE LET next == MoveToNext(readers) IN <<next.value>> \o from[next.readers]
  IN from[Readers(domain)]

-----------------------------------------------------------------------------
RawDomainsInit(n) == [c \in 1 .. n |-> <<NewPartition>>]
DomainInit ==
  /\ mem_limit_ \in MemLimits
  /\ domains_ = <<>> /\ raw_domains_ = RawDomainsInit(ColumnCounts[1])
  /\ mem_usage_ = 0 /\ processed_block_count_ = 0 /\ swap_candidate_ = 1
  /\ block_count = 0 /\ left = 0
  /\ at = "refresh" /\ stream = [table |-> 1, blocks |-> 0]
  /\ seen = [c \in 1 .. ColumnCounts[1] |-> {}]

(* Of the current table only the last partition is in memory.              *)
Used(domains, raw) ==
  SumOver(DomainUsage, domains) + SumOver(LAMBDA d : MemoryUsage(Last(d)), raw)

RefreshMemUsage ==
  /\ at = "refresh" /\ at' = "count"
  /\ processed_block_count_' = processed_block_count_ + block_count
  /\ mem_usage_' = Used(domains_, raw_domains_)
  /\ UNCHANGED <<domains_, raw_domains_, swap_candidate_, block_count, left, stream, seen>>

(* The average of the blocks so far; more than the limit is a wrap around. *)
PerBlock == mem_usage_ \div processed_block_count_
ApproximateBlockCount ==
  IF processed_block_count_ = 0 THEN Max({1, mem_limit_ \div WorstBlock})
  ELSE ((mem_limit_ - mem_usage_) % SizeOfT) \div PerBlock

(* A division by zero: so few values in so many blocks.                    *)
Crash ==
  /\ at = "count" /\ processed_block_count_ > 0 /\ PerBlock = 0
  /\ at' = "crashed"
  /\ UNCHANGED <<domains_, raw_domains_, mem_usage_, processed_block_count_, swap_candidate_, block_count, left, stream, seen>>
Divides == processed_block_count_ > 0 => PerBlock > 0

GetNumberOfBlocks ==
  /\ at = "count" /\ Divides /\ ApproximateBlockCount > 0
  /\ block_count' = ApproximateBlockCount /\ left' = block_count' /\ at' = "process"
  /\ UNCHANGED <<domains_, raw_domains_, mem_usage_, processed_block_count_, swap_candidate_, stream, seen>>

SwapDomain ==
  /\ swap_candidate_ <= Len(domains_)
  /\ domains_' = [domains_ EXCEPT ![swap_candidate_] = [i \in DOMAIN @ |-> TrySwap(@[i])]]
  /\ mem_usage_' = mem_usage_ - DomainUsage(domains_[swap_candidate_])
  /\ swap_candidate_' = swap_candidate_ + 1
  /\ UNCHANGED <<raw_domains_, processed_block_count_>>

Swapped(d) ==
  IF IsNULL(Last(d)) THEN d ELSE Append(Front(d), TrySwap(Last(d))) \o <<NewPartition>>
SwapRaw ==
  /\ swap_candidate_ > Len(domains_)
  /\ raw_domains_' = [c \in DOMAIN raw_domains_ |-> Swapped(raw_domains_[c])]
  /\ mem_usage_' = Used(domains_, raw_domains_')
  /\ processed_block_count_' = 0
  /\ UNCHANGED <<domains_, swap_candidate_>>

SwapNext ==
  /\ at = "count" /\ Divides /\ ApproximateBlockCount = 0
  /\ SwapDomain \/ SwapRaw
  /\ UNCHANGED <<block_count, left, at, stream, seen>>

(* ProcessNext reads a block, and the round ends with the blocks it was    *)
(* given or with the table.                                                *)
StoredColumns == Len(seen) - Len(raw_domains_)
Insert(d, S) == [d EXCEPT ![Len(d)].values = @ \cup S]
ProcessBlock ==
  /\ at = "process"
  /\ \E block \in [DOMAIN raw_domains_ -> BlockColumns] :
       /\ raw_domains_' = [c \in DOMAIN raw_domains_ |-> Insert(raw_domains_[c], block[c])]
       /\ seen' = [c \in DOMAIN seen |->
                     IF c <= StoredColumns THEN seen[c] ELSE seen[c] \cup block[c - StoredColumns]]
  /\ stream' = [stream EXCEPT !.blocks = @ + 1] /\ left' = left - 1
  /\ \/ stream'.blocks < MaxBlocks /\ at' = IF left' = 0 THEN "refresh" ELSE "process"
     \/ at' = "store"
  /\ UNCHANGED <<domains_, mem_usage_, processed_block_count_, swap_candidate_, block_count>>

(* Columns without any value are dropped, then comes the next table.       *)
StoreTable ==
  /\ at = "store"
  /\ domains_' = domains_ \o AtPlaces(raw_domains_, {c \in DOMAIN raw_domains_ : ~IsNULL(Head(raw_domains_[c]))})
  /\ IF stream.table = Len(ColumnCounts)
       THEN at' = "done" /\ raw_domains_' = <<>> /\ UNCHANGED <<processed_block_count_, block_count, stream, seen>>
       ELSE LET n == ColumnCounts[stream.table + 1]
            IN /\ at' = "refresh" /\ raw_domains_' = RawDomainsInit(n)
               /\ processed_block_count_' = 0 /\ block_count' = 0
               /\ stream' = [table |-> stream.table + 1, blocks |-> 0]
               /\ seen' = seen \o [c \in 1 .. n |-> {}]
  /\ UNCHANGED <<mem_usage_, swap_candidate_, left>>

DomainNext ==
  /\ \/ RefreshMemUsage \/ Crash \/ GetNumberOfBlocks
     \/ SwapNext \/ ProcessBlock \/ StoreTable
  /\ UNCHANGED mem_limit_
DomainSpec == DomainInit /\ [][DomainNext]_domainVars
-----------------------------------------------------------------------------
(* The columns with a value, in order, and what is kept of each: all its   *)
(* distinct values, in ascending order and once.                           *)
Kept == AtPlaces(seen, {c \in DOMAIN seen : ~(seen[c] \subseteq {Null})})
IteratesAll(c) == Iterated(domains_[c]) = Ascending(Kept[c])
IteratesValues(c) == IteratesAll(c) \/ Iterated(domains_[c]) = Ascending(Kept[c] \ {Null})

(* Whatever was swapped when, the iterators of the domains give every      *)
(* value of their columns in order, but for an empty string perhaps,       *)
(* without those of another column and without repetition; and the memory  *)
(* counted is the memory used, but for partitions of an empty string only, *)
(* which SwapNext subtracts and which are not swapped.                     *)
DomainsAreRight ==
  /\ at = "done" => Len(domains_) = Len(Kept) /\ \A c \in DOMAIN Kept : IteratesValues(c)
  /\ at = "count" =>
       Used(domains_, raw_domains_) - mem_usage_
         \in 0 .. Cardinality({c \in 1 .. swap_candidate_ - 1 : IsNULL(Last(domains_[c]))})

(* column_domain.h:4: "the ColumnDomain class, which provides the column   *)
(* domain values"; an empty string that comes up after all other values    *)
(* were swapped is not among them.                                         *)
DomainIsComplete == at = "done" => \A c \in DOMAIN Kept : IteratesAll(c)
=============================================================================
