-------------------------- MODULE Discovery_proofs --------------------------
(***************************************************************************)
(* Proofs about the domains of the IND miners, the dynamic verification of *)
(* functional dependencies and the IND miners themselves, for any values   *)
(* of their constants.  ColumnDomain: whatever is swapped out and when, the domains *)
(* iterate, once and in order, over the values read, and the memory        *)
(* counted is that used.  DynamicFd: the two indexes and the table, which  *)
(* different code changes from the same batches, describe the same rows;   *)
(* the verdict taken from the indexes is that of the definition on the     *)
(* table; a failed batch stays.  Inds: on any tables Spider and Mind find  *)
(* the inclusion dependencies that there are.                              *)
(***************************************************************************)
EXTENDS ColumnDomain, DynamicFd, Inds, FiniteSetTheorems, SequenceTheorems,
        WellFoundedInduction, NaturalsInduction, TLAPS

-----------------------------------------------------------------------------
(* Induction and recursion over numbers and finite sets.                   *)

(* Induction over the numbers, for what holds as a set of numbers.         *)
LEMMA CountingUp ==
  ASSUME NEW P, 0 \in P, \A n \in Nat : n \in P => n + 1 \in P
  PROVE  \A n \in Nat : n \in P
<1> SUFFICES ASSUME NEW m \in Nat, m \notin P PROVE FALSE
  OBVIOUS
<1> DEFINE R == OpToRel(LAMBDA x, y : x < y, Nat)
           T == {n \in Nat : n \notin P}
<1>1. T \subseteq Nat /\ T # {}
  OBVIOUS
<1>2. IsWellFoundedOn(R, Nat)
  BY NatLessThanWellFounded, Zenon
<1>3. PICK x \in T : \A y \in T : ~(<<y, x>> \in R)
  <2> HIDE DEF R, T
  <2> QED BY <1>1, <1>2, WFMin
<1>4. x # 0 /\ x - 1 \in Nat
  OBVIOUS
<1>5. x - 1 \in T
  BY <1>4
<1>6. <<x - 1, x>> \in R
  BY <1>4 DEF OpToRel
<1> QED BY <1>3, <1>5, <1>6

(* Induction over a rank.                                                  *)
LEMMA ByRank ==
  ASSUME NEW D, NEW rank, \A d \in D : rank[d] \in Nat, NEW P,
         \A d \in D : (\A e \in D : rank[e] < rank[d] => e \in P) => d \in P
  PROVE  \A d \in D : d \in P
<1> DEFINE Q == {n \in Nat : \A d \in D : rank[d] < n => d \in P}
<1>1. 0 \in Q
  OBVIOUS
<1>2. ASSUME NEW n \in Nat, n \in Q PROVE n + 1 \in Q
  <2> SUFFICES ASSUME NEW d \in D, rank[d] < n + 1 PROVE d \in P
    OBVIOUS
  <2>1. \A e \in D : rank[e] < rank[d] => e \in P
    BY <1>2
  <2> QED BY <2>1
<1>3. \A n \in Nat : n \in Q
  <2> HIDE DEF Q
  <2> QED BY <1>1, <1>2, CountingUp
<1> SUFFICES ASSUME NEW d \in D PROVE d \in P
  OBVIOUS
<1>4. rank[d] + 1 \in Q
  BY <1>3
<1> QED BY <1>4

(* Induction over the subsets of a finite set.                             *)
LEMMA BySubsets ==
  ASSUME NEW S, IsFiniteSet(S), NEW P,
         \A T \in SUBSET S : (\A x \in T : T \ {x} \in P) => T \in P
  PROVE  \A T \in SUBSET S : T \in P
<1> DEFINE D == SUBSET S
           rank == [T \in D |-> Cardinality(T)]
<1>1. \A T \in D : IsFiniteSet(T) /\ rank[T] \in Nat
  BY FS_Subset, FS_CardinalityType
<1>2. ASSUME NEW T \in D, \A U \in D : rank[U] < rank[T] => U \in P PROVE T \in P
  <2>1. ASSUME NEW x \in T PROVE T \ {x} \in P
    <3>1. T \ {x} \in D /\ Cardinality(T \ {x}) = Cardinality(T) - 1
      BY <1>1, FS_RemoveElement
    <3>2. Cardinality(T) \in Nat
      BY <1>1
    <3>3. rank[T \ {x}] < rank[T]
      BY <3>1, <3>2
    <3> HIDE DEF rank
    <3> QED BY <1>2, <3>1, <3>3
  <2> HIDE DEF rank
  <2> QED BY <1>2, <2>1
<1> HIDE DEF D, rank
<1>3. \A T \in D : T \in P
  BY <1>1, <1>2, ByRank
<1> QED BY <1>3 DEF D

(* A recursive definition over a finite set that goes down in rank defines *)
(* something.                                                              *)
GoesDown(D, Y, stop, start, next, step, rank) ==
  /\ \A d \in D : rank[d] \in Nat
  /\ \A d \in D : d \in stop => start[d] \in Y
  /\ \A d \in D : d \notin stop => /\ next[d] \in D /\ rank[next[d]] < rank[d]
                                   /\ \A y \in Y : step[<<d, y>>] \in Y

Solves(F, D, stop, start, next, step) ==
  \A d \in D : F[d] = IF d \in stop THEN start[d] ELSE step[<<d, F[next[d]]>>]

(* A recursion that goes down to where it stops has a solution.            *)
LEMMA RecursionWorks ==
  ASSUME NEW D, IsFiniteSet(D), NEW Y, NEW stop, NEW start, NEW next, NEW step, NEW rank,
         GoesDown(D, Y, stop, start, next, step, rank)
  PROVE  \E F \in [D -> Y] : Solves(F, D, stop, start, next, step)
<1>0. /\ \A d \in D : rank[d] \in Nat
      /\ \A d \in D : d \in stop => start[d] \in Y
      /\ \A d \in D : d \notin stop => /\ next[d] \in D /\ rank[next[d]] < rank[d]
                                       /\ \A y \in Y : step[<<d, y>>] \in Y
  BY DEF GoesDown
<1> DEFINE Right(C, F) ==
             /\ \A d \in C : d \notin stop => next[d] \in C
             /\ \A d \in C : F[d] = IF d \in stop THEN start[d] ELSE step[<<d, F[next[d]]>>]
           Open == {U \in SUBSET D : \E F \in [D \ U -> Y] : Right(D \ U, F)}
<1>1. D \in Open
  <2>1. [d \in D \ D |-> 0] \in [D \ D -> Y]
    OBVIOUS
  <2>2. Right(D \ D, [d \in D \ D |-> 0])
    OBVIOUS
  <2> QED BY <2>1, <2>2
<1>2. PICK U \in Open : \A V \in Open : ~(V \subseteq U /\ V # U)
  <2>1. IsWellFoundedOn(StrictSubsetOrdering(D), FiniteSubsetsOf(D))
    BY FS_StrictSubsetOrderingWellFounded
  <2>2. Open \subseteq FiniteSubsetsOf(D) /\ \A V \in Open : V \in SUBSET D
    BY FS_FiniteSubsetsOfFinite
  <2> HIDE DEF Open
  <2>3. PICK U \in Open : \A V \in Open : ~(<<V, U>> \in StrictSubsetOrdering(D))
    BY <1>1, <2>1, <2>2, WFMin
  <2> QED BY <2>2, <2>3 DEF StrictSubsetOrdering
<1>3. PICK F \in [D \ U -> Y] : Right(D \ U, F)
  BY <1>2
<1>4. CASE U = {}
  BY <1>3, <1>4 DEF Solves
<1>5. CASE U # {}
  <2>0. U \subseteq D
    BY <1>2
  <2>1. PICK d \in U : \A e \in U : ~(rank[e] < rank[d])
    <3> DEFINE N == {rank[e] : e \in U}
               R == OpToRel(LAMBDA x, y : x < y, Nat)
    <3>1. N \subseteq Nat /\ N # {}
      BY <1>0, <1>5, <2>0
    <3>2. IsWellFoundedOn(R, Nat)
      BY NatLessThanWellFounded, Zenon
    <3>3. PICK n \in N : \A m \in N : ~(<<m, n>> \in R)
      <4> HIDE DEF N, R
      <4> QED BY <3>1, <3>2, WFMin
    <3>4. \A m \in N : ~(m < n)
      BY <3>1, <3>3 DEF OpToRel
    <3> QED BY <3>4
  <2> DEFINE value == IF d \in stop THEN start[d] ELSE step[<<d, F[next[d]]>>]
             V == U \ {d}
             G == [e \in D \ V |-> IF e = d THEN value ELSE F[e]]
  <2>2. d \notin stop => next[d] \in D \ U /\ next[d] # d
    BY <1>0, <2>0, <2>1
  <2>3. value \in Y
    BY <1>0, <1>3, <2>0, <2>2
  <2>4. D \ V = (D \ U) \cup {d} /\ d \notin D \ U
    BY <2>0
  <2>5. G \in [D \ V -> Y]
    <3> HIDE DEF value
    <3> QED BY <1>3, <2>3, <2>4
  <2>6. ASSUME NEW e \in D \ V PROVE /\ e \notin stop => next[e] \in D \ V
                                    /\ G[e] = IF e \in stop THEN start[e] ELSE step[<<e, G[next[e]]>>]
    <3>1. CASE e = d
      <4>1. d \notin stop => G[next[d]] = F[next[d]]
        BY <2>2, <2>4
      <4>2. G[d] = value
        BY <2>4
      <4> QED BY <2>2, <2>4, <3>1, <4>1, <4>2
    <3>2. CASE e # d
      <4>1. e \in D \ U
        BY <2>4, <3>2
      <4>2. e \notin stop => next[e] \in D \ U
        BY <1>3, <4>1
      <4>3. e \notin stop => G[next[e]] = F[next[e]]
        BY <2>4, <4>2
      <4>4. G[e] = F[e]
        BY <3>2
      <4>5. F[e] = IF e \in stop THEN start[e] ELSE step[<<e, F[next[e]]>>]
        BY <1>3, <4>1
      <4> QED BY <2>4, <4>2, <4>3, <4>4, <4>5
    <3> QED BY <3>1, <3>2
  <2>7. V \in Open
    <3> HIDE DEF V, G
    <3>1. Right(D \ V, G)
      BY <2>6
    <3>2. V \in SUBSET D
      BY <2>0 DEF V
    <3> QED BY <2>5, <3>1, <3>2
  <2> QED BY <1>2, <2>7
<1> QED BY <1>4, <1>5
-----------------------------------------------------------------------------
(* What a batch is, whoever passed it, and what the checks of its values   *)
(* have made sure of: the rows exist, and none is updated twice.           *)
Update == [id : Nat, row : Row]

IsBatch(b) ==
  /\ b.insert \in Seq(Row) /\ b.update \in Seq(Update)
  /\ b.delete \subseteq Nat /\ IsFiniteSet(b.delete)

Distinct(updates) ==
  \A k, m \in DOMAIN updates : updates[k].id = updates[m].id => k = m

IsChecked(b) ==
  /\ b.delete \subseteq DOMAIN table.rows
  /\ \A k \in DOMAIN b.update : /\ b.update[k].id \in DOMAIN table.rows
                                /\ b.update[k].id < lhsPli.next
  /\ Distinct(b.update)

(* The options that are still set hold a batch that was checked; only      *)
(* after a failure are its streams read, and then it will fail again.      *)
HeldInv ==
  /\ DOMAIN held = {"set", "batch", "inserts", "updates"}
  /\ IsBatch(held.batch) /\ IsChecked(held.batch)
  /\ held.inserts \in 0 .. Len(held.batch.insert)
  /\ held.updates \in 0 .. Len(held.batch.update)
  /\ last = "none" => held = NoneHeld
  /\ last # "failed" => held.inserts = 0 /\ held.updates = 0
  /\ last = "failed" =>
       /\ held.set = Operations
       /\ \E k \in DOMAIN held.batch.update :
            held.batch.update[k].id \in table.deleted

(* Each structure by itself.                                               *)
TableInv ==
  /\ NumRows \in Nat
  /\ table.rows \in [0 .. NumRows - 1 -> Row \cup {Blank}]
  /\ table.deleted = {id \in DOMAIN table.rows : table.rows[id] = Blank}

IndexInv ==
  /\ IsPli(lhsPli, LhsValues) /\ IsPli(rhsPli, RhsValues)
  /\ IndexesAgree /\ DOMAIN lhsPli.value \subseteq Nat

(* The inductive invariant.                                                *)
DynamicInv ==
  /\ TableInv /\ IndexInv /\ IndexesDescribeTable
  /\ input \in Seq(Row) /\ Len(input) <= MaxRows
  /\ held.set \subseteq Operations
  /\ last \in {"none", "loaded", "reloaded", "executed", "rejected", "failed"}
  /\ last # "reloaded" => HeldInv
-----------------------------------------------------------------------------
(* Operators: streams, batches and the ids of the updates.                 *)

(* The sequences that a caller may pass.                                   *)
LEMMA SeqsUpToAreSeqs ==
  ASSUME NEW S, NEW n \in Nat, NEW s \in SeqsUpTo(S, n)
  PROVE  s \in Seq(S) /\ Len(s) \in 0 .. n
<1>1. PICK k \in 0 .. n : s \in [1 .. k -> S]
  BY DEF SeqsUpTo
<1> QED BY <1>1

(* What callers pass is a batch.                                           *)
LEMMA BatchesAreBatches ==
  ASSUME NumRows \in Nat, NEW b \in Batches
  PROVE  IsBatch(b)
<1> DEFINE ids == 0 .. NumRows
<1>1. PICK n \in [1 .. 3 -> 0 .. MaxBatch] :
        /\ b.insert \in SeqsUpTo(Row, n[1])
        /\ b.delete \in SUBSET ids
        /\ b.update \in SeqsUpTo([id : ids, row : Row], n[3])
  <2>1. PICK n \in [1 .. 3 -> 0 .. MaxBatch] :
          b \in [insert : SeqsUpTo(Row, n[1]),
                 delete : {D \in SUBSET ids : Cardinality(D) <= n[2]},
                 update : SeqsUpTo([id : ids, row : Row], n[3])]
    BY DEF Batches
  <2> QED BY <2>1
<1>2. n[1] \in Nat /\ n[3] \in Nat
  BY DynamicFdAssumption
<1>3. b.insert \in Seq(Row)
  BY <1>1, <1>2, SeqsUpToAreSeqs
<1>4. b.update \in Seq(Update)
  <2>1. b.update \in Seq([id : ids, row : Row])
    BY <1>1, <1>2, SeqsUpToAreSeqs
  <2>2. ASSUME NEW u \in [id : ids, row : Row] PROVE u \in Update
    <3>1. u = [id |-> u.id, row |-> u.row] /\ u.id \in ids /\ u.row \in Row
      OBVIOUS
    <3>2. u.id \in Nat
      BY <3>1
    <3> HIDE DEF ids
    <3> QED BY <3>1, <3>2 DEF Update
  <2> DEFINE Small == [id : ids, row : Row]
  <2>3. b.update \in Seq(Small) /\ \A u \in Small : u \in Update
    BY <2>1, <2>2
  <2> HIDE DEF Small
  <2> QED BY <2>3
<1>5. b.delete \subseteq Nat /\ IsFiniteSet(b.delete)
  <2>1. IsFiniteSet(ids) /\ ids \subseteq Nat
    BY FS_Interval
  <2> QED BY <1>1, <2>1, FS_Subset
<1> QED BY <1>3, <1>4, <1>5 DEF IsBatch

(* What is left of a stream.                                               *)
LEMMA AfterIs ==
  ASSUME NEW S, NEW s \in Seq(S), NEW n \in 0 .. Len(s)
  PROVE  /\ After(s, n) \in Seq(S) /\ Len(After(s, n)) = Len(s) - n
         /\ \A i \in 1 .. Len(s) - n : After(s, n)[i] = s[n + i]
<1>1. \A i \in n + 1 .. Len(s) : s[i] \in S
  OBVIOUS
<1>2. n + 1 \in Int /\ Len(s) \in Int
  OBVIOUS
<1>3. /\ SubSeq(s, n + 1, Len(s)) \in Seq(S)
      /\ Len(SubSeq(s, n + 1, Len(s))) = IF n + 1 <= Len(s) THEN Len(s) - (n + 1) + 1 ELSE 0
      /\ \A i \in 1 .. Len(s) - (n + 1) + 1 : SubSeq(s, n + 1, Len(s))[i] = s[n + 1 + i - 1]
  BY <1>1, <1>2, SubSeqProperties
<1> QED BY <1>3 DEF After

(* Of a stream of which nothing was read all is left.                      *)
LEMMA AfterNothing ==
  ASSUME NEW S, NEW s \in Seq(S)
  PROVE  After(s, 0) = s
<1>1. Len(s) \in Nat /\ 0 \in 0 .. Len(s)
  OBVIOUS
<1>2. /\ After(s, 0) \in Seq(S) /\ Len(After(s, 0)) = Len(s) - 0
      /\ \A i \in 1 .. Len(s) - 0 : After(s, 0)[i] = s[0 + i]
  BY <1>1, AfterIs
<1>3. /\ Len(After(s, 0)) = Len(s)
      /\ \A i \in 1 .. Len(After(s, 0)) : After(s, 0)[i] = s[i]
  BY <1>1, <1>2
<1> QED BY <1>2, <1>3, SeqEqual

(* There are at most as many ids as updates, and as many only if no two    *)
(* updates are of one row: what the check of the option counts.            *)
LEMMA IdsAreCounted ==
  ASSUME NEW updates \in Seq(Update)
  PROVE  /\ IsFiniteSet(Ids(updates)) /\ Ids(updates) \subseteq Nat
         /\ Cardinality(Ids(updates)) = Len(updates) => Distinct(updates)
<1> DEFINE f == [k \in 1 .. Len(updates) |-> updates[k].id]
<1>1. DOMAIN updates = 1 .. Len(updates) /\ Len(updates) \in Nat
  OBVIOUS
<1>2. f \in Surjection(1 .. Len(updates), Ids(updates))
  BY <1>1 DEF Surjection, Ids
<1>3. IsFiniteSet(1 .. Len(updates)) /\ Cardinality(1 .. Len(updates)) = Len(updates)
  BY <1>1, FS_Interval
<1>4. /\ IsFiniteSet(Ids(updates))
      /\ Cardinality(Ids(updates)) = Len(updates) => f \in Injection(1 .. Len(updates), Ids(updates))
  <2> HIDE DEF f
  <2> QED BY <1>2, <1>3, FS_Surjection
<1>5. Ids(updates) \subseteq Nat
  <2>1. \A k \in DOMAIN updates : updates[k] \in Update
    OBVIOUS
  <2>2. \A k \in DOMAIN updates : updates[k].id \in Nat
    BY <2>1 DEF Update
  <2> QED BY <2>2 DEF Ids
<1>6. f \in Injection(1 .. Len(updates), Ids(updates)) => Distinct(updates)
  BY <1>1 DEF Injection, IsInjective, Distinct
<1> QED BY <1>4, <1>5, <1>6

(* The least member of a set of positions.                                 *)
LEMMA MinIsLeast ==
  ASSUME NEW S, S \subseteq Nat, S # {}
  PROVE  Min(S) \in S /\ \A n \in S : Min(S) <= n
<1>1. PICK m \in S : \A n \in S : ~ (<<n, m>> \in OpToRel(<, Nat))
  BY NatLessThanWellFounded, WFMin
<1>2. ASSUME NEW n \in S PROVE m <= n
  <2>1. ~ (<<n, m>> \in {ss \in Nat \X Nat : ss[1] < ss[2]})
    BY <1>1 DEF OpToRel
  <2> QED BY <2>1
<1> QED BY <1>2 DEF Min
-----------------------------------------------------------------------------
(* UpdateWith, position by position.                                       *)
UpdateOf(V) == [id : Nat, value : V]

IsUpdated(p, pli, inserts, updates, deletes) ==
  LET new == pli.next .. pli.next + Len(inserts) - 1
  IN  /\ p.next = pli.next + Len(inserts)
      /\ p.valid = (pli.valid - Cardinality(deletes) + Len(inserts)) % SizeLimit
      /\ DOMAIN p.value = (DOMAIN pli.value \ deletes) \cup Ids(updates) \cup new
      /\ \A i \in new : p.value[i] = inserts[i - pli.next + 1]
      /\ Distinct(updates) =>
           \A k \in DOMAIN updates :
             updates[k].id \notin new => p.value[updates[k].id] = updates[k].value
      /\ \A i \in DOMAIN pli.value \ deletes :
           i \notin new \cup Ids(updates) => p.value[i] = pli.value[i]

(* UpdateWith gives an index again, with these values.                     *)
LEMMA UpdateWithIs ==
  ASSUME NEW V, NEW pli, IsPli(pli, V),
         NEW inserts \in Seq(V), NEW updates \in Seq(UpdateOf(V)),
         NEW deletes, IsFiniteSet(deletes)
  PROVE  /\ IsPli(UpdateWith(pli, inserts, updates, deletes), V)
         /\ IsUpdated(UpdateWith(pli, inserts, updates, deletes),
                      pli, inserts, updates, deletes)
<1> DEFINE p     == UpdateWith(pli, inserts, updates, deletes)
           kept  == DOMAIN pli.value \ deletes
           new   == pli.next .. pli.next + Len(inserts) - 1
           At(i) == CHOOSE k \in DOMAIN updates : updates[k].id = i
           all   == kept \cup Ids(updates) \cup new
           V1(i) == IF i \in new THEN inserts[i - pli.next + 1]
                    ELSE IF i \in Ids(updates) THEN updates[At(i)].value
                    ELSE pli.value[i]
<1>1. /\ p.value = [i \in all |-> V1(i)]
      /\ p.valid = (pli.valid - Cardinality(deletes) + Len(inserts)) % SizeLimit
      /\ p.next = pli.next + Len(inserts)
  BY DEF UpdateWith
<1>2. /\ pli.value \in [DOMAIN pli.value -> V]
      /\ pli.valid \in 0 .. SizeLimit - 1 /\ pli.next \in Nat
  BY DEF IsPli
<1>3. Cardinality(deletes) \in Nat /\ Len(inserts) \in Nat
  BY FS_CardinalityType
<1>4. p.valid \in 0 .. SizeLimit - 1 /\ p.next \in Nat
  <2>1. SizeLimit \in Nat /\ SizeLimit > 0
    BY DynamicFdAssumption
  <2> HIDE DEF p
  <2>2. PICK c \in Nat : c = Cardinality(deletes)
    BY <1>3
  <2>3. PICK n \in Nat : n = Len(inserts)
    BY <1>3
  <2>4. PICK v \in Int : v = pli.valid
    BY <1>2, <2>1
  <2>5. v - c + n \in Int /\ p.valid = (v - c + n) % SizeLimit
    BY <1>1, <2>2, <2>3, <2>4
  <2>6. p.valid \in 0 .. SizeLimit - 1
    BY <2>1, <2>5
  <2> QED BY <1>1, <1>2, <1>3, <2>6
<1>5. ASSUME NEW i \in Ids(updates) PROVE At(i) \in DOMAIN updates /\ updates[At(i)].id = i
  <2>1. \E k \in DOMAIN updates : updates[k].id = i
    BY DEF Ids
  <2> QED BY <2>1
<1>6. \A k \in DOMAIN updates : updates[k] \in [id : Nat, value : V]
  <2>1. \A k \in DOMAIN updates : updates[k] \in UpdateOf(V)
    OBVIOUS
  <2> QED BY <2>1 DEF UpdateOf
<1>7. \A i \in new : i - pli.next + 1 \in 1 .. Len(inserts)
  BY <1>2, <1>3
<1>8. ASSUME NEW i \in all PROVE V1(i) \in V
  <2>1. CASE i \in new
    <3>1. inserts[i - pli.next + 1] \in V
      BY <2>1, <1>7
    <3> QED BY <2>1, <3>1
  <2>2. CASE i \notin new /\ i \in Ids(updates)
    <3> HIDE DEF At
    <3>1. updates[At(i)].value \in V
      BY <2>2, <1>5, <1>6
    <3> HIDE DEF new
    <3> QED BY <2>2, <3>1
  <2>3. CASE i \notin new /\ i \notin Ids(updates)
    <3> HIDE DEF new
    <3>1. pli.value[i] \in V
      BY <2>3, <1>2
    <3> QED BY <2>3, <3>1
  <2> QED BY <2>1, <2>2, <2>3
<1> HIDE DEF V1
<1>9. p.value \in [DOMAIN p.value -> V] /\ DOMAIN p.value = all
  <2> HIDE DEF p, all
  <2> QED BY <1>1, <1>8
<1>10. IsPli(p, V)
  <2> HIDE DEF p, all
  <2> QED BY <1>4, <1>9 DEF IsPli
<1>11. ASSUME NEW i \in new PROVE p.value[i] = inserts[i - pli.next + 1]
  <2>1. V1(i) = inserts[i - pli.next + 1]
    BY DEF V1
  <2>2. i \in all
    OBVIOUS
  <2> HIDE DEF p, all, new
  <2> QED BY <1>1, <2>1, <2>2
<1>12. ASSUME Distinct(updates), NEW k \in DOMAIN updates, updates[k].id \notin new
       PROVE  p.value[updates[k].id] = updates[k].value
  <2>1. updates[k].id \in Ids(updates)
    BY DEF Ids
  <2>2. At(updates[k].id) = k
    <3> HIDE DEF At
    <3> QED BY <1>5, <1>12, <2>1 DEF Distinct
  <2> HIDE DEF new, At
  <2>3. V1(updates[k].id) = updates[k].value
    BY <1>12, <2>1, <2>2 DEF V1
  <2>4. updates[k].id \in all
    BY <2>1
  <2> HIDE DEF p, all
  <2> QED BY <1>1, <2>3, <2>4
<1>13. ASSUME NEW i \in kept, i \notin new \cup Ids(updates) PROVE p.value[i] = pli.value[i]
  <2> HIDE DEF new
  <2>1. V1(i) = pli.value[i]
    BY <1>13 DEF V1
  <2>2. i \in all
    OBVIOUS
  <2> HIDE DEF p, all
  <2> QED BY <1>1, <2>1, <2>2
<1> HIDE DEF p, new
<1>14. /\ p.next = pli.next + Len(inserts)
       /\ p.valid = (pli.valid - Cardinality(deletes) + Len(inserts)) % SizeLimit
       /\ DOMAIN p.value = kept \cup Ids(updates) \cup new
  BY <1>1, <1>9
<1>15. IsUpdated(p, pli, inserts, updates, deletes)
  BY <1>11, <1>12, <1>13, <1>14 DEF IsUpdated, new
<1> QED BY <1>10, <1>15 DEF p

(* What the two indexes see of a stream.                                   *)
LEMMA SidesOfInserts ==
  ASSUME NEW rows \in Seq(Row)
  PROVE  /\ [k \in DOMAIN rows |-> rows[k].lhs] \in Seq(LhsValues)
         /\ Len([k \in DOMAIN rows |-> rows[k].lhs]) = Len(rows)
         /\ [k \in DOMAIN rows |-> rows[k].rhs] \in Seq(RhsValues)
         /\ Len([k \in DOMAIN rows |-> rows[k].rhs]) = Len(rows)
<1>1. DOMAIN rows = 1 .. Len(rows) /\ Len(rows) \in Nat
  OBVIOUS
<1>2. ASSUME NEW k \in DOMAIN rows PROVE rows[k].lhs \in LhsValues /\ rows[k].rhs \in RhsValues
  <2>1. rows[k] \in Row
    OBVIOUS
  <2> QED BY <2>1 DEF Row
<1> QED BY <1>1, <1>2

(* The same of a stream of updates: the ids stay, a row becomes its side.  *)
LEMMA SidesOfUpdates ==
  ASSUME NEW updates \in Seq(Update)
  PROVE  LET lhs == [k \in DOMAIN updates |-> [id |-> updates[k].id, value |-> updates[k].row.lhs]]
             rhs == [k \in DOMAIN updates |-> [id |-> updates[k].id, value |-> updates[k].row.rhs]]
         IN  /\ lhs \in Seq(UpdateOf(LhsValues)) /\ rhs \in Seq(UpdateOf(RhsValues))
             /\ DOMAIN lhs = DOMAIN updates /\ DOMAIN rhs = DOMAIN updates
             /\ Ids(lhs) = Ids(updates) /\ Ids(rhs) = Ids(updates)
             /\ Distinct(updates) => Distinct(lhs) /\ Distinct(rhs)
<1> DEFINE lhs == [k \in DOMAIN updates |-> [id |-> updates[k].id, value |-> updates[k].row.lhs]]
           rhs == [k \in DOMAIN updates |-> [id |-> updates[k].id, value |-> updates[k].row.rhs]]
<1>1. DOMAIN updates = 1 .. Len(updates) /\ Len(updates) \in Nat
  OBVIOUS
<1>2. ASSUME NEW k \in DOMAIN updates
      PROVE  /\ updates[k].id \in Nat
             /\ updates[k].row.lhs \in LhsValues /\ updates[k].row.rhs \in RhsValues
  <2>1. updates[k] \in Update
    OBVIOUS
  <2>2. updates[k].id \in Nat /\ updates[k].row \in Row
    BY <2>1 DEF Update
  <2> QED BY <2>2 DEF Row
<1>3. lhs \in Seq(UpdateOf(LhsValues)) /\ rhs \in Seq(UpdateOf(RhsValues))
  BY <1>1, <1>2 DEF UpdateOf
<1>4. /\ DOMAIN lhs = DOMAIN updates /\ DOMAIN rhs = DOMAIN updates
      /\ \A k \in DOMAIN updates : lhs[k].id = updates[k].id /\ rhs[k].id = updates[k].id
  OBVIOUS
<1>5. Ids(lhs) = Ids(updates) /\ Ids(rhs) = Ids(updates)
  BY <1>4 DEF Ids
<1>6. Distinct(updates) => Distinct(lhs) /\ Distinct(rhs)
  <2> HIDE DEF lhs, rhs
  <2> QED BY <1>4 DEF Distinct
<1> QED BY <1>3, <1>4, <1>5, <1>6
-----------------------------------------------------------------------------
(* The two halves of ExecuteInternal.                                      *)

Inserts(b) == After(b.insert, held.inserts)
Updates(b) == After(b.update, held.updates)
Untouched(b) == DOMAIN lhsPli.value \ (b.delete \cup Ids(Updates(b)))
New(b)  == lhsPli.next .. lhsPli.next + Len(Inserts(b)) - 1

(* A batch whose streams may be read in part.                              *)
IsOpen(b) ==
  /\ IsBatch(b)
  /\ held.inserts \in 0 .. Len(b.insert) /\ held.updates \in 0 .. Len(b.update)

(* What is left of the streams of a batch is streams of rows and updates.  *)
LEMMA RestIs ==
  ASSUME NEW b, IsOpen(b)
  PROVE  /\ Inserts(b) \in Seq(Row) /\ Updates(b) \in Seq(Update)
         /\ IsFiniteSet(b.delete \cup Ids(Updates(b)))
         /\ Ids(Updates(b)) \subseteq Ids(b.update)
<1>1. b.insert \in Seq(Row) /\ b.update \in Seq(Update) /\ IsFiniteSet(b.delete)
  BY DEF IsOpen, IsBatch
<1>2. held.inserts \in 0 .. Len(b.insert) /\ held.updates \in 0 .. Len(b.update)
  BY DEF IsOpen
<1>3. Inserts(b) \in Seq(Row) /\ Updates(b) \in Seq(Update)
  BY <1>1, <1>2, AfterIs DEF Inserts, Updates
<1>4. IsFiniteSet(Ids(Updates(b)))
  BY <1>3, IdsAreCounted
<1>5. IsFiniteSet(b.delete \cup Ids(Updates(b)))
  BY <1>1, <1>4, FS_Union
<1>6. ASSUME NEW i \in Ids(Updates(b)) PROVE i \in Ids(b.update)
  <2>1. PICK k \in DOMAIN Updates(b) : Updates(b)[k].id = i
    BY DEF Ids
  <2>2. PICK m : m = held.updates + k
    OBVIOUS
  <2>3. k \in 1 .. Len(b.update) - held.updates /\ Len(Updates(b)) = Len(b.update) - held.updates
    <3>1. Len(Updates(b)) = Len(b.update) - held.updates
      BY <1>1, <1>2, AfterIs DEF Updates
    <3> QED BY <1>3, <2>1, <3>1
  <2>4. Updates(b)[k] = b.update[m]
    BY <1>1, <1>2, <2>2, <2>3, AfterIs DEF Updates
  <2>5. m \in DOMAIN b.update
    BY <1>1, <1>2, <2>2, <2>3
  <2> QED BY <2>1, <2>4, <2>5 DEF Ids
<1> QED BY <1>3, <1>5, <1>6

(* Both indexes move alike, each with its side of the rows.                *)
LEMMA IndexesMove ==
  ASSUME IndexInv, NEW b, IsOpen(b), UpdateIndexes(b),
         \A k \in DOMAIN b.update : b.update[k].id < lhsPli.next
  PROVE  /\ IndexInv'
         /\ lhsPli'.next = lhsPli.next + Len(Inserts(b))
         /\ DOMAIN lhsPli'.value = Untouched(b) \cup Ids(Updates(b)) \cup New(b)
         /\ \A i \in New(b) :
              /\ lhsPli'.value[i] = Inserts(b)[i - lhsPli.next + 1].lhs
              /\ rhsPli'.value[i] = Inserts(b)[i - lhsPli.next + 1].rhs
         /\ Distinct(Updates(b)) =>
              \A k \in DOMAIN Updates(b) :
                /\ lhsPli'.value[Updates(b)[k].id] = Updates(b)[k].row.lhs
                /\ rhsPli'.value[Updates(b)[k].id] = Updates(b)[k].row.rhs
         /\ \A i \in Untouched(b) :
              /\ lhsPli'.value[i] = lhsPli.value[i]
              /\ rhsPli'.value[i] = rhsPli.value[i]
<1> DEFINE ins == Inserts(b)
           upd == Updates(b)
           deletes == b.delete \cup Ids(upd)
           lhsIns == [k \in DOMAIN ins |-> ins[k].lhs]
           rhsIns == [k \in DOMAIN ins |-> ins[k].rhs]
           lhsUpd == [k \in DOMAIN upd |-> [id |-> upd[k].id, value |-> upd[k].row.lhs]]
           rhsUpd == [k \in DOMAIN upd |-> [id |-> upd[k].id, value |-> upd[k].row.rhs]]
<1>1. /\ lhsPli' = UpdateWith(lhsPli, lhsIns, lhsUpd, deletes)
      /\ rhsPli' = UpdateWith(rhsPli, rhsIns, rhsUpd, deletes)
  BY DEF UpdateIndexes, Inserts, Updates
<1>2. ins \in Seq(Row) /\ upd \in Seq(Update) /\ IsFiniteSet(deletes) /\ Ids(upd) \subseteq Ids(b.update)
  BY RestIs
<1> HIDE DEF ins, upd
<1>3. /\ lhsIns \in Seq(LhsValues) /\ Len(lhsIns) = Len(ins)
      /\ rhsIns \in Seq(RhsValues) /\ Len(rhsIns) = Len(ins)
  BY <1>2, SidesOfInserts
<1>4. /\ lhsUpd \in Seq(UpdateOf(LhsValues)) /\ rhsUpd \in Seq(UpdateOf(RhsValues))
      /\ DOMAIN lhsUpd = DOMAIN upd /\ DOMAIN rhsUpd = DOMAIN upd
      /\ Ids(lhsUpd) = Ids(upd) /\ Ids(rhsUpd) = Ids(upd)
      /\ Distinct(upd) => Distinct(lhsUpd) /\ Distinct(rhsUpd)
  BY <1>2, SidesOfUpdates
<1>5. /\ \A k \in DOMAIN ins : lhsIns[k] = ins[k].lhs /\ rhsIns[k] = ins[k].rhs
      /\ \A k \in DOMAIN upd : /\ lhsUpd[k].id = upd[k].id /\ lhsUpd[k].value = upd[k].row.lhs
                               /\ rhsUpd[k].id = upd[k].id /\ rhsUpd[k].value = upd[k].row.rhs
  OBVIOUS
<1>6. /\ IsPli(lhsPli, LhsValues) /\ IsPli(rhsPli, RhsValues)
      /\ DOMAIN lhsPli.value = DOMAIN rhsPli.value /\ lhsPli.next = rhsPli.next
      /\ lhsPli.valid = rhsPli.valid
      /\ \A i \in DOMAIN lhsPli.value : i \in Nat /\ i < lhsPli.next
  BY DEF IndexInv, IndexesAgree
<1>7. lhsPli.next \in Nat /\ Len(ins) \in Nat
  BY <1>2, <1>6 DEF IsPli
<1> HIDE DEF lhsIns, rhsIns, lhsUpd, rhsUpd, deletes
<1> DEFINE new == lhsPli.next .. lhsPli.next + Len(ins) - 1
<1>8. /\ IsPli(lhsPli', LhsValues)
      /\ lhsPli'.next = lhsPli.next + Len(ins)
      /\ lhsPli'.valid = (lhsPli.valid - Cardinality(deletes) + Len(ins)) % SizeLimit
      /\ DOMAIN lhsPli'.value = (DOMAIN lhsPli.value \ deletes) \cup Ids(upd) \cup new
      /\ \A i \in new : lhsPli'.value[i] = lhsIns[i - lhsPli.next + 1]
      /\ Distinct(lhsUpd) =>
           \A k \in DOMAIN lhsUpd :
             lhsUpd[k].id \notin new => lhsPli'.value[lhsUpd[k].id] = lhsUpd[k].value
      /\ \A i \in DOMAIN lhsPli.value \ deletes :
           i \notin new \cup Ids(upd) => lhsPli'.value[i] = lhsPli.value[i]
  <2>1. /\ IsPli(lhsPli', LhsValues)
        /\ IsUpdated(lhsPli', lhsPli, lhsIns, lhsUpd, deletes)
    BY <1>1, <1>2, <1>3, <1>4, <1>6, UpdateWithIs
  <2> QED BY <1>3, <1>4, <1>6, <2>1 DEF IsUpdated
<1>9. /\ IsPli(rhsPli', RhsValues)
      /\ rhsPli'.next = rhsPli.next + Len(ins)
      /\ rhsPli'.valid = (rhsPli.valid - Cardinality(deletes) + Len(ins)) % SizeLimit
      /\ DOMAIN rhsPli'.value = (DOMAIN rhsPli.value \ deletes) \cup Ids(upd) \cup new
      /\ \A i \in new : rhsPli'.value[i] = rhsIns[i - rhsPli.next + 1]
      /\ Distinct(rhsUpd) =>
           \A k \in DOMAIN rhsUpd :
             rhsUpd[k].id \notin new => rhsPli'.value[rhsUpd[k].id] = rhsUpd[k].value
      /\ \A i \in DOMAIN rhsPli.value \ deletes :
           i \notin new \cup Ids(upd) => rhsPli'.value[i] = rhsPli.value[i]
  <2>1. /\ IsPli(rhsPli', RhsValues)
        /\ IsUpdated(rhsPli', rhsPli, rhsIns, rhsUpd, deletes)
    BY <1>1, <1>2, <1>3, <1>4, <1>6, UpdateWithIs
  <2> QED BY <1>3, <1>4, <1>6, <2>1 DEF IsUpdated
<1>10. \A i \in Ids(upd) : i \in Nat /\ i < lhsPli.next
  <2>1. \A i \in Ids(upd) : i < lhsPli.next
    BY <1>2 DEF Ids
  <2> QED BY <1>2, <2>1, IdsAreCounted
<1>11. Untouched(b) = DOMAIN lhsPli.value \ deletes /\ New(b) = new
  BY DEF Untouched, New, deletes, ins, upd
<1>12. \A i \in new : i \in Nat /\ i >= lhsPli.next /\ i < lhsPli'.next
  BY <1>7, <1>8
<1>13. \A i \in DOMAIN lhsPli'.value : i \in Nat /\ i < lhsPli'.next
  <2>1. lhsPli'.next \in Nat /\ lhsPli.next <= lhsPli'.next
    BY <1>7, <1>8
  <2>2. ASSUME NEW i \in DOMAIN lhsPli.value \cup Ids(upd) PROVE i \in Nat /\ i < lhsPli'.next
    BY <1>6, <1>7, <1>10, <2>1
  <2> HIDE DEF new
  <2> QED BY <1>8, <1>12, <2>2
<1>14. IndexesAgree'
  <2> HIDE DEF new
  <2> QED BY <1>6, <1>8, <1>9, <1>13 DEF IndexesAgree
<1>15. IndexInv'
  BY <1>8, <1>9, <1>13, <1>14 DEF IndexInv
<1>16. ASSUME NEW i \in new
       PROVE  /\ lhsPli'.value[i] = ins[i - lhsPli.next + 1].lhs
              /\ rhsPli'.value[i] = ins[i - lhsPli.next + 1].rhs
  <2>1. i - lhsPli.next + 1 \in DOMAIN ins
    BY <1>2, <1>7
  <2>2. /\ lhsPli'.value[i] = lhsIns[i - lhsPli.next + 1]
        /\ rhsPli'.value[i] = rhsIns[i - lhsPli.next + 1]
    BY <1>6, <1>8, <1>9
  <2> QED BY <1>5, <2>1, <2>2
<1>17. ASSUME Distinct(upd), NEW k \in DOMAIN upd
       PROVE  /\ lhsPli'.value[upd[k].id] = upd[k].row.lhs
              /\ rhsPli'.value[upd[k].id] = upd[k].row.rhs
  <2>1. upd[k].id \in Ids(upd)
    BY DEF Ids
  <2>2. upd[k].id \notin new
    <3>1. upd[k].id \in Nat /\ upd[k].id < lhsPli.next
      BY <1>10, <2>1
    <3> QED BY <1>7, <3>1
  <2> HIDE DEF new
  <2> QED BY <1>4, <1>5, <1>8, <1>9, <1>17, <2>2
<1>18. ASSUME NEW i \in DOMAIN lhsPli.value \ deletes
       PROVE  lhsPli'.value[i] = lhsPli.value[i] /\ rhsPli'.value[i] = rhsPli.value[i]
  <2>1. i \notin new
    BY <1>6, <1>7
  <2>2. i \notin Ids(upd)
    BY DEF deletes
  <2> HIDE DEF new
  <2> QED BY <1>6, <1>8, <1>9, <2>1, <2>2
<1> HIDE DEF new
<1>19. /\ lhsPli'.next = lhsPli.next + Len(ins)
       /\ DOMAIN lhsPli'.value = (DOMAIN lhsPli.value \ deletes) \cup Ids(upd) \cup new
  BY <1>8
<1> QED BY <1>11, <1>15, <1>16, <1>17, <1>18, <1>19 DEF ins, upd

(* The table takes the first n updates, and no row of them is deleted.     *)
LEMMA TableMoves ==
  ASSUME TableInv, NEW b, IsBatch(b), b.delete \subseteq DOMAIN table.rows,
         NEW n \in 0 .. Len(b.update),
         \A k \in 1 .. n : b.update[k].id \notin table.deleted \cup b.delete,
         \A k \in 1 .. n : b.update[k].id \in DOMAIN table.rows,
         table' = TableAfter(b, n)
  PROVE  /\ TableInv'
         /\ NumRows' = NumRows + Len(b.insert)
         /\ table'.deleted = table.deleted \cup b.delete
         /\ \A id \in NumRows .. NumRows' - 1 : table'.rows[id] = b.insert[id - NumRows + 1]
         /\ Distinct(b.update) => \A k \in 1 .. n : table'.rows[b.update[k].id] = b.update[k].row
         /\ \A id \in DOMAIN table.rows \ b.delete :
              (\A k \in 1 .. n : b.update[k].id # id) => table'.rows[id] = table.rows[id]
<1> DEFINE grown  == NumRows + Len(b.insert)
           done   == SubSeq(b.update, 1, n)
           At(id) == CHOOSE k \in DOMAIN done : done[k].id = id
           R(id)  == IF id \in Ids(done) THEN done[At(id)].row
                     ELSE IF id >= NumRows THEN b.insert[id - NumRows + 1]
                     ELSE IF id \in b.delete THEN Blank
                     ELSE table.rows[id]
<1>1. /\ table'.rows = [id \in 0 .. grown - 1 |-> R(id)]
      /\ table'.deleted = table.deleted \cup b.delete
  BY DEF TableAfter
<1>2. /\ NumRows \in Nat /\ DOMAIN table.rows = 0 .. NumRows - 1
      /\ \A id \in DOMAIN table.rows : table.rows[id] \in Row \cup {Blank}
      /\ table.deleted = {id \in DOMAIN table.rows : table.rows[id] = Blank}
  BY DEF TableInv
<1>3. /\ b.insert \in Seq(Row) /\ b.update \in Seq(Update)
      /\ Len(b.insert) \in Nat /\ Len(b.update) \in Nat /\ n \in Nat
  BY DEF IsBatch
<1>4. DOMAIN done = 1 .. n /\ \A k \in 1 .. n : done[k] = b.update[k]
  <2>1. \A i \in 1 .. n : b.update[i] \in Update
    BY <1>3
  <2>2. /\ done \in Seq(Update) /\ Len(done) = IF 1 <= n THEN n - 1 + 1 ELSE 0
        /\ \A i \in 1 .. n - 1 + 1 : done[i] = b.update[1 + i - 1]
    BY <1>3, <2>1, SubSeqProperties
  <2> HIDE DEF done
  <2> QED BY <1>3, <2>2
<1>5. grown \in Nat
  BY <1>2, <1>3
<1> HIDE DEF done
<1>6. ASSUME NEW id \in Ids(done)
      PROVE  At(id) \in 1 .. n /\ b.update[At(id)].id = id /\ R(id) = b.update[At(id)].row
  <2>1. \E k \in DOMAIN done : done[k].id = id
    BY DEF Ids
  <2>2. At(id) \in DOMAIN done /\ done[At(id)].id = id
    BY <2>1
  <2> HIDE DEF At
  <2> QED BY <1>4, <2>2
<1> HIDE DEF At
<1>7. ASSUME NEW k \in 1 .. n PROVE b.update[k].row \in Row /\ b.update[k].id \in Nat
  <2>1. b.update[k] \in Update
    BY <1>3
  <2> QED BY <2>1 DEF Update
<1>8. \A k \in 1 .. n : b.update[k].id \in Ids(done)
  BY <1>4 DEF Ids
<1>9. \A id \in NumRows .. grown - 1 : id >= NumRows /\ id - NumRows + 1 \in 1 .. Len(b.insert)
  BY <1>2, <1>3
<1>10. ASSUME NEW id \in 0 .. grown - 1
       PROVE  /\ R(id) \in Row \cup {Blank}
              /\ R(id) = Blank <=> id \in table.deleted \cup b.delete
  <2>1. Blank \notin Row
    BY DynamicFdAssumption
  <2>2. CASE id \in Ids(done)
    <3>1. R(id) \in Row
      BY <1>6, <1>7, <2>2
    <3>2. id \notin table.deleted \cup b.delete
      BY <1>6, <2>2
    <3> QED BY <2>1, <3>1, <3>2
  <2>3. CASE id \notin Ids(done) /\ id >= NumRows
    <3>1. id \in NumRows .. grown - 1 /\ id \notin DOMAIN table.rows
      BY <1>2, <1>5, <2>3
    <3>2. b.insert[id - NumRows + 1] \in Row
      BY <1>3, <1>9, <3>1
    <3>3. R(id) = b.insert[id - NumRows + 1]
      BY <2>3
    <3>4. id \notin table.deleted \cup b.delete
      BY <1>2, <3>1
    <3> QED BY <2>1, <3>2, <3>3, <3>4
  <2>4. CASE id \notin Ids(done) /\ ~(id >= NumRows)
    <3>1. id \in DOMAIN table.rows
      BY <1>2, <1>5, <2>4
    <3>2. R(id) = IF id \in b.delete THEN Blank ELSE table.rows[id]
      BY <2>4
    <3> HIDE DEF R
    <3> QED BY <1>2, <2>1, <3>1, <3>2
  <2> QED BY <2>2, <2>3, <2>4
<1>11. ASSUME NEW id \in NumRows .. grown - 1 PROVE R(id) = b.insert[id - NumRows + 1]
  <2>1. id \notin DOMAIN table.rows
    BY <1>2, <1>9
  <2>2. id \notin Ids(done)
    BY <1>6, <2>1
  <2> QED BY <1>9, <2>2
<1>12. ASSUME Distinct(b.update), NEW k \in 1 .. n PROVE R(b.update[k].id) = b.update[k].row
  <2>1. b.update[k].id \in Ids(done)
    BY <1>8
  <2>2. PICK j \in 1 .. n : b.update[j].id = b.update[k].id /\ R(b.update[k].id) = b.update[j].row
    BY <1>6, <2>1
  <2>3. j \in DOMAIN b.update /\ k \in DOMAIN b.update
    BY <1>3
  <2>4. j = k
    BY <1>12, <2>2, <2>3 DEF Distinct
  <2> HIDE DEF R
  <2> QED BY <2>2, <2>4
<1>13. ASSUME NEW id \in DOMAIN table.rows \ b.delete, \A k \in 1 .. n : b.update[k].id # id
       PROVE  R(id) = table.rows[id]
  <2>1. id \notin Ids(done)
    BY <1>6, <1>13
  <2>2. ~(id >= NumRows)
    BY <1>2
  <2> QED BY <2>1, <2>2
<1> HIDE DEF R
<1>14. DOMAIN table'.rows = 0 .. grown - 1 /\ NumRows' = grown
  <2>1. DOMAIN table'.rows = 0 .. grown - 1
    BY <1>1
  <2>2. Cardinality(0 .. grown - 1) = grown
    <3>1. 0 \in Int /\ grown - 1 \in Int
      BY <1>5
    <3>2. Cardinality(0 .. grown - 1) = IF 0 > grown - 1 THEN 0 ELSE grown - 1 - 0 + 1
      BY <3>1, FS_Interval
    <3> HIDE DEF grown
    <3> QED BY <1>5, <3>2
  <2> QED BY <2>1, <2>2 DEF NumRows
<1>15. \A id \in 0 .. grown - 1 : table'.rows[id] = R(id)
  BY <1>1
<1>16. DOMAIN table.rows \subseteq 0 .. grown - 1 /\ NumRows .. grown - 1 \subseteq 0 .. grown - 1
  BY <1>2, <1>3
<1>17. TableInv'
  <2>1. table'.rows \in [0 .. NumRows' - 1 -> Row \cup {Blank}]
    <3> HIDE DEF grown
    <3> QED BY <1>1, <1>10, <1>14
  <2>2. table'.deleted = {id \in DOMAIN table'.rows : table'.rows[id] = Blank}
    <3>1. table.deleted \cup b.delete \subseteq DOMAIN table'.rows
      <4> HIDE DEF grown
      <4> QED BY <1>2, <1>14, <1>16
    <3> HIDE DEF grown
    <3> QED BY <1>1, <1>10, <1>14, <1>15, <3>1
  <2> QED BY <1>5, <1>14, <2>1, <2>2 DEF TableInv
<1>18. \A k \in 1 .. n : b.update[k].id \in 0 .. grown - 1
  BY <1>16
<1> HIDE DEF grown
<1> QED BY <1>1, <1>11, <1>12, <1>13, <1>14, <1>15, <1>16, <1>17, <1>18 DEF grown
-----------------------------------------------------------------------------
(* What load_data builds.                                                  *)

(* The table has the rows it was given, none of them deleted.              *)
LEMMA TableOfIs ==
  ASSUME NEW rows \in Seq(Row), NEW t, t = TableOf(rows)
  PROVE  /\ DOMAIN t.rows = 0 .. Len(rows) - 1 /\ Cardinality(DOMAIN t.rows) = Len(rows)
         /\ t.rows \in [0 .. Len(rows) - 1 -> Row \cup {Blank}]
         /\ t.deleted = {} /\ {id \in DOMAIN t.rows : t.rows[id] = Blank} = {}
         /\ \A id \in 0 .. Len(rows) - 1 : t.rows[id] = rows[id + 1]
<1>1. t.rows = [id \in 0 .. Len(rows) - 1 |-> rows[id + 1]] /\ t.deleted = {}
  BY DEF TableOf
<1>2. \A id \in 0 .. Len(rows) - 1 : rows[id + 1] \in Row
  OBVIOUS
<1>3. Blank \notin Row
  BY DynamicFdAssumption
<1>4. Cardinality(0 .. Len(rows) - 1) = Len(rows)
  <2>1. 0 \in Int /\ Len(rows) - 1 \in Int /\ Len(rows) \in Nat
    OBVIOUS
  <2>2. Cardinality(0 .. Len(rows) - 1) = IF 0 > Len(rows) - 1 THEN 0 ELSE Len(rows) - 1 - 0 + 1
    BY <2>1, FS_Interval
  <2> QED BY <2>1, <2>2
<1> QED BY <1>1, <1>2, <1>3, <1>4

(* An index has the values it was given, in their order.                   *)
LEMMA CreateForIs ==
  ASSUME NEW V, NEW values \in Seq(V), Len(values) <= MaxRows, NEW pli, pli = CreateFor(values)
  PROVE  /\ IsPli(pli, V) /\ DOMAIN pli.value = 0 .. Len(values) - 1
         /\ pli.next = Len(values) /\ pli.valid = Len(values)
         /\ \A i \in 0 .. Len(values) - 1 : pli.value[i] = values[i + 1]
<1>1. /\ pli.value = [i \in 0 .. Len(values) - 1 |-> values[i + 1]]
      /\ pli.valid = Len(values) /\ pli.next = Len(values)
  BY DEF CreateFor
<1>2. \A i \in 0 .. Len(values) - 1 : values[i + 1] \in V
  OBVIOUS
<1>3. Len(values) \in Nat /\ Len(values) \in 0 .. SizeLimit - 1
  BY DynamicFdAssumption
<1>4. pli.value \in [DOMAIN pli.value -> V]
  BY <1>1, <1>2
<1> QED BY <1>1, <1>3, <1>4 DEF IsPli

(* Of the same rows they are the indexes of the table.                     *)
IsLoaded(t, lhs, rhs, n) ==
  /\ n \in Nat /\ Cardinality(DOMAIN t.rows) = n
  /\ t.rows \in [0 .. n - 1 -> Row \cup {Blank}]
  /\ t.deleted = {id \in DOMAIN t.rows : t.rows[id] = Blank}
  /\ IsPli(lhs, LhsValues) /\ IsPli(rhs, RhsValues)
  /\ DOMAIN lhs.value = DOMAIN rhs.value
  /\ lhs.next = n /\ rhs.next = n /\ lhs.valid = rhs.valid
  /\ \A i \in DOMAIN lhs.value : i \in Nat /\ i < n
  /\ lhs.value = [id \in DOMAIN t.rows \ t.deleted |-> t.rows[id].lhs]
  /\ rhs.value = [id \in DOMAIN t.rows \ t.deleted |-> t.rows[id].rhs]

(* Table and indexes of the same rows describe the same rows.              *)
LEMMA LoadedIs ==
  ASSUME NEW rows \in Seq(Row), Len(rows) <= MaxRows,
         NEW t, t = TableOf(rows),
         NEW lhs, lhs = CreateFor([k \in DOMAIN rows |-> rows[k].lhs]),
         NEW rhs, rhs = CreateFor([k \in DOMAIN rows |-> rows[k].rhs])
  PROVE  IsLoaded(t, lhs, rhs, Len(rows))
<1> DEFINE lhss  == [k \in DOMAIN rows |-> rows[k].lhs]
           rhss == [k \in DOMAIN rows |-> rows[k].rhs]
           n     == Len(rows)
<1>1. /\ lhss \in Seq(LhsValues) /\ Len(lhss) = n
      /\ rhss \in Seq(RhsValues) /\ Len(rhss) = n
  BY SidesOfInserts
<1>2. DOMAIN rows = 1 .. n /\ n \in Nat
  OBVIOUS
<1>3. \A k \in DOMAIN rows : lhss[k] = rows[k].lhs /\ rhss[k] = rows[k].rhs
  OBVIOUS
<1>4. /\ DOMAIN t.rows = 0 .. n - 1 /\ Cardinality(DOMAIN t.rows) = n
      /\ t.rows \in [0 .. n - 1 -> Row \cup {Blank}]
      /\ t.deleted = {} /\ {id \in DOMAIN t.rows : t.rows[id] = Blank} = {}
      /\ \A id \in 0 .. n - 1 : t.rows[id] = rows[id + 1]
  BY TableOfIs
<1>5. lhs = CreateFor(lhss) /\ rhs = CreateFor(rhss)
  OBVIOUS
<1> HIDE DEF lhss, rhss
<1>6. /\ IsPli(lhs, LhsValues) /\ DOMAIN lhs.value = 0 .. Len(lhss) - 1
      /\ lhs.next = Len(lhss) /\ lhs.valid = Len(lhss)
      /\ \A i \in 0 .. Len(lhss) - 1 : lhs.value[i] = lhss[i + 1]
  BY <1>1, <1>5, CreateForIs
<1>7. /\ IsPli(rhs, RhsValues) /\ DOMAIN rhs.value = 0 .. Len(rhss) - 1
      /\ rhs.next = Len(rhss) /\ rhs.valid = Len(rhss)
      /\ \A i \in 0 .. Len(rhss) - 1 : rhs.value[i] = rhss[i + 1]
  BY <1>1, <1>5, CreateForIs
<1>8. /\ DOMAIN lhs.value = 0 .. n - 1 /\ DOMAIN rhs.value = 0 .. n - 1
      /\ lhs.next = n /\ lhs.valid = n /\ rhs.next = n /\ rhs.valid = n
      /\ \A i \in 0 .. n - 1 : lhs.value[i] = lhss[i + 1] /\ rhs.value[i] = rhss[i + 1]
  BY <1>1, <1>6, <1>7
<1>9. \A i \in 0 .. n - 1 : i \in Nat /\ i < n /\ i + 1 \in DOMAIN rows
  BY <1>2
<1> HIDE DEF n
<1>10. ASSUME NEW i \in 0 .. n - 1
       PROVE  lhs.value[i] = t.rows[i].lhs /\ rhs.value[i] = t.rows[i].rhs
  <2>1. t.rows[i] = rows[i + 1]
    BY <1>4
  <2>2. lhs.value[i] = lhss[i + 1] /\ rhs.value[i] = rhss[i + 1]
    BY <1>8
  <2>3. i + 1 \in DOMAIN rows
    BY <1>9
  <2> QED BY <1>3, <2>1, <2>2, <2>3
<1>11. /\ lhs.value = [i \in DOMAIN lhs.value |-> lhs.value[i]]
       /\ rhs.value = [i \in DOMAIN rhs.value |-> rhs.value[i]]
  BY <1>6, <1>7 DEF IsPli
<1>12. DOMAIN t.rows \ t.deleted = 0 .. n - 1
  BY <1>4
<1>13. /\ lhs.value = [id \in DOMAIN t.rows \ t.deleted |-> t.rows[id].lhs]
       /\ rhs.value = [id \in DOMAIN t.rows \ t.deleted |-> t.rows[id].rhs]
  BY <1>8, <1>10, <1>11, <1>12
<1>14. /\ n \in Nat /\ t.deleted = {id \in DOMAIN t.rows : t.rows[id] = Blank}
       /\ DOMAIN lhs.value = DOMAIN rhs.value /\ lhs.valid = rhs.valid
       /\ \A i \in DOMAIN lhs.value : i \in Nat /\ i < n
  BY <1>2, <1>4, <1>8, <1>9
<1>15. IsLoaded(t, lhs, rhs, n)
  BY <1>4, <1>6, <1>7, <1>8, <1>13, <1>14 DEF IsLoaded
<1> QED BY <1>15 DEF n
-----------------------------------------------------------------------------
(* What execute works on: values that are still set, and given ones that   *)
(* passed their checks.                                                    *)
LEMMA ResolvedIsChecked ==
  ASSUME DynamicInv, last # "reloaded", NEW kwargs, IsBatch(kwargs),
         NEW given \in SUBSET (Unset \ Rejected(kwargs))
  PROVE  /\ IsOpen(Resolve(kwargs, given)) /\ IsChecked(Resolve(kwargs, given))
         /\ last = "failed" => Unset = {} /\ Deleted(Resolve(kwargs, given)) # {}
<1> DEFINE b == Resolve(kwargs, given)
<1>1. /\ b.insert = IF "insert" \in given THEN kwargs.insert ELSE held.batch.insert
      /\ b.delete = IF "delete" \in given THEN kwargs.delete ELSE held.batch.delete
      /\ b.update = IF "update" \in given THEN kwargs.update ELSE held.batch.update
  BY DEF Resolve, Operations
<1>2. HeldInv
  BY DEF DynamicInv
<1>3. /\ IsBatch(held.batch) /\ IsChecked(held.batch)
      /\ held.inserts \in 0 .. Len(held.batch.insert)
      /\ held.updates \in 0 .. Len(held.batch.update)
      /\ last # "failed" => held.inserts = 0 /\ held.updates = 0
      /\ last = "failed" => held.set = Operations
      /\ last = "failed" => \E k \in DOMAIN held.batch.update :
                              held.batch.update[k].id \in table.deleted
  BY <1>2 DEF HeldInv
<1> HIDE DEF b
<1>4. IsBatch(b)
  BY <1>1, <1>3 DEF IsBatch
<1>5. CASE last = "failed"
  <2>1. Unset = {} /\ given = {}
    BY <1>3, <1>5 DEF Unset
  <2>2. b.insert = held.batch.insert /\ b.delete = held.batch.delete /\ b.update = held.batch.update
    BY <1>1, <2>1
  <2>3. IsOpen(b) /\ IsChecked(b)
    BY <1>3, <1>4, <2>2 DEF IsOpen, IsChecked
  <2>4. Deleted(b) # {}
    BY <1>3, <1>5, <2>2 DEF Deleted
  <2> QED BY <2>1, <2>3, <2>4 DEF b
<1>6. CASE last # "failed"
  <2>1. IsOpen(b)
    <3>1. Len(b.insert) \in Nat /\ Len(b.update) \in Nat
      BY <1>4 DEF IsBatch
    <3> QED BY <1>3, <1>4, <1>6, <3>1 DEF IsOpen
  <2>2. lhsPli.next = NumRows /\ DOMAIN table.rows = 0 .. NumRows - 1 /\ NumRows \in Nat
    BY <1>6 DEF DynamicInv, IndexesDescribeTable, Undisturbed, TableInv
  <2>3. ASSUME "delete" \in given PROVE kwargs.delete \subseteq DOMAIN table.rows
    <3>1. CheckDeletes(kwargs.delete)
      BY <2>3 DEF Rejected
    <3> QED BY <3>1 DEF CheckDeletes, IsRowIndexValid
  <2>4. b.delete \subseteq DOMAIN table.rows
    BY <1>1, <1>3, <2>3 DEF IsChecked
  <2>5. ASSUME "update" \in given
        PROVE  /\ \A k \in DOMAIN kwargs.update : /\ kwargs.update[k].id \in DOMAIN table.rows
                                                  /\ kwargs.update[k].id < lhsPli.next
               /\ Distinct(kwargs.update)
    <3>1. CheckUpdates(kwargs.update)
      BY <2>5 DEF Rejected
    <3>2. kwargs.update \in Seq(Update)
      BY DEF IsBatch
    <3>3. Distinct(kwargs.update)
      BY <3>1, <3>2, IdsAreCounted DEF CheckUpdates
    <3>4. \A k \in DOMAIN kwargs.update : kwargs.update[k].id \in DOMAIN table.rows
      BY <3>1 DEF CheckUpdates, IsRowIndexValid, Ids
    <3>5. \A id \in DOMAIN table.rows : id < lhsPli.next
      BY <2>2
    <3> QED BY <3>3, <3>4, <3>5
  <2>6. /\ \A k \in DOMAIN b.update : /\ b.update[k].id \in DOMAIN table.rows
                                      /\ b.update[k].id < lhsPli.next
        /\ Distinct(b.update)
    <3>1. CASE "update" \in given
      BY <1>1, <2>5, <3>1
    <3>2. CASE "update" \notin given
      BY <1>1, <1>3, <3>2 DEF IsChecked
    <3> QED BY <3>1, <3>2
  <2>7. IsChecked(b)
    BY <2>4, <2>6 DEF IsChecked
  <2> QED BY <1>6, <2>1, <2>7 DEF b
<1> QED BY <1>5, <1>6
-----------------------------------------------------------------------------
(* Nothing is set: the batch is empty.                                     *)
LEMMA NoneHeldIs ==
  /\ IsBatch(NoBatch) /\ NoneHeld.batch = NoBatch /\ NoneHeld.set = {}
  /\ NoneHeld.inserts = 0 /\ NoneHeld.updates = 0
  /\ DOMAIN NoneHeld = {"set", "batch", "inserts", "updates"}
  /\ Len(NoBatch.insert) = 0 /\ Len(NoBatch.update) = 0
  /\ NoBatch.delete = {} /\ DOMAIN NoBatch.update = {}
<1>1. NoBatch.insert = <<>> /\ NoBatch.update = <<>> /\ NoBatch.delete = {}
  BY DEF NoBatch
<1>2. IsBatch(NoBatch)
  BY <1>1, FS_EmptySet DEF IsBatch
<1> QED BY <1>1, <1>2 DEF NoneHeld

(* The empty table and the empty indexes.                                  *)
LEMMA InvInit == DynamicInit => DynamicInv
<1> SUFFICES ASSUME DynamicInit PROVE DynamicInv
  OBVIOUS
<1>1. /\ input = <<>> /\ table = TableOf(<<>>) /\ lhsPli = CreateFor(<<>>)
      /\ rhsPli = CreateFor(<<>>) /\ held = NoneHeld /\ last = "none"
  BY DEF DynamicInit
<1>2. TableInv /\ IndexInv /\ IndexesDescribeTable
  <2>1. <<>> \in Seq(Row) /\ Len(<<>>) <= MaxRows
    BY DynamicFdAssumption
  <2>2. /\ [k \in DOMAIN <<>> |-> <<>>[k].lhs] = <<>>
        /\ [k \in DOMAIN <<>> |-> <<>>[k].rhs] = <<>>
    OBVIOUS
  <2>3. PICK rows \in Seq(Row) :
          /\ Len(rows) <= MaxRows /\ table = TableOf(rows)
          /\ lhsPli = CreateFor([k \in DOMAIN rows |-> rows[k].lhs])
          /\ rhsPli = CreateFor([k \in DOMAIN rows |-> rows[k].rhs])
    BY <1>1, <2>1, <2>2
  <2>4. IsLoaded(table, lhsPli, rhsPli, Len(rows))
    BY <2>3, LoadedIs
  <2> QED BY <2>4
       DEF IsLoaded, TableInv, NumRows, IndexInv, IndexesAgree, IndexesDescribeTable, Live
<1>3. HeldInv
  BY <1>1, NoneHeldIs DEF HeldInv, IsChecked, Distinct
<1>4. input \in Seq(Row) /\ Len(input) <= MaxRows /\ held.set \subseteq Operations
  BY <1>1, NoneHeldIs, DynamicFdAssumption
<1> QED BY <1>1, <1>2, <1>3, <1>4 DEF DynamicInv

(* load_data: two passes over one input.                                   *)
LEMMA LoadKeeps ==
  ASSUME DynamicInv, NEW rows \in SeqsUpTo(Row, MaxRows), Load(rows)
  PROVE  DynamicInv'
<1>1. rows \in Seq(Row) /\ Len(rows) <= MaxRows
  BY SeqsUpToAreSeqs, DynamicFdAssumption
<1>2. /\ last = "none" /\ input' = rows /\ table' = TableOf(rows) /\ held' = held
      /\ lhsPli' = CreateFor([k \in DOMAIN rows |-> rows[k].lhs])
      /\ rhsPli' = CreateFor([k \in DOMAIN rows |-> rows[k].rhs])
      /\ last' = "loaded"
  BY DEF Load, Loaded
<1>3. TableInv' /\ IndexInv' /\ IndexesDescribeTable'
  <2>1. IsLoaded(table', lhsPli', rhsPli', Len(rows))
    BY <1>1, <1>2, LoadedIs
  <2> QED BY <2>1
       DEF IsLoaded, TableInv, NumRows, IndexInv, IndexesAgree, IndexesDescribeTable, Live
<1>4. held' = NoneHeld
  BY <1>2 DEF DynamicInv, HeldInv
<1>5. HeldInv'
  BY <1>2, <1>4, NoneHeldIs DEF HeldInv, IsChecked, Distinct
<1> QED BY <1>1, <1>2, <1>3, <1>4, <1>5, NoneHeldIs DEF DynamicInv

(* A second load_data: the indexes are empty, the table is the input.      *)
LEMMA ReloadKeeps ==
  ASSUME DynamicInv, Reload
  PROVE  DynamicInv'
<1>1. /\ input' = input /\ table' = TableOf(input) /\ held' = held
      /\ lhsPli' = CreateFor(<<>>) /\ rhsPli' = CreateFor(<<>>) /\ last' = "reloaded"
  BY DEF Reload
<1>2. input \in Seq(Row) /\ Len(input) \in Nat /\ held.set \subseteq Operations
  BY DEF DynamicInv
<1>3. TableInv'
  <2>1. /\ DOMAIN table'.rows = 0 .. Len(input) - 1
        /\ Cardinality(DOMAIN table'.rows) = Len(input)
        /\ table'.rows \in [0 .. Len(input) - 1 -> Row \cup {Blank}]
        /\ table'.deleted = {} /\ {id \in DOMAIN table'.rows : table'.rows[id] = Blank} = {}
    BY <1>1, <1>2, TableOfIs
  <2> QED BY <1>2, <2>1 DEF TableInv, NumRows
<1>4. IndexInv'
  <2>1. /\ <<>> \in Seq(LhsValues) /\ <<>> \in Seq(RhsValues)
        /\ Len(<<>>) = 0 /\ Len(<<>>) <= MaxRows
    BY DynamicFdAssumption
  <2>2. /\ IsPli(lhsPli', LhsValues) /\ DOMAIN lhsPli'.value = 0 .. Len(<<>>) - 1
        /\ lhsPli'.next = Len(<<>>) /\ lhsPli'.valid = Len(<<>>)
    BY <1>1, <2>1, CreateForIs
  <2>3. /\ IsPli(rhsPli', RhsValues) /\ DOMAIN rhsPli'.value = 0 .. Len(<<>>) - 1
        /\ rhsPli'.next = Len(<<>>) /\ rhsPli'.valid = Len(<<>>)
    BY <1>1, <2>1, CreateForIs
  <2>4. DOMAIN lhsPli'.value = {}
    BY <2>1, <2>2
  <2> QED BY <2>2, <2>3, <2>4 DEF IndexInv, IndexesAgree
<1>5. IndexesDescribeTable'
  BY <1>1 DEF IndexesDescribeTable, Undisturbed
<1> QED BY <1>1, <1>2, <1>3, <1>4, <1>5 DEF DynamicInv

(* A rejected call changes only what is set.                               *)
LEMMA RejectedKeeps ==
  ASSUME DynamicInv, NEW kwargs, IsBatch(kwargs), ExecuteRejected(kwargs)
  PROVE  DynamicInv'
<1>1. /\ last # "none" /\ last # "reloaded" /\ Rejected(kwargs) # {} /\ last' = "rejected"
      /\ table' = table /\ lhsPli' = lhsPli /\ rhsPli' = rhsPli /\ input' = input
  BY DEF ExecuteRejected, CallExecute, Loaded
<1>2. PICK S \in SUBSET {o \in Unset \ Rejected(kwargs) : kwargs[o] # NoBatch[o]} :
        held' = [held EXCEPT !.set = @ \cup S, !.batch = Resolve(kwargs, S)]
  BY DEF ExecuteRejected
<1>3. S \in SUBSET (Unset \ Rejected(kwargs)) /\ S \subseteq Operations
  BY DEF Unset
<1>4. Unset # {}
  BY <1>1 DEF Rejected
<1>5. /\ IsOpen(Resolve(kwargs, S)) /\ IsChecked(Resolve(kwargs, S)) /\ last # "failed"
  BY <1>1, <1>3, <1>4, ResolvedIsChecked
<1>6. HeldInv
  BY <1>1 DEF DynamicInv
<1>7. /\ DOMAIN held' = {"set", "batch", "inserts", "updates"}
      /\ held'.set = held.set \cup S /\ held'.batch = Resolve(kwargs, S)
      /\ held'.inserts = held.inserts /\ held'.updates = held.updates
      /\ held.inserts = 0 /\ held.updates = 0
  BY <1>2, <1>5, <1>6 DEF HeldInv
<1>8. IsChecked(held.batch)'
  BY <1>1, <1>5, <1>7 DEF IsChecked
<1>9. HeldInv'
  BY <1>1, <1>5, <1>7, <1>8 DEF HeldInv, IsOpen
<1>10. TableInv' /\ IndexInv'
  BY <1>1 DEF DynamicInv, TableInv, NumRows, IndexInv, IndexesAgree
<1>11. IndexesDescribeTable'
  BY <1>1, <1>5 DEF DynamicInv, IndexesDescribeTable, Undisturbed, Live, NumRows
<1>12. input' \in Seq(Row) /\ Len(input') <= MaxRows /\ held'.set \subseteq Operations
  BY <1>1, <1>3, <1>7 DEF DynamicInv
<1> QED BY <1>1, <1>9, <1>10, <1>11, <1>12 DEF DynamicInv

(* The indexes and the table take a batch whose updates are all of rows    *)
(* that are there, and describe the same rows as before.                   *)
LEMMA BatchIsFollowed ==
  ASSUME DynamicInv, Undisturbed, NEW b, IsOpen(b), IsChecked(b),
         held.inserts = 0, held.updates = 0, Deleted(b) = {},
         UpdateIndexes(b), table' = TableAfter(b, Len(b.update))
  PROVE  /\ TableInv' /\ IndexInv' /\ lhsPli'.next = NumRows'
         /\ lhsPli'.value = [id \in Live' |-> table'.rows[id].lhs]
         /\ rhsPli'.value = [id \in Live' |-> table'.rows[id].rhs]
<1>1. /\ IsBatch(b) /\ b.insert \in Seq(Row) /\ b.update \in Seq(Update)
      /\ Len(b.insert) \in Nat /\ Len(b.update) \in Nat
  BY DEF IsOpen, IsBatch
<1>2. /\ b.delete \subseteq DOMAIN table.rows /\ Distinct(b.update)
      /\ \A k \in DOMAIN b.update : /\ b.update[k].id \in DOMAIN table.rows
                                    /\ b.update[k].id < lhsPli.next
  BY DEF IsChecked
<1>3. Inserts(b) = b.insert /\ Updates(b) = b.update
  BY <1>1, AfterNothing DEF Inserts, Updates
<1>4. /\ TableInv /\ IndexInv /\ lhsPli.next = NumRows
      /\ lhsPli.value = [id \in Live |-> table.rows[id].lhs]
      /\ rhsPli.value = [id \in Live |-> table.rows[id].rhs]
  BY DEF DynamicInv, IndexesDescribeTable
<1>5. NumRows \in Nat /\ DOMAIN table.rows = 0 .. NumRows - 1 /\ table.deleted \subseteq DOMAIN table.rows
  BY <1>4 DEF TableInv
<1>6. \A k \in 1 .. Len(b.update) : b.update[k].id \notin table.deleted \cup b.delete
  BY <1>1 DEF Deleted
<1> DEFINE n == Len(b.update)
           new == NumRows .. NumRows + Len(b.insert) - 1
<1>7. /\ TableInv'
      /\ NumRows' = NumRows + Len(b.insert)
      /\ table'.deleted = table.deleted \cup b.delete
      /\ \A id \in NumRows .. NumRows' - 1 : table'.rows[id] = b.insert[id - NumRows + 1]
      /\ Distinct(b.update) => \A k \in 1 .. n : table'.rows[b.update[k].id] = b.update[k].row
      /\ \A id \in DOMAIN table.rows \ b.delete :
           (\A k \in 1 .. n : b.update[k].id # id) => table'.rows[id] = table.rows[id]
  <2>1. n \in 0 .. Len(b.update)
    BY <1>1
  <2>2. \A k \in 1 .. n : b.update[k].id \in DOMAIN table.rows
    BY <1>1, <1>2
  <2> QED BY <1>1, <1>2, <1>4, <1>6, <2>1, <2>2, TableMoves
<1>8. /\ IndexInv'
      /\ lhsPli'.next = lhsPli.next + Len(b.insert)
      /\ DOMAIN lhsPli'.value = Untouched(b) \cup Ids(b.update) \cup New(b)
      /\ \A i \in New(b) : /\ lhsPli'.value[i] = b.insert[i - lhsPli.next + 1].lhs
                           /\ rhsPli'.value[i] = b.insert[i - lhsPli.next + 1].rhs
      /\ Distinct(b.update) =>
           \A k \in DOMAIN b.update : /\ lhsPli'.value[b.update[k].id] = b.update[k].row.lhs
                                      /\ rhsPli'.value[b.update[k].id] = b.update[k].row.rhs
      /\ \A i \in Untouched(b) : lhsPli'.value[i] = lhsPli.value[i] /\ rhsPli'.value[i] = rhsPli.value[i]
  <2>1. /\ IndexInv'
        /\ lhsPli'.next = lhsPli.next + Len(Inserts(b))
        /\ DOMAIN lhsPli'.value = Untouched(b) \cup Ids(Updates(b)) \cup New(b)
        /\ \A i \in New(b) : /\ lhsPli'.value[i] = Inserts(b)[i - lhsPli.next + 1].lhs
                             /\ rhsPli'.value[i] = Inserts(b)[i - lhsPli.next + 1].rhs
        /\ Distinct(Updates(b)) =>
             \A k \in DOMAIN Updates(b) :
               /\ lhsPli'.value[Updates(b)[k].id] = Updates(b)[k].row.lhs
               /\ rhsPli'.value[Updates(b)[k].id] = Updates(b)[k].row.rhs
        /\ \A i \in Untouched(b) : lhsPli'.value[i] = lhsPli.value[i] /\ rhsPli'.value[i] = rhsPli.value[i]
    BY <1>2, <1>4, IndexesMove
  <2> QED BY <1>3, <2>1
<1>9. New(b) = new /\ Untouched(b) = Live \ (b.delete \cup Ids(b.update))
  BY <1>3, <1>4 DEF New, Untouched
<1>10. /\ Ids(b.update) \subseteq Live \ b.delete
       /\ \A id \in Ids(b.update) : \E k \in 1 .. n : b.update[k].id = id
       /\ \A k \in 1 .. n : b.update[k].id \in Ids(b.update)
  <2>1. DOMAIN b.update = 1 .. n
    BY <1>1
  <2> QED BY <1>2, <1>6, <2>1 DEF Ids, Live
<1>11. DOMAIN table'.rows = 0 .. NumRows + Len(b.insert) - 1
  <2>1. DOMAIN table'.rows = 0 .. NumRows' - 1
    BY <1>7 DEF TableInv
  <2>2. NumRows' = NumRows + Len(b.insert)
    BY <1>7
  <2> QED BY <1>1, <1>5, <2>1, <2>2
<1>12. Live' = (Live \ b.delete) \cup new
  <2>1. DOMAIN table'.rows = DOMAIN table.rows \cup new
    BY <1>1, <1>5, <1>11
  <2>2. DOMAIN table.rows \cap new = {}
    BY <1>5
  <2> HIDE DEF new
  <2> QED BY <1>2, <1>5, <1>7, <2>1, <2>2 DEF Live
<1>13. DOMAIN lhsPli'.value = Live'
  <2> HIDE DEF new
  <2> QED BY <1>8, <1>9, <1>10, <1>12
<1>14. ASSUME NEW i \in Live'
       PROVE  lhsPli'.value[i] = table'.rows[i].lhs /\ rhsPli'.value[i] = table'.rows[i].rhs
  <2>1. CASE i \in new
    <3>1. table'.rows[i] = b.insert[i - NumRows + 1]
      <4>1. i \in NumRows .. NumRows' - 1
        <5>1. NumRows' = NumRows + Len(b.insert)
          BY <1>7
        <5> QED BY <1>1, <1>5, <2>1, <5>1
      <4> HIDE DEF new, n
      <4> QED BY <1>7, <4>1
    <3>2. /\ lhsPli'.value[i] = b.insert[i - NumRows + 1].lhs
          /\ rhsPli'.value[i] = b.insert[i - NumRows + 1].rhs
      <4> HIDE DEF new
      <4> QED BY <1>4, <1>8, <1>9, <2>1
    <3> QED BY <3>1, <3>2
  <2>2. CASE i \in Ids(b.update)
    <3>1. PICK k \in 1 .. n : b.update[k].id = i
      BY <1>10, <2>2
    <3>2. k \in DOMAIN b.update
      BY <1>1
    <3> HIDE DEF n
    <3>3. table'.rows[i] = b.update[k].row
      BY <1>2, <1>7, <3>1
    <3>4. lhsPli'.value[i] = b.update[k].row.lhs /\ rhsPli'.value[i] = b.update[k].row.rhs
      BY <1>2, <1>8, <3>1, <3>2
    <3> QED BY <3>3, <3>4
  <2>3. CASE i \notin new /\ i \notin Ids(b.update)
    <3> HIDE DEF new, n
    <3>1. i \in Live /\ i \notin b.delete /\ i \in DOMAIN table.rows
      BY <1>12, <2>3 DEF Live
    <3>2. i \in Untouched(b)
      BY <1>9, <2>3, <3>1
    <3>3. table'.rows[i] = table.rows[i]
      BY <1>7, <1>10, <2>3, <3>1
    <3>4. lhsPli.value[i] = table.rows[i].lhs /\ rhsPli.value[i] = table.rows[i].rhs
      BY <1>4, <3>1
    <3> QED BY <1>8, <3>2, <3>3, <3>4
  <2> QED BY <2>1, <2>2, <2>3
<1>15. /\ IsPli(lhsPli', LhsValues) /\ IsPli(rhsPli', RhsValues)
       /\ DOMAIN rhsPli'.value = DOMAIN lhsPli'.value
  BY <1>8 DEF IndexInv, IndexesAgree
<1>16. /\ lhsPli'.value = [id \in DOMAIN lhsPli'.value |-> lhsPli'.value[id]]
       /\ rhsPli'.value = [id \in DOMAIN rhsPli'.value |-> rhsPli'.value[id]]
  BY <1>15 DEF IsPli
<1>17. /\ lhsPli'.value = [id \in Live' |-> table'.rows[id].lhs]
       /\ rhsPli'.value = [id \in Live' |-> table'.rows[id].rhs]
  BY <1>13, <1>14, <1>15, <1>16
<1> QED BY <1>4, <1>7, <1>8, <1>17

(* A batch that was taken up to its end: nothing is held any more.         *)
LEMMA SucceedsKeeps ==
  ASSUME DynamicInv, NEW kwargs, IsBatch(kwargs), ExecuteSucceeds(kwargs)
  PROVE  DynamicInv'
<1> DEFINE b == Resolve(kwargs, Unset)
<1>1. /\ last # "none" /\ last # "reloaded" /\ Rejected(kwargs) = {} /\ Deleted(b) = {}
      /\ UpdateIndexes(b) /\ table' = TableAfter(b, Len(b.update))
      /\ held' = NoneHeld /\ last' = "executed" /\ input' = input
  BY DEF ExecuteSucceeds, CallExecute, Loaded
<1>2. Unset \in SUBSET (Unset \ Rejected(kwargs))
  BY <1>1
<1>3. IsOpen(b) /\ IsChecked(b) /\ last # "failed"
  BY <1>1, <1>2, ResolvedIsChecked
<1>4. Undisturbed /\ held.inserts = 0 /\ held.updates = 0
  BY <1>1, <1>3 DEF DynamicInv, HeldInv, Undisturbed
<1> HIDE DEF b
<1>5. /\ TableInv' /\ IndexInv' /\ lhsPli'.next = NumRows'
      /\ lhsPli'.value = [id \in Live' |-> table'.rows[id].lhs]
      /\ rhsPli'.value = [id \in Live' |-> table'.rows[id].rhs]
  BY <1>1, <1>3, <1>4, BatchIsFollowed
<1>6. IndexesDescribeTable'
  BY <1>5 DEF IndexesDescribeTable
<1>7. HeldInv'
  BY <1>1, NoneHeldIs DEF HeldInv, IsChecked, Distinct
<1> QED BY <1>1, <1>5, <1>6, <1>7, NoneHeldIs DEF DynamicInv

(* A batch that ends at an update of a deleted row: the table has what     *)
(* came before it, the indexes have all of it, and it is held.             *)
LEMMA FailsKeeps ==
  ASSUME DynamicInv, NEW kwargs, IsBatch(kwargs), ExecuteFails(kwargs)
  PROVE  DynamicInv'
<1> DEFINE b == Resolve(kwargs, Unset)
           k == Min(Deleted(b))
<1>1. /\ last # "none" /\ last # "reloaded" /\ Rejected(kwargs) = {} /\ Deleted(b) # {}
      /\ UpdateIndexes(b) /\ table' = TableAfter(b, k - 1)
      /\ held' = [set |-> Operations, batch |-> b, inserts |-> Len(b.insert), updates |-> k]
      /\ last' = "failed" /\ input' = input
  BY DEF ExecuteFails, CallExecute, Loaded
<1>2. Unset \in SUBSET (Unset \ Rejected(kwargs))
  BY <1>1
<1>3. IsOpen(b) /\ IsChecked(b)
  BY <1>1, <1>2, ResolvedIsChecked
<1> HIDE DEF b
<1>4. /\ IsBatch(b) /\ b.insert \in Seq(Row) /\ b.update \in Seq(Update)
      /\ Len(b.insert) \in Nat /\ Len(b.update) \in Nat /\ DOMAIN b.update = 1 .. Len(b.update)
  BY <1>3 DEF IsOpen, IsBatch
<1>5. /\ b.delete \subseteq DOMAIN table.rows /\ Distinct(b.update)
      /\ \A j \in DOMAIN b.update : /\ b.update[j].id \in DOMAIN table.rows
                                    /\ b.update[j].id < lhsPli.next
  BY <1>3 DEF IsChecked
<1>6. k \in Deleted(b) /\ \A j \in Deleted(b) : k <= j
  <2>1. Deleted(b) \subseteq Nat
    BY <1>4 DEF Deleted
  <2> QED BY <1>1, <2>1, MinIsLeast
<1> HIDE DEF k
<1>7. k \in 1 .. Len(b.update) /\ b.update[k].id \in table.deleted \cup b.delete
  BY <1>4, <1>6 DEF Deleted
<1>8. TableInv /\ IndexInv
  BY DEF DynamicInv
<1>9. /\ TableInv' /\ NumRows' = NumRows + Len(b.insert)
      /\ table'.deleted = table.deleted \cup b.delete
  <2> DEFINE n == k - 1
  <2>1. n \in 0 .. Len(b.update)
    BY <1>4, <1>7
  <2>2. ASSUME NEW j \in 1 .. n
        PROVE  /\ b.update[j].id \notin table.deleted \cup b.delete
               /\ b.update[j].id \in DOMAIN table.rows
    <3>1. j \in DOMAIN b.update /\ ~(k <= j)
      BY <1>4, <1>7
    <3>2. j \notin Deleted(b)
      BY <1>6, <3>1
    <3> QED BY <1>5, <3>1, <3>2 DEF Deleted
  <2>3. table' = TableAfter(b, n)
    BY <1>1
  <2> HIDE DEF n
  <2> QED BY <1>4, <1>5, <1>8, <2>1, <2>2, <2>3, TableMoves
<1>10. IndexInv' /\ lhsPli'.next = lhsPli.next + Len(Inserts(b))
  BY <1>1, <1>3, <1>5, <1>8, IndexesMove
<1>11. DOMAIN table.rows \subseteq DOMAIN table'.rows
  <2>1. /\ DOMAIN table.rows = 0 .. NumRows - 1 /\ NumRows \in Nat
        /\ DOMAIN table'.rows = 0 .. NumRows' - 1
    BY <1>8, <1>9 DEF TableInv
  <2> QED BY <1>4, <1>9, <2>1
<1>12. ASSUME NEW j \in DOMAIN b.update
       PROVE  b.update[j].id \in DOMAIN table'.rows /\ b.update[j].id < lhsPli'.next
  <2>1. lhsPli.next \in Nat /\ Len(Inserts(b)) \in Nat
    BY <1>3, <1>8, RestIs DEF IndexInv, IsPli
  <2>2. b.update[j] \in Update
    BY <1>4
  <2>3. b.update[j].id \in Nat
    BY <2>2 DEF Update
  <2> QED BY <1>5, <1>10, <1>11, <2>1, <2>3
<1>13. HeldInv'
  <2>1. /\ DOMAIN held' = {"set", "batch", "inserts", "updates"}
        /\ held'.batch = b /\ held'.inserts = Len(b.insert) /\ held'.updates = k
        /\ held'.set = Operations
    BY <1>1
  <2>2. \E j \in DOMAIN b.update : b.update[j].id \in table'.deleted
    BY <1>4, <1>7, <1>9
  <2>3. IsChecked(held.batch)'
    BY <1>5, <1>11, <1>12, <2>1 DEF IsChecked
  <2> QED BY <1>1, <1>4, <1>7, <2>1, <2>2, <2>3 DEF HeldInv
<1>14. IndexesDescribeTable'
  BY <1>1 DEF IndexesDescribeTable, Undisturbed
<1>15. input' \in Seq(Row) /\ Len(input') <= MaxRows /\ held'.set \subseteq Operations
  BY <1>1 DEF DynamicInv
<1> QED BY <1>1, <1>9, <1>10, <1>13, <1>14, <1>15 DEF DynamicInv
-----------------------------------------------------------------------------
(* Every step keeps the invariant.                                         *)
LEMMA InvNext == DynamicInv /\ [DynamicNext]_dynamicVars => DynamicInv'
<1> SUFFICES ASSUME DynamicInv, [DynamicNext]_dynamicVars PROVE DynamicInv'
  OBVIOUS
<1>1. ASSUME NEW rows \in SeqsUpTo(Row, MaxRows), Load(rows) PROVE DynamicInv'
  BY <1>1, LoadKeeps
<1>2. CASE Reload
  BY <1>2, ReloadKeeps
<1>3. ASSUME NEW b \in Batches PROVE IsBatch(b)
  <2>1. NumRows \in Nat
    BY DEF DynamicInv, TableInv
  <2> QED BY <2>1, BatchesAreBatches
<1>4. ASSUME NEW b \in Batches, ExecuteSucceeds(b) PROVE DynamicInv'
  BY <1>3, <1>4, SucceedsKeeps
<1>5. ASSUME NEW b \in Batches, ExecuteFails(b) PROVE DynamicInv'
  BY <1>3, <1>5, FailsKeeps
<1>6. ASSUME NEW b \in Batches, ExecuteRejected(b) PROVE DynamicInv'
  BY <1>3, <1>6, RejectedKeeps
<1>7. CASE UNCHANGED dynamicVars
  <2>1. /\ input' = input /\ table' = table /\ lhsPli' = lhsPli /\ rhsPli' = rhsPli
        /\ held' = held /\ last' = last
    BY <1>7 DEF dynamicVars
  <2>2. TableInv' /\ IndexInv'
    BY <2>1 DEF DynamicInv, TableInv, NumRows, IndexInv, IndexesAgree
  <2>3. IndexesDescribeTable'
    BY <2>1 DEF DynamicInv, IndexesDescribeTable, Undisturbed, Live, NumRows
  <2>4. last' # "reloaded" => HeldInv'
    BY <2>1 DEF DynamicInv, HeldInv, IsChecked
  <2> QED BY <2>1, <2>2, <2>3, <2>4 DEF DynamicInv
<1> QED BY <1>1, <1>2, <1>4, <1>5, <1>6, <1>7 DEF DynamicNext

(* The invariant contains the property.                                    *)
LEMMA InvImpliesRight == DynamicInv => IndexesAreRight
<1> SUFFICES ASSUME DynamicInv PROVE IndexesAreRight
  OBVIOUS
<1>1. TypeOK
  BY DEF DynamicInv, TableInv, IndexInv, TypeOK
<1> QED BY <1>1 DEF DynamicInv, IndexInv, IndexesAreRight

(* It holds in every state.                                                *)
LEMMA AlwaysInv == DynamicSpec => []DynamicInv
BY InvInit, InvNext, PTL DEF DynamicSpec

(* After every sequence of loads, of batches that succeed, are rejected    *)
(* or fail half way, both indexes hold the same records with the same      *)
(* sizes and next positions; and unless a batch failed in the table's      *)
(* Update or the data were loaded again, they are exactly the rows of the  *)
(* table that are not deleted, each under its number.                      *)
THEOREM IndexesAreAlwaysRight == DynamicSpec => []IndexesAreRight
BY AlwaysInv, InvImpliesRight, PTL

-----------------------------------------------------------------------------
(* Sums.  A fold is what its recursion defines, if something satisfies it: *)
(* here the sizes of unions do, so that no induction is needed to define   *)
(* it, and the well-foundedness of inclusion shows that nothing else does. *)
IsSumOver(f, F) ==
  F = [s \in SUBSET DOMAIN f |->
         IF s = {} THEN 0
         ELSE f[CHOOSE x \in s : TRUE] + F[s \ {CHOOSE x \in s : TRUE}]]

(* If anything satisfies the recursion, SumFunction takes its value.       *)
LEMMA SumIs ==
  ASSUME NEW f, NEW F, IsSumOver(f, F)
  PROVE  \E iter : IsSumOver(f, iter) /\ SumFunction(f) = iter[DOMAIN f]
<1> DEFINE i == CHOOSE iter : IsSumOver(f, iter)
<1>1. SumFunction(f) = i[DOMAIN f]
  BY Zenon DEF SumFunction, SumFunctionOnSet, FoldFunctionOnSet, MapThenFoldSet, IsSumOver
<1>2. IsSumOver(f, i)
  BY Zenon
<1> QED BY <1>1, <1>2

(* Over a finite set only one function does.                               *)
LEMMA SumIsUnique ==
  ASSUME NEW f, IsFiniteSet(DOMAIN f), NEW F, IsSumOver(f, F)
  PROVE  SumFunction(f) = F[DOMAIN f]
<1>1. PICK iter : IsSumOver(f, iter) /\ SumFunction(f) = iter[DOMAIN f]
  BY SumIs
<1> DEFINE Wrong == {s \in SUBSET DOMAIN f : iter[s] # F[s]}
<1>2. SUFFICES ASSUME Wrong # {} PROVE FALSE
  BY <1>1
<1>3. Wrong \subseteq FiniteSubsetsOf(DOMAIN f)
  BY FS_FiniteSubsetsOfFinite
<1>4. PICK t \in Wrong : \A u \in Wrong : ~ (<<u, t>> \in StrictSubsetOrdering(DOMAIN f))
  <2>1. IsWellFoundedOn(StrictSubsetOrdering(DOMAIN f), FiniteSubsetsOf(DOMAIN f))
    BY FS_StrictSubsetOrderingWellFounded
  <2> HIDE DEF Wrong
  <2> QED BY <1>2, <1>3, <2>1, WFMin
<1>5. t # {}
  <2>1. iter[{}] = 0 /\ F[{}] = 0
    BY <1>1 DEF IsSumOver
  <2> QED BY <2>1
<1> DEFINE x == CHOOSE x \in t : TRUE
<1>6. x \in t
  BY <1>5
<1> HIDE DEF x
<1>7. iter[t] = f[x] + iter[t \ {x}] /\ F[t] = f[x] + F[t \ {x}]
  BY <1>1, <1>5 DEF IsSumOver, x
<1>8. t \ {x} \notin Wrong
  <2>1. <<t \ {x}, t>> \in StrictSubsetOrdering(DOMAIN f)
    BY <1>6 DEF StrictSubsetOrdering
  <2> QED BY <1>4, <2>1
<1> QED BY <1>7, <1>8

(* Two finite sets that have nothing in common.                            *)
LEMMA UnionIsSum ==
  ASSUME NEW S, IsFiniteSet(S), NEW T, IsFiniteSet(T), S \cap T = {}
  PROVE  /\ IsFiniteSet(S \cup T)
         /\ Cardinality(S \cup T) = Cardinality(S) + Cardinality(T)
<1>1. Cardinality(S \cap T) = 0
  BY FS_EmptySet
<1>2. Cardinality(S) \in Nat /\ Cardinality(T) \in Nat
  BY FS_CardinalityType
<1>3. Cardinality(S \cup T) = Cardinality(S) + Cardinality(T) - Cardinality(S \cap T)
  BY FS_Union
<1> QED BY <1>1, <1>2, <1>3, FS_Union

(* The sizes of finite sets that have nothing in common add up to the size *)
(* of their union.                                                         *)
LEMMA SizesAddUp ==
  ASSUME NEW S, IsFiniteSet(S), NEW A, 
         \A v \in S : IsFiniteSet(A[v]),
         \A v, w \in S : v # w => A[v] \cap A[w] = {}
  PROVE  /\ IsFiniteSet(UNION {A[v] : v \in S})
         /\ SumFunction([v \in S |-> Cardinality(A[v])]) = Cardinality(UNION {A[v] : v \in S})
<1> DEFINE f == [v \in S |-> Cardinality(A[v])]
           All(s) == UNION {A[v] : v \in s}
           F == [s \in SUBSET S |-> Cardinality(All(s))]
<1>1. ASSUME NEW s \in SUBSET S PROVE IsFiniteSet(All(s))
  <2> DEFINE As == {A[v] : v \in s}
  <2>1. IsFiniteSet(As)
    <3> DEFINE g == [v \in s |-> A[v]]
    <3>1. g \in Surjection(s, As)
      BY DEF Surjection
    <3>2. IsFiniteSet(s)
      BY FS_Subset
    <3> HIDE DEF g, As
    <3> QED BY <3>1, <3>2, FS_Surjection
  <2>2. \A T \in As : IsFiniteSet(T)
    OBVIOUS
  <2> HIDE DEF As
  <2>3. IsFiniteSet(UNION As)
    BY <2>1, <2>2, FS_UNION
  <2> QED BY <2>3 DEF As
<1>2. ASSUME NEW s \in SUBSET S, s # {}
      PROVE  F[s] = f[CHOOSE x \in s : TRUE] + F[s \ {CHOOSE x \in s : TRUE}]
  <2> DEFINE x == CHOOSE x \in s : TRUE
             r == s \ {x}
  <2>1. x \in s
    BY <1>2
  <2> HIDE DEF x
  <2>2. r \in SUBSET S /\ x \in S
    BY <2>1
  <2>3. IsFiniteSet(All(r)) /\ IsFiniteSet(A[x])
    BY <1>1, <2>2
  <2>4. All(s) = All(r) \cup A[x]
    BY <2>1
  <2>5. All(r) \cap A[x] = {}
    <3> SUFFICES ASSUME NEW e \in All(r), e \in A[x] PROVE FALSE
      OBVIOUS
    <3>1. PICK v \in r : e \in A[v]
      OBVIOUS
    <3>2. v \in S /\ v # x
      OBVIOUS
    <3> QED BY <2>2, <3>1, <3>2
  <2> HIDE DEF All, r
  <2>6. Cardinality(All(s)) = Cardinality(All(r)) + Cardinality(A[x])
    BY <2>3, <2>4, <2>5, UnionIsSum
  <2>7. Cardinality(All(r)) \in Nat /\ Cardinality(A[x]) \in Nat
    BY <2>3, FS_CardinalityType
  <2>8. F[s] = f[x] + F[r]
    BY <2>2, <2>6, <2>7
  <2> QED BY <2>8 DEF x, r
<1>3. F[{}] = 0
  <2>1. All({}) = {}
    OBVIOUS
  <2> QED BY <2>1, FS_EmptySet
<1>4. IsSumOver(f, F)
  <2> HIDE DEF f
  <2>1. DOMAIN f = S
    BY DEF f
  <2>2. F = [s \in SUBSET DOMAIN f |-> F[s]]
    BY <2>1
  <2> HIDE DEF F
  <2>3. \A s \in SUBSET DOMAIN f : F[s] = IF s = {} THEN 0
         ELSE f[CHOOSE x \in s : TRUE] + F[s \ {CHOOSE x \in s : TRUE}]
    BY <1>2, <1>3, <2>1
  <2> QED BY <2>2, <2>3 DEF IsSumOver
<1>5. SumFunction(f) = F[S]
  <2>1. DOMAIN f = S
    OBVIOUS
  <2> HIDE DEF f, F
  <2> QED BY <1>4, <2>1, SumIsUnique
<1>6. F[S] = Cardinality(All(S)) /\ IsFiniteSet(All(S))
  BY <1>1
<1> QED BY <1>5, <1>6

-----------------------------------------------------------------------------
(* The verdict, by two indexes of the same records.                        *)

Agree(D, lhs, rhs) ==
  DOMAIN lhs.value = D /\ DOMAIN rhs.value = D /\ IsFiniteSet(D)

(* The definition of the dependency on what the indexes hold of D.         *)
Differ(lhs, rhs, i, j) == lhs.value[i] = lhs.value[j] /\ rhs.value[i] # rhs.value[j]
PairsOf(D, lhs, rhs) == {p \in D \X D : Differ(lhs, rhs, p[1], p[2])}
RowsOf(D, lhs, rhs)  == {i \in D : \E j \in D : Differ(lhs, rhs, i, j)}
BadOf(D, lhs, rhs)   == {lhs.value[i] : i \in RowsOf(D, lhs, rhs)}
TruthOf(D, lhs, rhs) ==
  [clusters  |-> Cardinality(BadOf(D, lhs, rhs)),
   rows      |-> Cardinality(RowsOf(D, lhs, rhs)),
   conflicts |-> Cardinality(PairsOf(D, lhs, rhs))]

(* The pairs of different members, and those among them that differ.       *)
OffDiagonal(C) == {p \in C \X C : p[1] # p[2]}
Differing(C, pli) == {p \in C \X C : pli.value[p[1]] # pli.value[p[2]]}

(* The pairs that the code counts with n * (n - 1).                        *)
LEMMA PairsAreCounted ==
  ASSUME NEW C, IsFiniteSet(C)
  PROVE  /\ IsFiniteSet(OffDiagonal(C))
         /\ Cardinality(OffDiagonal(C)) = Pairs(Cardinality(C))
<1> DEFINE diagonal == {p \in C \X C : p[1] = p[2]}
           f == [i \in C |-> <<i, i>>]
<1>1. IsFiniteSet(C \X C) /\ Cardinality(C \X C) = Cardinality(C) * Cardinality(C)
  BY FS_Product
<1>2. f \in Bijection(C, diagonal)
  <2>1. f \in [C -> diagonal] /\ \A i, j \in C : f[i] = f[j] => i = j
    OBVIOUS
  <2>2. \A p \in diagonal : p[1] \in C /\ f[p[1]] = p
    OBVIOUS
  <2> HIDE DEF f, diagonal
  <2> QED BY <2>1, <2>2 DEF Bijection, Injection, Surjection, IsInjective
<1>3. IsFiniteSet(diagonal) /\ Cardinality(diagonal) = Cardinality(C)
  <2> HIDE DEF f, diagonal
  <2> QED BY <1>2, FS_Bijection DEF ExistsBijection
<1>4. IsFiniteSet(OffDiagonal(C))
  BY <1>1, FS_Subset DEF OffDiagonal
<1>5. C \X C = diagonal \cup OffDiagonal(C) /\ diagonal \cap OffDiagonal(C) = {}
  BY DEF OffDiagonal
<1>6. Cardinality(C) * Cardinality(C) = Cardinality(C) + Cardinality(OffDiagonal(C))
  <2> HIDE DEF diagonal
  <2> QED BY <1>1, <1>3, <1>4, <1>5, UnionIsSum
<1>7. Cardinality(C) \in Nat /\ Cardinality(OffDiagonal(C)) \in Nat
  BY <1>4, FS_CardinalityType
<1>8. \A n, m \in Nat : n * n = n + m => m = n * (n - 1)
  OBVIOUS
<1> QED BY <1>4, <1>6, <1>7, <1>8 DEF Pairs

(* The conflicts of a cluster, which the code takes from the frequencies.  *)
LEMMA ConflictsAreCounted ==
  ASSUME NEW C, IsFiniteSet(C), NEW pli
  PROVE  /\ IsFiniteSet(Differing(C, pli))
         /\ Conflicts(C, pli) = Cardinality(Differing(C, pli))
<1> DEFINE values == {pli.value[i] : i \in C}
           Of(v) == {i \in C : pli.value[i] = v}
           A == [v \in values |-> OffDiagonal(Of(v))]
           freq == Frequencies(C, pli)
<1>1. IsFiniteSet(values)
  <2> DEFINE g == [i \in C |-> pli.value[i]]
  <2>1. g \in Surjection(C, values)
    BY DEF Surjection
  <2> HIDE DEF g, values
  <2> QED BY <2>1, FS_Surjection
<1>2. ASSUME NEW v \in values
      PROVE  IsFiniteSet(A[v]) /\ Cardinality(A[v]) = Pairs(freq[v])
  <2>1. IsFiniteSet(Of(v))
    BY FS_Subset
  <2>2. freq[v] = Cardinality(Of(v)) /\ A[v] = OffDiagonal(Of(v))
    BY DEF Frequencies
  <2> HIDE DEF Of, A, freq
  <2> QED BY <2>1, <2>2, PairsAreCounted
<1>3. \A v, w \in values : v # w => A[v] \cap A[w] = {}
  BY DEF OffDiagonal
<1>4. [v \in DOMAIN freq |-> Pairs(freq[v])] = [v \in values |-> Cardinality(A[v])]
  <2>1. DOMAIN freq = values
    BY DEF Frequencies
  <2> HIDE DEF A, freq, values
  <2> QED BY <1>2, <2>1
<1> DEFINE same == UNION {A[v] : v \in values}
<1>5. /\ IsFiniteSet(same)
      /\ SumFunction([v \in DOMAIN freq |-> Pairs(freq[v])]) = Cardinality(same)
  <2>1. \A v \in values : IsFiniteSet(A[v])
    BY <1>2
  <2> HIDE DEF A, freq, values
  <2> QED BY <1>1, <1>3, <1>4, <2>1, SizesAddUp
<1>6. OffDiagonal(C) = Differing(C, pli) \cup same /\ Differing(C, pli) \cap same = {}
  <2>1. ASSUME NEW p \in same
        PROVE  p \in C \X C /\ p[1] # p[2] /\ pli.value[p[1]] = pli.value[p[2]]
    <3>1. PICK v \in values : p \in A[v]
      OBVIOUS
    <3>2. p \in OffDiagonal(Of(v))
      BY <3>1
    <3> QED BY <3>2 DEF OffDiagonal
  <2>2. ASSUME NEW p \in C \X C, p[1] # p[2], pli.value[p[1]] = pli.value[p[2]] PROVE p \in same
    <3>1. pli.value[p[1]] \in values
      OBVIOUS
    <3>2. p \in A[pli.value[p[1]]]
      BY <2>2, <3>1 DEF OffDiagonal
    <3> QED BY <3>1, <3>2
  <2> HIDE DEF same
  <2> QED BY <2>1, <2>2 DEF OffDiagonal, Differing
<1>7. IsFiniteSet(OffDiagonal(C)) /\ Cardinality(OffDiagonal(C)) = Pairs(Cardinality(C))
  BY PairsAreCounted
<1>8. IsFiniteSet(Differing(C, pli))
  <2>1. Differing(C, pli) \in SUBSET OffDiagonal(C)
    BY DEF Differing, OffDiagonal
  <2> QED BY <1>7, <2>1, FS_Subset
<1> HIDE DEF same
<1>9. Pairs(Cardinality(C)) = Cardinality(Differing(C, pli)) + Cardinality(same)
  BY <1>5, <1>6, <1>7, <1>8, UnionIsSum
<1>10. Cardinality(Differing(C, pli)) \in Nat /\ Cardinality(same) \in Nat
  BY <1>5, <1>8, FS_CardinalityType
<1>11. Conflicts(C, pli) = Pairs(Cardinality(C)) - Cardinality(same)
  <2>1. Conflicts(C, pli)
          = Pairs(Cardinality(C)) - SumFunction([v \in DOMAIN freq |-> Pairs(freq[v])])
    BY DEF Conflicts
  <2> HIDE DEF freq
  <2> QED BY <1>5, <2>1
<1> QED BY <1>8, <1>9, <1>10, <1>11

(* A finite set has more than one member if two of its members differ.     *)
LEMMA MoreThanOne ==
  ASSUME NEW T, IsFiniteSet(T)
  PROVE  Cardinality(T) > 1 <=> \E a, b \in T : a # b
<1>1. Cardinality(T) \in Nat
  BY FS_CardinalityType
<1>2. Cardinality(T) = 0 <=> T = {}
  BY FS_EmptySet
<1>3. Cardinality(T) = 1 <=> \E x : T = {x}
  BY FS_Singleton
<1>4. CASE \E a, b \in T : a # b
  <2>1. T # {} /\ ~ \E x : T = {x}
    BY <1>4
  <2> QED BY <1>1, <1>2, <1>3, <1>4, <2>1
<1>5. CASE \A a, b \in T : a = b
  <2>1. T = {} \/ \E x : T = {x}
    <3>1. CASE T # {}
      <4>1. PICK x : x \in T
        BY <3>1
      <4>2. T = {x}
        BY <1>5, <4>1
      <4> QED BY <4>2
    <3> QED BY <3>1
  <2> QED BY <1>1, <1>2, <1>3, <1>5, <2>1
<1> QED BY <1>4, <1>5

(* The image of a finite set under a function is finite.                   *)
LEMMA ImageIsFinite ==
  ASSUME NEW S, IsFiniteSet(S), NEW f
  PROVE  IsFiniteSet({f[x] : x \in S})
<1> DEFINE T == {f[x] : x \in S}
           g == [x \in S |-> f[x]]
<1>1. g \in Surjection(S, T)
  BY DEF Surjection
<1> HIDE DEF g, T
<1>2. IsFiniteSet(T)
  BY <1>1, FS_Surjection
<1> QED BY <1>2 DEF T

(* Membership, by components.                                              *)
LEMMA PairsAre ==
  ASSUME NEW D, NEW lhs, NEW rhs
  PROVE  /\ \A i, j : <<i, j>> \in PairsOf(D, lhs, rhs)
                        <=> i \in D /\ j \in D /\ Differ(lhs, rhs, i, j)
         /\ \A p \in PairsOf(D, lhs, rhs) :
              /\ p = <<p[1], p[2]>> /\ p[1] \in D /\ p[2] \in D
              /\ Differ(lhs, rhs, p[1], p[2])
<1>1. ASSUME NEW i, NEW j
      PROVE  <<i, j>> \in PairsOf(D, lhs, rhs) <=> i \in D /\ j \in D /\ Differ(lhs, rhs, i, j)
  BY DEF PairsOf
<1>2. ASSUME NEW p \in PairsOf(D, lhs, rhs)
      PROVE  /\ p = <<p[1], p[2]>> /\ p[1] \in D /\ p[2] \in D
             /\ Differ(lhs, rhs, p[1], p[2])
  BY DEF PairsOf
<1> QED BY <1>1, <1>2

(* What the definition counts is finite.                                   *)
LEMMA TruthIsFinite ==
  ASSUME NEW D, IsFiniteSet(D), NEW lhs, NEW rhs
  PROVE  /\ IsFiniteSet(PairsOf(D, lhs, rhs)) /\ IsFiniteSet(RowsOf(D, lhs, rhs))
         /\ IsFiniteSet(BadOf(D, lhs, rhs))
<1>1. IsFiniteSet(D \X D)
  BY FS_Product
<1>2. PairsOf(D, lhs, rhs) \in SUBSET (D \X D) /\ RowsOf(D, lhs, rhs) \in SUBSET D
  BY DEF PairsOf, RowsOf
<1>3. IsFiniteSet(PairsOf(D, lhs, rhs)) /\ IsFiniteSet(RowsOf(D, lhs, rhs))
  BY <1>1, <1>2, FS_Subset
<1>4. IsFiniteSet(BadOf(D, lhs, rhs))
  <2>1. PICK f : f = lhs.value
    OBVIOUS
  <2>2. IsFiniteSet({f[i] : i \in RowsOf(D, lhs, rhs)})
    BY <1>3, ImageIsFinite
  <2> QED BY <2>1, <2>2 DEF BadOf
<1> QED BY <1>3, <1>4

(* The clusters that CalculateStatistics counts are those with a conflict. *)
LEMMA BadClustersAre ==
  ASSUME NEW D, NEW lhs, NEW rhs, Agree(D, lhs, rhs)
  PROVE  {v \in Values(lhs) : Cardinality(DOMAIN Frequencies(Cluster(lhs, v), rhs)) > 1}
           = BadOf(D, lhs, rhs)
<1> DEFINE Seen(v) == DOMAIN Frequencies(Cluster(lhs, v), rhs)
<1>1. ASSUME NEW v PROVE Seen(v) = {rhs.value[i] : i \in Cluster(lhs, v)}
  BY DEF Frequencies
<1>2. \A i, v : i \in Cluster(lhs, v) <=> i \in D /\ lhs.value[i] = v
  BY DEF Cluster, Agree
<1>3. ASSUME NEW v PROVE IsFiniteSet(Seen(v))
  <2>1. Cluster(lhs, v) \in SUBSET D
    BY <1>2
  <2>2. IsFiniteSet(Cluster(lhs, v))
    BY <2>1, FS_Subset DEF Agree
  <2>3. PICK f : f = rhs.value
    OBVIOUS
  <2>4. IsFiniteSet({f[i] : i \in Cluster(lhs, v)})
    BY <2>2, ImageIsFinite
  <2> HIDE DEF Seen
  <2> QED BY <1>1, <2>3, <2>4
<1>4. ASSUME NEW v PROVE  (\E a, b \in Seen(v) : a # b) <=> v \in BadOf(D, lhs, rhs)
  <2> HIDE DEF Seen
  <2>1. ASSUME NEW a \in Seen(v), NEW b \in Seen(v), a # b PROVE v \in BadOf(D, lhs, rhs)
    <3>1. PICK i \in Cluster(lhs, v) : a = rhs.value[i]
      BY <1>1
    <3>2. PICK j \in Cluster(lhs, v) : b = rhs.value[j]
      BY <1>1
    <3>3. i \in RowsOf(D, lhs, rhs) /\ lhs.value[i] = v
      BY <1>2, <2>1, <3>1, <3>2 DEF RowsOf, Differ
    <3> QED BY <3>3 DEF BadOf
  <2>2. ASSUME v \in BadOf(D, lhs, rhs) PROVE \E a, b \in Seen(v) : a # b
    <3>1. PICK i \in D, j \in D : v = lhs.value[i] /\ Differ(lhs, rhs, i, j)
      BY <2>2 DEF BadOf, RowsOf
    <3>2. i \in Cluster(lhs, v) /\ j \in Cluster(lhs, v)
      BY <1>2, <3>1 DEF Differ
    <3>3. rhs.value[i] \in Seen(v) /\ rhs.value[j] \in Seen(v)
      BY <1>1, <3>2
    <3> QED BY <3>1, <3>3 DEF Differ
  <2> QED BY <2>1, <2>2
<1>5. BadOf(D, lhs, rhs) \subseteq Values(lhs)
  BY DEF BadOf, RowsOf, Agree, Values
<1>6. ASSUME NEW v PROVE Cardinality(Seen(v)) > 1 <=> v \in BadOf(D, lhs, rhs)
  <2> HIDE DEF Seen
  <2> QED BY <1>3, <1>4, MoreThanOne
<1> QED BY <1>5, <1>6

(* Their rows are those with a conflict, and the numbers of conflicts of   *)
(* each are the conflicts of all.                                          *)
LEMMA StatisticsAreTrue ==
  ASSUME NEW D, NEW lhs, NEW rhs, Agree(D, lhs, rhs)
  PROVE  CalculateStatistics(lhs, rhs) = TruthOf(D, lhs, rhs)
<1> DEFINE bad == {v \in Values(lhs) :
                     Cardinality(DOMAIN Frequencies(Cluster(lhs, v), rhs)) > 1}
           C == [v \in bad |-> Cluster(lhs, v)]
           A == [v \in bad |-> Differing(Cluster(lhs, v), rhs)]
<1>1. bad = BadOf(D, lhs, rhs)
  BY BadClustersAre
<1> HIDE DEF bad
<1>9. IsFiniteSet(D)
  BY DEF Agree
<1>10. IsFiniteSet(bad)
  BY <1>9, <1>1, TruthIsFinite
<1>2. \A i, v : i \in Cluster(lhs, v) <=> i \in D /\ lhs.value[i] = v
  BY DEF Cluster, Agree
<1>3. ASSUME NEW v \in bad
      PROVE  /\ IsFiniteSet(Cluster(lhs, v)) /\ IsFiniteSet(Differing(Cluster(lhs, v), rhs))
             /\ Conflicts(Cluster(lhs, v), rhs) = Cardinality(Differing(Cluster(lhs, v), rhs))
  <2>1. Cluster(lhs, v) \in SUBSET D
    BY <1>2
  <2>2. IsFiniteSet(Cluster(lhs, v))
    BY <1>9, <2>1, FS_Subset
  <2> QED BY <2>2, ConflictsAreCounted
<1>4. \A v \in bad : \A p : p \in Differing(Cluster(lhs, v), rhs) <=>
         p \in PairsOf(D, lhs, rhs) /\ lhs.value[p[1]] = v
  <2> SUFFICES ASSUME NEW v \in bad, NEW p
               PROVE  p \in Differing(Cluster(lhs, v), rhs) <=>
                        p \in PairsOf(D, lhs, rhs) /\ lhs.value[p[1]] = v
    OBVIOUS
  <2>1. PICK K : K = Cluster(lhs, v)
    OBVIOUS
  <2>2. \A i : i \in K <=> i \in D /\ lhs.value[i] = v
    BY <1>2, <2>1
  <2>3. p \in Differing(K, rhs)
          <=> p \in K \X K /\ rhs.value[p[1]] # rhs.value[p[2]]
    BY DEF Differing
  <2>4. p \in PairsOf(D, lhs, rhs) <=> p \in D \X D /\ Differ(lhs, rhs, p[1], p[2])
    BY DEF PairsOf
  <2>5. p \in D \X D <=> p = <<p[1], p[2]>> /\ p[1] \in D /\ p[2] \in D
    OBVIOUS
  <2>6. p \in K \X K <=> p = <<p[1], p[2]>> /\ p[1] \in K /\ p[2] \in K
    OBVIOUS
  <2> QED BY <2>1, <2>2, <2>3, <2>4, <2>5, <2>6 DEF Differ
<1>5. UNION {C[v] : v \in bad} = RowsOf(D, lhs, rhs)
  <2>1. ASSUME NEW i \in RowsOf(D, lhs, rhs) PROVE i \in UNION {C[v] : v \in bad}
    <3>1. i \in D /\ lhs.value[i] \in bad
      BY <1>1 DEF RowsOf, BadOf
    <3>2. i \in C[lhs.value[i]]
      BY <1>2, <3>1
    <3> QED BY <3>1, <3>2
  <2>2. ASSUME NEW v \in bad, NEW i \in Cluster(lhs, v) PROVE i \in RowsOf(D, lhs, rhs)
    <3>1. PICK k \in D, j \in D : v = lhs.value[k] /\ Differ(lhs, rhs, k, j)
      BY <1>1 DEF BadOf, RowsOf
    <3>2. i \in D /\ lhs.value[i] = v
      BY <1>2, <2>2
    <3>3. Differ(lhs, rhs, i, k) \/ Differ(lhs, rhs, i, j)
      BY <3>1, <3>2 DEF Differ
    <3> QED BY <3>2, <3>3 DEF RowsOf
  <2> QED BY <2>1, <2>2
<1>6. UNION {A[v] : v \in bad} = PairsOf(D, lhs, rhs)
  <2>1. ASSUME NEW p \in PairsOf(D, lhs, rhs) PROVE p \in UNION {A[v] : v \in bad}
    <3>1. lhs.value[p[1]] \in bad
      BY <1>1, PairsAre DEF RowsOf, BadOf
    <3>2. p \in A[lhs.value[p[1]]]
      BY <1>4, <3>1
    <3> QED BY <3>1, <3>2
  <2>2. \A v \in bad : A[v] \subseteq PairsOf(D, lhs, rhs)
    BY <1>4
  <2> HIDE DEF A
  <2> QED BY <2>1, <2>2
<1>7. SumFunction([v \in bad |-> Cardinality(Cluster(lhs, v))])
        = Cardinality(RowsOf(D, lhs, rhs))
  <2>1. /\ \A v \in bad : IsFiniteSet(C[v])
        /\ \A v, w \in bad : v # w => C[v] \cap C[w] = {}
    BY <1>2, <1>3
  <2>2. [v \in bad |-> Cardinality(Cluster(lhs, v))] = [v \in bad |-> Cardinality(C[v])]
    OBVIOUS
  <2> HIDE DEF C
  <2>3. SumFunction([v \in bad |-> Cardinality(C[v])]) = Cardinality(UNION {C[v] : v \in bad})
    BY <1>10, <2>1, SizesAddUp
  <2> QED BY <1>5, <2>2, <2>3
<1>8. SumFunction([v \in bad |-> Conflicts(Cluster(lhs, v), rhs)])
        = Cardinality(PairsOf(D, lhs, rhs))
  <2>1. /\ \A v \in bad : IsFiniteSet(A[v])
        /\ \A v, w \in bad : v # w => A[v] \cap A[w] = {}
    BY <1>3, <1>4
  <2>2. [v \in bad |-> Conflicts(Cluster(lhs, v), rhs)] = [v \in bad |-> Cardinality(A[v])]
    <3>1. \A v \in bad : Conflicts(Cluster(lhs, v), rhs) = Cardinality(A[v])
      BY <1>3
    <3> HIDE DEF A
    <3> QED BY <3>1
  <2> HIDE DEF A
  <2>3. SumFunction([v \in bad |-> Cardinality(A[v])]) = Cardinality(UNION {A[v] : v \in bad})
    BY <1>10, <2>1, SizesAddUp
  <2> QED BY <1>6, <2>2, <2>3
<1> QED BY <1>1, <1>7, <1>8 DEF CalculateStatistics, TruthOf, bad

(* As many values as the intersection has clusters: no cluster is split.   *)
LEMMA ProbeCounts ==
  ASSUME NEW D, NEW lhs, NEW rhs, Agree(D, lhs, rhs)
  PROVE  /\ Cardinality(Values(lhs)) = Cardinality(Probe(lhs, rhs))
              <=> RowsOf(D, lhs, rhs) = {}
         /\ Cardinality(Values(lhs)) = Cardinality(Probe(rhs, lhs))
              <=> RowsOf(D, lhs, rhs) = {}
<1> DEFINE there == [i \in D |-> <<lhs.value[i], rhs.value[i]>>]
           back  == [i \in D |-> <<rhs.value[i], lhs.value[i]>>]
           f == [q \in Probe(lhs, rhs) |-> q[1]]
           g == [q \in Probe(rhs, lhs) |-> q[2]]
<1>1. IsFiniteSet(D) /\ DOMAIN lhs.value = D /\ DOMAIN rhs.value = D
  BY DEF Agree
<1>2. /\ Probe(lhs, rhs) = {<<lhs.value[i], rhs.value[i]>> : i \in D}
      /\ Probe(rhs, lhs) = {<<rhs.value[i], lhs.value[i]>> : i \in D}
      /\ Values(lhs) = {lhs.value[i] : i \in D}
  BY <1>1 DEF Probe, Values
<1>3. IsFiniteSet(Probe(lhs, rhs)) /\ IsFiniteSet(Probe(rhs, lhs))
  <2>1. IsFiniteSet({there[i] : i \in D}) /\ IsFiniteSet({back[i] : i \in D})
    <3> HIDE DEF there, back
    <3> QED BY <1>1, ImageIsFinite
  <2>2. {there[i] : i \in D} = Probe(lhs, rhs) /\ {back[i] : i \in D} = Probe(rhs, lhs)
    BY <1>2
  <2> QED BY <2>1, <2>2
<1>4. f \in Surjection(Probe(lhs, rhs), Values(lhs))
  <2>1. \A q \in Probe(lhs, rhs) : f[q] \in Values(lhs)
    BY <1>2
  <2>2. ASSUME NEW v \in Values(lhs) PROVE \E q \in Probe(lhs, rhs) : f[q] = v
    <3>1. PICK i \in D : v = lhs.value[i]
      BY <1>2
    <3>2. <<lhs.value[i], rhs.value[i]>> \in Probe(lhs, rhs)
      BY <1>2
    <3> QED BY <3>1, <3>2
  <2>3. f \in [Probe(lhs, rhs) -> Values(lhs)]
    BY <2>1
  <2> HIDE DEF f
  <2> QED BY <2>2, <2>3 DEF Surjection
<1>5. g \in Surjection(Probe(rhs, lhs), Values(lhs))
  <2>1. \A q \in Probe(rhs, lhs) : g[q] \in Values(lhs)
    BY <1>2
  <2>2. ASSUME NEW v \in Values(lhs) PROVE \E q \in Probe(rhs, lhs) : g[q] = v
    <3>1. PICK i \in D : v = lhs.value[i]
      BY <1>2
    <3>2. <<rhs.value[i], lhs.value[i]>> \in Probe(rhs, lhs)
      BY <1>2
    <3> QED BY <3>1, <3>2
  <2>3. g \in [Probe(rhs, lhs) -> Values(lhs)]
    BY <2>1
  <2> HIDE DEF g
  <2> QED BY <2>2, <2>3 DEF Surjection
<1>6. (\A i, j \in D : lhs.value[i] = lhs.value[j] => rhs.value[i] = rhs.value[j])
        <=> RowsOf(D, lhs, rhs) = {}
  BY DEF RowsOf, Differ
<1>7. f \in Injection(Probe(lhs, rhs), Values(lhs)) <=> RowsOf(D, lhs, rhs) = {}
  <2>1. f \in [Probe(lhs, rhs) -> Values(lhs)]
    BY <1>4 DEF Surjection
  <2>2. ASSUME f \in Injection(Probe(lhs, rhs), Values(lhs)),
               NEW i \in D, NEW j \in D, lhs.value[i] = lhs.value[j]
        PROVE  rhs.value[i] = rhs.value[j]
    <3> DEFINE q == <<lhs.value[i], rhs.value[i]>>
               r == <<lhs.value[j], rhs.value[j]>>
    <3>1. q \in Probe(lhs, rhs) /\ r \in Probe(lhs, rhs)
      BY <1>2
    <3>2. f[q] = f[r]
      BY <2>2, <3>1
    <3>3. q = r
      <4> HIDE DEF f, q, r
      <4> QED BY <2>1, <2>2, <3>1, <3>2 DEF Injection, IsInjective
    <3> QED BY <3>3
  <2>3. ASSUME \A i, j \in D : lhs.value[i] = lhs.value[j] => rhs.value[i] = rhs.value[j],
               NEW q \in Probe(lhs, rhs), NEW r \in Probe(lhs, rhs), f[q] = f[r]
        PROVE  q = r
    <3>1. PICK i \in D : q = <<lhs.value[i], rhs.value[i]>>
      BY <1>2
    <3>2. PICK j \in D : r = <<lhs.value[j], rhs.value[j]>>
      BY <1>2
    <3>3. lhs.value[i] = lhs.value[j]
      BY <2>3, <3>1, <3>2
    <3> QED BY <2>3, <3>1, <3>2, <3>3
  <2> HIDE DEF f
  <2> QED BY <1>6, <2>1, <2>2, <2>3 DEF Injection, IsInjective
<1>8. g \in Injection(Probe(rhs, lhs), Values(lhs)) <=> RowsOf(D, lhs, rhs) = {}
  <2>1. g \in [Probe(rhs, lhs) -> Values(lhs)]
    BY <1>5 DEF Surjection
  <2>2. ASSUME g \in Injection(Probe(rhs, lhs), Values(lhs)),
               NEW i \in D, NEW j \in D, lhs.value[i] = lhs.value[j]
        PROVE  rhs.value[i] = rhs.value[j]
    <3> DEFINE q == <<rhs.value[i], lhs.value[i]>>
               r == <<rhs.value[j], lhs.value[j]>>
    <3>1. q \in Probe(rhs, lhs) /\ r \in Probe(rhs, lhs)
      BY <1>2
    <3>2. g[q] = g[r]
      BY <2>2, <3>1
    <3>3. q = r
      <4> HIDE DEF g, q, r
      <4> QED BY <2>1, <2>2, <3>1, <3>2 DEF Injection, IsInjective
    <3> QED BY <3>3
  <2>3. ASSUME \A i, j \in D : lhs.value[i] = lhs.value[j] => rhs.value[i] = rhs.value[j],
               NEW q \in Probe(rhs, lhs), NEW r \in Probe(rhs, lhs), g[q] = g[r]
        PROVE  q = r
    <3>1. PICK i \in D : q = <<rhs.value[i], lhs.value[i]>>
      BY <1>2
    <3>2. PICK j \in D : r = <<rhs.value[j], lhs.value[j]>>
      BY <1>2
    <3>3. lhs.value[i] = lhs.value[j]
      BY <2>3, <3>1, <3>2
    <3> QED BY <2>3, <3>1, <3>2, <3>3
  <2> HIDE DEF g
  <2> QED BY <1>6, <2>1, <2>2, <2>3 DEF Injection, IsInjective
<1> HIDE DEF f, g
<1>9. Cardinality(Values(lhs)) = Cardinality(Probe(lhs, rhs))
        <=> f \in Injection(Probe(lhs, rhs), Values(lhs))
  BY <1>3, <1>4, FS_Surjection
<1>10. Cardinality(Values(lhs)) = Cardinality(Probe(rhs, lhs))
        <=> g \in Injection(Probe(rhs, lhs), Values(lhs))
  BY <1>3, <1>5, FS_Surjection
<1> QED BY <1>7, <1>8, <1>9, <1>10

(* The numbers that come from two indexes of the same records are those of *)
(* the definition.                                                         *)
LEMMA VerifiedIsTrue ==
  ASSUME NEW D, NEW lhs, NEW rhs, Agree(D, lhs, rhs)
  PROVE  /\ VerifyFD(lhs, rhs) = TruthOf(D, lhs, rhs)
         /\ VerifyFD(lhs, rhs).clusters \in Nat /\ VerifyFD(lhs, rhs).rows \in Nat
         /\ VerifyFD(lhs, rhs).conflicts \in Nat
<1>1. Cardinality(Values(lhs)) = Cardinality(Intersect(lhs, rhs)) <=> RowsOf(D, lhs, rhs) = {}
  BY ProbeCounts DEF Intersect
<1>2. VerifyFD(lhs, rhs) = TruthOf(D, lhs, rhs)
  <2>1. CASE RowsOf(D, lhs, rhs) = {}
    <3>1. BadOf(D, lhs, rhs) = {} /\ PairsOf(D, lhs, rhs) = {}
      BY <2>1, PairsAre DEF RowsOf, BadOf
    <3>2. TruthOf(D, lhs, rhs) = NoErrors
      BY <2>1, <3>1, FS_EmptySet DEF TruthOf, NoErrors
    <3> QED BY <1>1, <2>1, <3>2 DEF VerifyFD
  <2>2. CASE RowsOf(D, lhs, rhs) # {}
    BY <1>1, <2>2, StatisticsAreTrue DEF VerifyFD
  <2> QED BY <2>1, <2>2
<1>3. /\ TruthOf(D, lhs, rhs).clusters \in Nat /\ TruthOf(D, lhs, rhs).rows \in Nat
      /\ TruthOf(D, lhs, rhs).conflicts \in Nat
  BY TruthIsFinite, FS_CardinalityType DEF TruthOf, Agree
<1> QED BY <1>2, <1>3
-----------------------------------------------------------------------------
(* The numbers a caller reads are those of the two indexes; after a        *)
(* failure, and after data were loaded again, they are those of none.      *)
VerdictInv ==
  /\ stats.clusters \in Nat /\ stats.rows \in Nat /\ stats.conflicts \in Nat
  /\ Undisturbed => stats = VerifyFD(lhsPli, rhsPli)

(* The two indexes hold the same finitely many records.                    *)
LEMMA IndexesAgreeOn ==
  ASSUME NEW lhs, NEW rhs, lhs.next \in Nat, DOMAIN lhs.value \subseteq Nat,
         DOMAIN lhs.value = DOMAIN rhs.value, \A i \in DOMAIN lhs.value : i < lhs.next
  PROVE  Agree(DOMAIN lhs.value, lhs, rhs)
<1>1. PICK D : D = DOMAIN lhs.value
  OBVIOUS
<1>2. D \in SUBSET (0 .. lhs.next - 1)
  BY <1>1
<1>3. IsFiniteSet(0 .. lhs.next - 1)
  BY FS_Interval
<1>4. IsFiniteSet(D)
  BY <1>2, <1>3, FS_Subset
<1> QED BY <1>1, <1>4 DEF Agree

(* Whatever such indexes hold, the numbers of the verdict are numbers.     *)
LEMMA NumbersAreNumbers ==
  ASSUME NEW lhs, NEW rhs, lhs.next \in Nat, DOMAIN lhs.value \subseteq Nat,
         DOMAIN lhs.value = DOMAIN rhs.value, \A i \in DOMAIN lhs.value : i < lhs.next
  PROVE  /\ VerifyFD(lhs, rhs).clusters \in Nat /\ VerifyFD(lhs, rhs).rows \in Nat
         /\ VerifyFD(lhs, rhs).conflicts \in Nat
BY IndexesAgreeOn, VerifiedIsTrue

(* Nothing was loaded: both indexes are empty.                             *)
LEMMA VerdictInit == DynamicInit => VerdictInv
<1> SUFFICES ASSUME DynamicInit PROVE VerdictInv
  OBVIOUS
<1>1. stats = NoErrors /\ lhsPli = CreateFor(<<>>) /\ rhsPli = CreateFor(<<>>)
  BY DEF DynamicInit
<1>2. DOMAIN lhsPli.value = {} /\ DOMAIN rhsPli.value = {} /\ lhsPli.next = 0
  BY <1>1 DEF CreateFor
<1>3. Agree({}, lhsPli, rhsPli)
  BY <1>2, FS_EmptySet DEF Agree
<1>4. VerifyFD(lhsPli, rhsPli) = TruthOf({}, lhsPli, rhsPli)
  BY <1>3, VerifiedIsTrue
<1>5. TruthOf({}, lhsPli, rhsPli) = NoErrors
  <2>1. RowsOf({}, lhsPli, rhsPli) = {} /\ PairsOf({}, lhsPli, rhsPli) = {}
    BY DEF RowsOf, PairsOf
  <2>2. BadOf({}, lhsPli, rhsPli) = {}
    BY <2>1 DEF BadOf
  <2> QED BY <2>1, <2>2, FS_EmptySet DEF TruthOf, NoErrors
<1> QED BY <1>1, <1>4, <1>5 DEF VerdictInv, NoErrors

(* Whatever changes the indexes takes the verdict again or gives it up,    *)
(* and no call is rejected after one that failed.                          *)
LEMMA VerdictNext ==
  DynamicInv /\ DynamicInv' /\ VerdictInv /\ [DynamicNext]_dynamicVars => VerdictInv'
<1> SUFFICES ASSUME DynamicInv, DynamicInv', VerdictInv, [DynamicNext]_dynamicVars
             PROVE  VerdictInv'
  OBVIOUS
<1>1. ASSUME stats' = VerifyFD(lhsPli', rhsPli') PROVE VerdictInv'
  <2>1. /\ lhsPli'.next \in Nat /\ DOMAIN lhsPli'.value \subseteq Nat
        /\ DOMAIN lhsPli'.value = DOMAIN rhsPli'.value
        /\ \A i \in DOMAIN lhsPli'.value : i < lhsPli'.next
    BY DEF DynamicInv, IndexInv, IndexesAgree, IsPli
  <2>2. /\ stats'.clusters \in Nat /\ stats'.rows \in Nat /\ stats'.conflicts \in Nat
    BY <1>1, <2>1, NumbersAreNumbers
  <2> QED BY <1>1, <2>2 DEF VerdictInv
<1>2. ASSUME stats' = stats, lhsPli' = lhsPli, rhsPli' = rhsPli, Undisturbed' => Undisturbed
      PROVE  VerdictInv'
  BY <1>2 DEF VerdictInv
<1>3. ASSUME NEW rows, Load(rows) PROVE VerdictInv'
  BY <1>1, <1>3 DEF Load
<1>4. CASE Reload
  BY <1>1, <1>4 DEF Reload
<1>5. ASSUME NEW b \in Batches, ExecuteSucceeds(b) PROVE VerdictInv'
  BY <1>1, <1>5 DEF ExecuteSucceeds
<1>6. ASSUME NEW b \in Batches, ExecuteFails(b) PROVE VerdictInv'
  BY <1>6 DEF ExecuteFails, VerdictInv, NoErrors, Undisturbed
<1>7. ASSUME NEW b \in Batches, ExecuteRejected(b) PROVE VerdictInv'
  <2>1. /\ stats' = stats /\ lhsPli' = lhsPli /\ rhsPli' = rhsPli
        /\ last # "reloaded" /\ Rejected(b) # {}
    BY <1>7 DEF ExecuteRejected, CallExecute
  <2>2. last # "failed"
    <3> SUFFICES ASSUME last = "failed" PROVE FALSE
      OBVIOUS
    <3>1. held.set = Operations
      BY DEF DynamicInv, HeldInv
    <3> QED BY <2>1, <3>1 DEF Rejected, Unset
  <2> QED BY <1>2, <2>1, <2>2 DEF Undisturbed
<1>8. CASE UNCHANGED dynamicVars
  BY <1>2, <1>8 DEF dynamicVars, Undisturbed
<1> QED BY <1>3, <1>4, <1>5, <1>6, <1>7, <1>8 DEF DynamicNext

(* On the live rows the definition of the dependency is that on the        *)
(* indexes.                                                                *)
LEMMA TruthIsTruthOf ==
  ASSUME DynamicInv, Undisturbed
  PROVE  /\ Agree(Live, lhsPli, rhsPli)
         /\ Truth = TruthOf(Live, lhsPli, rhsPli)
<1>1. /\ lhsPli.value = [id \in Live |-> table.rows[id].lhs]
      /\ rhsPli.value = [id \in Live |-> table.rows[id].rhs]
  BY DEF DynamicInv, IndexesDescribeTable
<1>2. PICK L : L = Live
  OBVIOUS
<1>3. /\ \A i \in L : lhsPli.value[i] = table.rows[i].lhs
      /\ \A i \in L : rhsPli.value[i] = table.rows[i].rhs
      /\ DOMAIN lhsPli.value = L /\ DOMAIN rhsPli.value = L
  BY <1>1, <1>2
<1>4. Agree(L, lhsPli, rhsPli)
  <2>1. /\ lhsPli.next \in Nat /\ DOMAIN lhsPli.value \subseteq Nat
        /\ DOMAIN lhsPli.value = DOMAIN rhsPli.value
        /\ \A i \in DOMAIN lhsPli.value : i < lhsPli.next
    BY DEF DynamicInv, IndexInv, IndexesAgree, IsPli
  <2>2. Agree(DOMAIN lhsPli.value, lhsPli, rhsPli)
    BY <2>1, IndexesAgreeOn
  <2> QED BY <1>3, <2>2
<1>5. \A i, j \in L : Conflict(i, j) <=> Differ(lhsPli, rhsPli, i, j)
  BY <1>3 DEF Conflict, Differ
<1>6. ConflictPairs = PairsOf(L, lhsPli, rhsPli)
  <2>1. ConflictPairs = {p \in L \X L : Conflict(p[1], p[2])}
    BY <1>2 DEF ConflictPairs
  <2>2. \A p \in L \X L : Conflict(p[1], p[2]) <=> Differ(lhsPli, rhsPli, p[1], p[2])
    BY <1>5
  <2> QED BY <2>1, <2>2 DEF PairsOf
<1>7. ConflictRows = RowsOf(L, lhsPli, rhsPli)
  <2>1. \A p \in PairsOf(L, lhsPli, rhsPli) : p[1] \in RowsOf(L, lhsPli, rhsPli)
    BY PairsAre DEF RowsOf
  <2>2. ASSUME NEW i \in RowsOf(L, lhsPli, rhsPli)
        PROVE  \E p \in PairsOf(L, lhsPli, rhsPli) : p[1] = i
    <3>1. PICK j \in L : Differ(lhsPli, rhsPli, i, j) /\ i \in L
      BY DEF RowsOf
    <3>2. <<i, j>> \in PairsOf(L, lhsPli, rhsPli) /\ <<i, j>>[1] = i
      BY <3>1, PairsAre
    <3> QED BY <3>2
  <2> QED BY <1>6, <2>1, <2>2 DEF ConflictRows
<1>8. {table.rows[i].lhs : i \in ConflictRows} = BadOf(L, lhsPli, rhsPli)
  <2>1. \A i \in RowsOf(L, lhsPli, rhsPli) : i \in L
    BY DEF RowsOf
  <2> QED BY <1>3, <1>7, <2>1 DEF BadOf
<1> QED BY <1>2, <1>4, <1>6, <1>7, <1>8 DEF Truth, TruthOf

(* After every batch that went through, and after every rejected one, the  *)
(* numbers of violated clusters, of rows in conflict and of pairs in       *)
(* conflict that the verifier took from its two indexes are those of the   *)
(* definition on the live rows of the table; after a failure, and after    *)
(* the data were loaded again, they still are numbers.                     *)
THEOREM VerdictIsAlwaysRight == DynamicSpec => []VerdictIsRight
<1>1. DynamicSpec => []VerdictInv
  BY AlwaysInv, VerdictInit, VerdictNext, PTL DEF DynamicSpec
<1>2. DynamicInv /\ VerdictInv => VerdictIsRight
  <2> SUFFICES ASSUME DynamicInv, VerdictInv, Undisturbed PROVE stats = Truth
    BY DEF VerdictIsRight, VerdictInv
  <2>1. VerifyFD(lhsPli, rhsPli) = TruthOf(Live, lhsPli, rhsPli)
    BY TruthIsTruthOf, VerifiedIsTrue
  <2> QED BY <2>1, TruthIsTruthOf DEF VerdictInv
<1> QED BY <1>1, <1>2, AlwaysInv, PTL

-----------------------------------------------------------------------------
(* A batch that failed in the table's Update stays for good: its options   *)
(* remain set, so that a later execute takes them and not those the caller *)
(* passes, and what it deletes is deleted, so that one of its updates      *)
(* fails again; only loading the data again leads out.                     *)
FailureStays == last = "failed" => last' \in {"failed", "reloaded"}

THEOREM FailureIsFinal == DynamicSpec => [][FailureStays]_dynamicVars
<1>1. DynamicInv /\ [DynamicNext]_dynamicVars => [FailureStays]_dynamicVars
  <2> SUFFICES ASSUME DynamicInv, DynamicNext, last = "failed"
               PROVE  last' \in {"failed", "reloaded"}
    BY DEF FailureStays
  <2>1. ASSUME NEW rows, Load(rows) PROVE FALSE
    BY <2>1 DEF Load, Loaded
  <2>2. CASE Reload
    BY <2>2 DEF Reload
  <2>3. ASSUME NEW b \in Batches
        PROVE  IsBatch(b) /\ Unset = {} /\ Deleted(Resolve(b, {})) # {}
    <3>1. NumRows \in Nat
      BY DEF DynamicInv, TableInv
    <3>2. IsBatch(b)
      BY <3>1, BatchesAreBatches
    <3>3. {} \in SUBSET (Unset \ Rejected(b)) /\ last # "reloaded"
      OBVIOUS
    <3> QED BY <3>2, <3>3, ResolvedIsChecked
  <2>4. ASSUME NEW b \in Batches, ExecuteSucceeds(b) PROVE FALSE
    <3>1. Deleted(Resolve(b, Unset)) = {}
      BY <2>4 DEF ExecuteSucceeds
    <3> QED BY <2>3, <3>1
  <2>5. ASSUME NEW b \in Batches, ExecuteFails(b) PROVE last' = "failed"
    BY <2>5 DEF ExecuteFails
  <2>6. ASSUME NEW b \in Batches, ExecuteRejected(b) PROVE FALSE
    <3>1. Rejected(b) # {}
      BY <2>6 DEF ExecuteRejected
    <3> QED BY <2>3, <3>1 DEF Rejected
  <2> QED BY <2>1, <2>2, <2>4, <2>5, <2>6 DEF DynamicNext
<1> QED BY <1>1, AlwaysInv, PTL DEF DynamicSpec
-----------------------------------------------------------------------------
(* A sequence that goes through a set of numbers from the least.           *)
IsAscending(q, S) ==
  /\ q \in [1 .. Cardinality(S) -> S]
  /\ \A i, j \in 1 .. Cardinality(S) : i < j => q[i] < q[j]


(* It comes first, and then the others.                                    *)
LEMMA AscendingFrom ==
  ASSUME NEW S, S \subseteq Nat, IsFiniteSet(S), NEW m \in S, \A n \in S : m <= n,
         NEW q, IsAscending(q, S \ {m})
  PROVE  IsAscending(<<m>> \o q, S)
<1> DEFINE n == Cardinality(S)
<1>1. n \in Nat /\ n > 0 /\ Cardinality(S \ {m}) = n - 1
  <2>1. n \in Nat
    BY FS_CardinalityType
  <2>2. n # 0
    BY FS_EmptySet
  <2>3. Cardinality(S \ {m}) = n - 1
    BY FS_RemoveElement
  <2> HIDE DEF n
  <2> QED BY <2>1, <2>2, <2>3
<1> HIDE DEF n
<1>2. q \in [1 .. n - 1 -> S \ {m}] /\ \A i, j \in 1 .. n - 1 : i < j => q[i] < q[j]
  BY <1>1 DEF IsAscending
<1>3. q \in Seq(S) /\ Len(q) = n - 1 /\ <<m>> \in Seq(S) /\ Len(<<m>>) = 1
  BY <1>1, <1>2
<1>4. <<m>> \o q \in Seq(S) /\ Len(<<m>> \o q) = n
  BY <1>1, <1>3
<1>5. \A i \in 1 .. n : (<<m>> \o q)[i] = IF i = 1 THEN m ELSE q[i - 1]
  BY <1>1, <1>3
<1>6. <<m>> \o q \in [1 .. n -> S]
  BY <1>4, LenProperties
<1>7. ASSUME NEW i \in 1 .. n, NEW j \in 1 .. n, i < j PROVE (<<m>> \o q)[i] < (<<m>> \o q)[j]
  <2>1. (<<m>> \o q)[j] = q[j - 1] /\ q[j - 1] \in S \ {m}
    BY <1>1, <1>2, <1>5, <1>7
  <2>2. CASE i = 1
    <3>1. (<<m>> \o q)[i] = m
      BY <1>5, <2>2
    <3>2. m < q[j - 1]
      <4> DEFINE e == q[j - 1]
      <4>1. e \in S \ {m}
        BY <2>1
      <4> HIDE DEF e
      <4>2. m <= e /\ m # e /\ m \in Nat /\ e \in Nat
        BY <4>1
      <4>3. m < e
        BY <4>2
      <4> QED BY <4>3 DEF e
    <3> QED BY <2>1, <3>1, <3>2
  <2>3. CASE i # 1
    <3>1. (<<m>> \o q)[i] = q[i - 1]
      BY <1>5, <2>3
    <3>2. i - 1 \in 1 .. n - 1 /\ j - 1 \in 1 .. n - 1 /\ i - 1 < j - 1
      BY <1>1, <1>7, <2>3
    <3> QED BY <1>2, <2>1, <3>1, <3>2
  <2> QED BY <2>2, <2>3
<1> QED BY <1>6, <1>7 DEF IsAscending, n

(* There is one.                                                           *)
LEMMA AscendingExists ==
  ASSUME NEW S, S \subseteq Nat, IsFiniteSet(S)
  PROVE  \E q : IsAscending(q, S)
<1> DEFINE P == {T \in SUBSET S : \E q : IsAscending(q, T)}
<1>1. ASSUME NEW T \in SUBSET S, \A x \in T : T \ {x} \in P PROVE T \in P
  <2>1. CASE T = {}
    <3>1. Cardinality(T) = 0
      BY <2>1, FS_EmptySet
    <3>2. IsAscending(<<>>, T)
      BY <2>1, <3>1 DEF IsAscending
    <3> QED BY <3>2
  <2>2. CASE T # {}
    <3>1. Min(T) \in T /\ \A n \in T : Min(T) <= n
      BY <2>2, MinIsLeast
    <3>2. PICK q : IsAscending(q, T \ {Min(T)})
      BY <1>1, <3>1
    <3>3. IsFiniteSet(T)
      BY FS_Subset
    <3>4. IsAscending(<<Min(T)>> \o q, T)
      BY <3>1, <3>2, <3>3, AscendingFrom
    <3> QED BY <3>4
  <2> QED BY <2>1, <2>2
<1> HIDE DEF P
<1>2. \A T \in SUBSET S : T \in P
  BY <1>1, BySubsets
<1> QED BY <1>2 DEF P

(* It leaves nothing out.                                                  *)
LEMMA AscendingIsOnto ==
  ASSUME NEW S, S \subseteq Nat, IsFiniteSet(S), NEW q, IsAscending(q, S)
  PROVE  q \in Surjection(1 .. Cardinality(S), S)
<1> DEFINE n == Cardinality(S)
<1>1. n \in Nat
  BY FS_CardinalityType
<1>2. IsFiniteSet(1 .. n) /\ Cardinality(1 .. n) = n
  BY <1>1, FS_Interval
<1>3. \A i, j \in 1 .. n : q[i] = q[j] => i = j
  <2> SUFFICES ASSUME NEW i \in 1 .. n, NEW j \in 1 .. n, q[i] = q[j], i # j PROVE FALSE
    OBVIOUS
  <2>1. q[i] \in Nat
    BY DEF IsAscending
  <2>2. i < j \/ j < i
    BY <1>1
  <2> QED BY <2>1, <2>2 DEF IsAscending
<1>4. q \in Injection(1 .. n, S)
  BY <1>3 DEF IsAscending, Injection, IsInjective
<1> HIDE DEF n
<1>5. Cardinality(1 .. n) = Cardinality(S)
  BY <1>2 DEF n
<1>6. q \in Surjection(1 .. n, S)
  BY <1>4, <1>5, FS_Injection
<1> QED BY <1>6 DEF n

(* There is no other.                                                      *)
LEMMA AscendingIsOne ==
  ASSUME NEW S, S \subseteq Nat, IsFiniteSet(S),
         NEW p, IsAscending(p, S), NEW q, IsAscending(q, S)
  PROVE  p = q
<1> DEFINE n == Cardinality(S)
           P == {i \in 1 .. n : p[i] = q[i]}
           rank == [i \in 1 .. n |-> i]
<1>1. n \in Nat
  BY FS_CardinalityType
<1>2. ASSUME NEW i \in 1 .. n, \A j \in 1 .. n : rank[j] < rank[i] => j \in P,
             NEW r, IsAscending(r, S), NEW s, IsAscending(s, S),
             \A j \in P : r[j] = s[j]
      PROVE  ~(r[i] < s[i])
  <2> SUFFICES ASSUME r[i] < s[i] PROVE FALSE
    OBVIOUS
  <2>1. r[i] \in S /\ s[i] \in S
    BY <1>2 DEF IsAscending
  <2>2. PICK k \in 1 .. n : s[k] = r[i]
    <3>1. IsAscending(s, S)
      BY <1>2
    <3>2. s \in Surjection(1 .. Cardinality(S), S)
      BY <3>1, AscendingIsOnto
    <3> QED BY <2>1, <3>2 DEF Surjection
  <2>3. r[i] \in Nat /\ s[i] \in Nat /\ s[k] \in Nat
    BY <2>1, <2>2
  <2>4. k < i
    <3>1. ~(i < k)
      <4> SUFFICES ASSUME i < k PROVE FALSE
        OBVIOUS
      <4>1. s[i] < s[k]
        BY <1>2 DEF IsAscending
      <4> QED BY <2>2, <2>3, <4>1
    <3>2. i # k
      BY <2>2, <2>3
    <3> QED BY <1>1, <3>1, <3>2
  <2>5. k \in P
    BY <1>2, <2>4
  <2>6. r[k] = s[k] /\ r[k] < r[i]
    BY <1>2, <2>4, <2>5 DEF IsAscending
  <2> QED BY <2>2, <2>3, <2>6
<1>3. ASSUME NEW i \in 1 .. n, \A j \in 1 .. n : rank[j] < rank[i] => j \in P PROVE i \in P
  <2>1. ~(p[i] < q[i]) /\ ~(q[i] < p[i])
    <3>1. \A j \in P : p[j] = q[j] /\ q[j] = p[j]
      OBVIOUS
    <3> HIDE DEF P, rank, n
    <3> QED BY <1>2, <1>3, <3>1
  <2>2. p[i] \in Nat /\ q[i] \in Nat
    BY DEF IsAscending
  <2> QED BY <2>1, <2>2
<1>4. \A i \in 1 .. n : rank[i] \in Nat
  OBVIOUS
<1>5. \A i \in 1 .. n : i \in P
  <2> DEFINE D == 1 .. n
  <2>1. \A i \in D : (\A j \in D : rank[j] < rank[i] => j \in P) => i \in P
    BY <1>3
  <2>2. \A i \in D : rank[i] \in Nat
    BY <1>4
  <2> HIDE DEF P, rank, n, D
  <2>3. \A i \in D : i \in P
    BY <2>1, <2>2, ByRank
  <2> QED BY <2>3 DEF D
<1>6. \A i \in 1 .. Cardinality(S) : p[i] = q[i]
  BY <1>5
<1>7. /\ p \in [1 .. Cardinality(S) -> S]
      /\ q \in [1 .. Cardinality(S) -> S]
  BY DEF IsAscending
<1> HIDE DEF P, rank, n
<1> DEFINE D == 1 .. Cardinality(S)
<1>8. p = [i \in D |-> p[i]] /\ q = [i \in D |-> q[i]]
  BY <1>7
<1>9. [i \in D |-> p[i]] = [i \in D |-> q[i]]
  BY <1>6
<1> QED BY <1>8, <1>9

(* So this is what Ascending is.                                           *)
LEMMA AscendingIs ==
  ASSUME NEW S, S \subseteq Nat, IsFiniteSet(S)
  PROVE  /\ IsAscending(Ascending(S), S)
         /\ \A q : IsAscending(q, S) => Ascending(S) = q
<1> DEFINE Good(q) == q \in [1 .. Cardinality(S) -> S] /\ \A i, j \in DOMAIN q : i < j => q[i] < q[j]
<1>1. \A q : Good(q) <=> IsAscending(q, S)
  BY DEF IsAscending
<1>2. Ascending(S) = CHOOSE q \in [1 .. Cardinality(S) -> S] : \A i, j \in DOMAIN q : i < j => q[i] < q[j]
  BY DEF Ascending
<1>3. \E q : Good(q)
  BY <1>1, AscendingExists
<1>4. Good(Ascending(S))
  BY <1>2, <1>3
<1> HIDE DEF Good
<1> QED BY <1>1, <1>4, AscendingIsOne

(* Of the empty set, and of a set with a least member.                     *)
LEMMA AscendingSteps ==
  ASSUME NEW S, S \subseteq Nat, IsFiniteSet(S)
  PROVE  IF S = {} THEN Ascending(S) = <<>>
         ELSE Ascending(S) = <<Min(S)>> \o Ascending(S \ {Min(S)})
<1>1. CASE S = {}
  <2>1. Cardinality(S) = 0
    BY <1>1, FS_EmptySet
  <2>2. IsAscending(<<>>, S)
    BY <1>1, <2>1 DEF IsAscending
  <2> QED BY <1>1, <2>2, AscendingIs
<1>2. CASE S # {}
  <2>1. Min(S) \in S /\ \A n \in S : Min(S) <= n
    BY <1>2, MinIsLeast
  <2>2. IsFiniteSet(S \ {Min(S)}) /\ S \ {Min(S)} \subseteq Nat
    BY FS_RemoveElement
  <2>3. IsAscending(<<Min(S)>> \o Ascending(S \ {Min(S)}), S)
    BY <2>1, <2>2, AscendingIs, AscendingFrom
  <2> QED BY <1>2, <2>3, AscendingIs
<1> QED BY <1>1, <1>2
-----------------------------------------------------------------------------
(* What the readers have left when a value leaves them.                    *)
LEMMA ReadersLeft ==
  ASSUME NEW R, NEW m
  PROVE  UNION ({r \ {m} : r \in R} \ {{}}) = (UNION R) \ {m}
<1> DEFINE N == {r \ {m} : r \in R} \ {{}}
<1>1. ASSUME NEW x \in UNION N PROVE x \in (UNION R) \ {m}
  <2>1. PICK s \in N : x \in s
    OBVIOUS
  <2>2. PICK r \in R : s = r \ {m}
    OBVIOUS
  <2> HIDE DEF N
  <2> QED BY <2>1, <2>2
<1>2. ASSUME NEW x \in (UNION R) \ {m} PROVE x \in UNION N
  <2>1. PICK r \in R : x \in r
    OBVIOUS
  <2>2. r \ {m} \in N /\ x \in r \ {m}
    BY <2>1, <1>2
  <2> HIDE DEF N
  <2> QED BY <2>2
<1> HIDE DEF N
<1>3. UNION N = (UNION R) \ {m}
  BY <1>1, <1>2
<1> QED BY <1>3 DEF N

(* ColumnDomainIterator: the least value left leaves the readers, whatever *)
(* order the partitions are in, so that it gives the readers' values in    *)
(* ascending order.                                                        *)
LEMMA MoveToNextIs ==
  ASSUME NEW R, \A r \in R : r \subseteq Nat /\ r # {}, R # {}
  PROVE  /\ MoveToNext(R).value = Min(UNION R)
         /\ UNION MoveToNext(R).readers = (UNION R) \ {Min(UNION R)}
         /\ {} \notin MoveToNext(R).readers
<1> DEFINE mins == {Min(r) : r \in R}
           m == Min(mins)
<1>1. \A r \in R : Min(r) \in r /\ Min(r) \in Nat /\ \A n \in r : Min(r) <= n
  BY MinIsLeast
<1>2. mins \subseteq Nat /\ mins # {}
  BY <1>1
<1>3. m \in mins /\ \A n \in mins : m <= n
  <2> HIDE DEF mins
  <2> QED BY <1>2, MinIsLeast
<1>4. m \in UNION R
  BY <1>1, <1>3
<1>5. ASSUME NEW n \in UNION R PROVE m <= n
  <2>1. PICK r \in R : n \in r
    OBVIOUS
  <2>2. m <= Min(r)
    BY <1>3
  <2>3. Min(r) <= n /\ Min(r) \in Nat /\ n \in Nat /\ m \in Nat
    BY <1>1, <1>2, <1>3, <2>1
  <2> HIDE DEF m
  <2> QED BY <2>2, <2>3
<1>6. m = Min(UNION R)
  <2>1. UNION R \subseteq Nat /\ UNION R # {}
    BY <1>4
  <2> HIDE DEF m
  <2>2. Min(UNION R) \in UNION R /\ \A n \in UNION R : Min(UNION R) <= n
    BY <2>1, MinIsLeast
  <2>3. m <= Min(UNION R) /\ Min(UNION R) <= m /\ m \in Nat /\ Min(UNION R) \in Nat
    BY <1>4, <1>5, <2>1, <2>2
  <2> QED BY <2>3
<1>7. MoveToNext(R) = [value |-> m, readers |-> {r \ {m} : r \in R} \ {{}}]
  BY DEF MoveToNext
<1> HIDE DEF m, mins
<1>8. UNION ({r \ {m} : r \in R} \ {{}}) = (UNION R) \ {m}
  BY ReadersLeft, Zenon
<1>9. MoveToNext(R).value = m /\ MoveToNext(R).readers = {r \ {m} : r \in R} \ {{}}
  BY <1>7
<1> QED BY <1>6, <1>8, <1>9

(* The recursion of Iterated.                                              *)
IsReadFrom(F, D) ==
  F = [readers \in D |->
         IF readers = {} THEN <<>>
         ELSE LET next == MoveToNext(readers) IN <<next.value>> \o F[next.readers]]

(* Something satisfies it: the readers become fewer or shorter.            *)
LEMMA ReadingWorks ==
  ASSUME NEW U, U \subseteq Nat, IsFiniteSet(U)
  PROVE  \E F : IsReadFrom(F, SUBSET SUBSET U)
<1> DEFINE D == SUBSET SUBSET U
           stop == {{}}
           next == [R \in D |-> MoveToNext(R).readers]
           value == [R \in D |-> MoveToNext(R).value]
           Y == Seq({value[R] : R \in D})
           rank == [R \in D |-> 2 * Cardinality(UNION R) + IF {} \in R THEN 1 ELSE 0]
           start == [R \in D |-> <<>>]
           step == [p \in D \X Y |-> <<value[p[1]]>> \o p[2]]
<1>1. IsFiniteSet(D)
  BY FS_SUBSET
<1>2. ASSUME NEW R \in D PROVE Cardinality(UNION R) \in Nat /\ IsFiniteSet(UNION R)
  <2>1. UNION R \in SUBSET U
    OBVIOUS
  <2> QED BY <2>1, FS_Subset, FS_CardinalityType
<1>3. ASSUME NEW R \in D PROVE rank[R] \in Nat
  BY <1>2
<1>4. ASSUME NEW R \in D, R \notin stop PROVE next[R] \in D /\ rank[next[R]] < rank[R]
  <2> DEFINE m == Min({Min(r) : r \in R})
             N == {r \ {m} : r \in R} \ {{}}
  <2>1. next[R] = N
    BY DEF MoveToNext
  <2>2. UNION N = (UNION R) \ {m} /\ {} \notin N
    BY ReadersLeft
  <2>3. N \in D
    <3>1. \A r \in R : r \ {m} \in SUBSET U
      OBVIOUS
    <3> HIDE DEF m
    <3> QED BY <3>1
  <2>4. rank[N] = 2 * Cardinality(UNION N)
    <3> HIDE DEF N
    <3> QED BY <2>2, <2>3, <1>2
  <2>5. CASE {} \in R
    <3>1. Cardinality(UNION N) <= Cardinality(UNION R)
      BY <1>2, <2>2, FS_Subset
    <3>2. rank[R] = 2 * Cardinality(UNION R) + 1
      BY <2>5
    <3> HIDE DEF N, rank, next
    <3>3. 2 * Cardinality(UNION N) < 2 * Cardinality(UNION R) + 1
      BY <1>2, <2>3, <3>1
    <3> QED BY <2>1, <2>3, <2>4, <3>2, <3>3
  <2>6. CASE {} \notin R
    <3>1. m \in UNION R
      <4> DEFINE mins == {Min(r) : r \in R}
      <4>1. \A r \in R : Min(r) \in r
        <5> SUFFICES ASSUME NEW r \in R PROVE Min(r) \in r
          OBVIOUS
        <5>1. r \subseteq Nat /\ r # {}
          BY <2>6
        <5> QED BY <5>1, MinIsLeast
      <4>2. mins \subseteq Nat /\ mins # {}
        <5> SUFFICES ASSUME NEW r \in R PROVE Min(r) \in Nat
          BY <1>4
        <5>1. Min(r) \in r /\ r \subseteq U
          BY <4>1
        <5> QED BY <5>1
      <4>3. m \in mins
        <5> HIDE DEF mins
        <5>1. Min(mins) \in mins
          BY <4>2, MinIsLeast
        <5> QED BY <5>1 DEF mins
      <4>4. PICK r \in R : m = Min(r)
        BY <4>3
      <4> HIDE DEF m
      <4> QED BY <4>1, <4>4
    <3>2. Cardinality(UNION N) = Cardinality(UNION R) - 1
      <4> DEFINE A == UNION R
      <4>1. IsFiniteSet(A) /\ m \in A /\ UNION N = A \ {m}
        BY <1>2, <2>2, <3>1
      <4> HIDE DEF m, N, A
      <4>2. Cardinality(A \ {m}) = Cardinality(A) - 1
        <5>1. IsFiniteSet(A)
          BY <4>1
        <5>2. Cardinality(A \ {m}) = IF m \in A THEN Cardinality(A) - 1 ELSE Cardinality(A)
          BY <5>1, FS_RemoveElement
        <5> QED BY <4>1, <5>2
      <4> QED BY <4>1, <4>2 DEF A
    <3>3. rank[R] = 2 * Cardinality(UNION R)
      BY <1>2, <2>6
    <3> HIDE DEF N, rank, next
    <3>4. 2 * Cardinality(UNION N) < 2 * Cardinality(UNION R)
      BY <1>2, <3>2
    <3> QED BY <2>1, <2>3, <2>4, <3>3, <3>4
  <2> HIDE DEF rank, next, D
  <2> QED BY <2>5, <2>6
<1>5. ASSUME NEW R \in D, R \notin stop, NEW y \in Y PROVE step[<<R, y>>] \in Y
  <2>1. <<R, y>> \in D \X Y /\ value[R] \in {value[S] : S \in D}
    OBVIOUS
  <2>2. step[<<R, y>>] = <<value[R]>> \o y
    BY <2>1
  <2> HIDE DEF value, step
  <2> DEFINE V == {value[S] : S \in D}
  <2>3. value[R] \in V /\ y \in Seq(V)
    OBVIOUS
  <2> HIDE DEF V
  <2>4. <<value[R]>> \o y \in Seq(V)
    BY <2>3
  <2> QED BY <2>2, <2>4 DEF V
<1>6. \A R \in D : R \in stop => start[R] \in Y
  <2> HIDE DEF value
  <2> QED OBVIOUS
<1>7. \E F \in [D -> Y] : Solves(F, D, stop, start, next, step)
  <2>1. \A R \in D : rank[R] \in Nat
    BY <1>3
  <2>2. \A R \in D : R \notin stop => /\ next[R] \in D /\ rank[next[R]] < rank[R]
                                      /\ \A y \in Y : step[<<R, y>>] \in Y
    BY <1>4, <1>5
  <2>3. IsFiniteSet(D) /\ \A R \in D : R \in stop => start[R] \in Y
    BY <1>1, <1>6
  <2> HIDE DEF D, stop, next, value, Y, rank, start, step
  <2>4. GoesDown(D, Y, stop, start, next, step, rank)
    BY <2>1, <2>2, <2>3 DEF GoesDown
  <2> QED BY <1>1, <2>4, RecursionWorks
<1>8. PICK F \in [D -> Y] : Solves(F, D, stop, start, next, step)
  BY <1>7
<1>9. ASSUME NEW R \in D
      PROVE  F[R] = IF R = {} THEN <<>> ELSE <<MoveToNext(R).value>> \o F[MoveToNext(R).readers]
  <2>1. R \in stop <=> R = {}
    OBVIOUS
  <2>2. start[R] = <<>> /\ next[R] = MoveToNext(R).readers /\ value[R] = MoveToNext(R).value
    OBVIOUS
  <2>3. R \notin stop => step[<<R, F[next[R]]>>] = <<value[R]>> \o F[next[R]]
    <3> SUFFICES ASSUME R \notin stop PROVE step[<<R, F[next[R]]>>] = <<value[R]>> \o F[next[R]]
      OBVIOUS
    <3>1. next[R] \in D
      BY <1>4
    <3> HIDE DEF next, value, D, Y
    <3>2. F[next[R]] \in Y
      BY <3>1
    <3> QED BY <3>2
  <2> HIDE DEF D, stop, next, value, Y, rank, start, step
  <2>4. F[R] = IF R \in stop THEN start[R] ELSE step[<<R, F[next[R]]>>]
    BY <1>8 DEF Solves
  <2> QED BY <2>1, <2>2, <2>3, <2>4
<1>10. IsReadFrom(F, D)
  <2>1. F = [R \in D |-> F[R]]
    OBVIOUS
  <2> HIDE DEF D
  <2> QED BY <1>9, <2>1 DEF IsReadFrom
<1> QED BY <1>10
-----------------------------------------------------------------------------
(* Whatever satisfies it gives the values of readers that are not empty in *)
(* ascending order.                                                        *)
LEMMA ReadingIsAscending ==
  ASSUME NEW U, U \subseteq Nat, IsFiniteSet(U), NEW F, IsReadFrom(F, SUBSET SUBSET U)
  PROVE  \A R \in SUBSET SUBSET U : {} \notin R => F[R] = Ascending(UNION R)
<1> DEFINE D == SUBSET SUBSET U
           P == {R \in D : {} \notin R => F[R] = Ascending(UNION R)}
           rank == [R \in D |-> Cardinality(UNION R)]
<1>1. ASSUME NEW R \in D PROVE UNION R \subseteq Nat /\ IsFiniteSet(UNION R)
  <2>1. UNION R \in SUBSET U
    OBVIOUS
  <2>2. IsFiniteSet(UNION R)
    BY <2>1, FS_Subset
  <2> QED BY <2>1, <2>2
<1>2. \A R \in D : rank[R] \in Nat
  <2> SUFFICES ASSUME NEW R \in D PROVE Cardinality(UNION R) \in Nat
    OBVIOUS
  <2> QED BY <1>1, FS_CardinalityType
<1>3. ASSUME NEW R \in D, \A S \in D : rank[S] < rank[R] => S \in P PROVE R \in P
  <2> SUFFICES ASSUME {} \notin R PROVE F[R] = Ascending(UNION R)
    OBVIOUS
  <2>1. UNION R \subseteq Nat /\ IsFiniteSet(UNION R)
    BY <1>1
  <2>2. F[R] = IF R = {} THEN <<>> ELSE <<MoveToNext(R).value>> \o F[MoveToNext(R).readers]
    BY DEF IsReadFrom
  <2>3. CASE R = {}
    <3>1. UNION R = {}
      BY <2>3
    <3> QED BY <2>1, <2>2, <2>3, <3>1, AscendingSteps
  <2>4. CASE R # {}
    <3> DEFINE N == MoveToNext(R).readers
               m == Min(UNION R)
    <3>1. \A r \in R : r \subseteq Nat /\ r # {}
      OBVIOUS
    <3>2. MoveToNext(R).value = m /\ UNION N = (UNION R) \ {m} /\ {} \notin N
      BY <2>4, <3>1, MoveToNextIs
    <3>3. UNION R # {}
      BY <2>4
    <3>4. m \in UNION R
      BY <2>1, <3>3, MinIsLeast
    <3>5. N \in D
      <4> SUFFICES ASSUME NEW s \in N PROVE s \subseteq U
        OBVIOUS
      <4>1. s \subseteq UNION N
        OBVIOUS
      <4> HIDE DEF N, m
      <4> QED BY <3>2, <4>1
    <3>6. rank[N] < rank[R]
      <4> DEFINE A == UNION R
      <4>1. IsFiniteSet(A)
        BY <2>1
      <4>2. rank[N] = Cardinality(A \ {m}) /\ rank[R] = Cardinality(A) /\ m \in A
        BY <3>2, <3>4, <3>5
      <4> HIDE DEF N, m, A, rank
      <4>3. Cardinality(A) \in Nat
        BY <4>1, FS_CardinalityType
      <4>4. Cardinality(A \ {m}) = IF m \in A THEN Cardinality(A) - 1 ELSE Cardinality(A)
        BY <4>1, FS_RemoveElement
      <4> QED BY <4>2, <4>3, <4>4
    <3>7. F[N] = Ascending((UNION R) \ {m})
      <4> HIDE DEF rank, N
      <4>1. N \in P
        BY <1>3, <3>5, <3>6
      <4> QED BY <3>2, <4>1
    <3>8. Ascending(UNION R) = <<m>> \o Ascending((UNION R) \ {m})
      BY <2>1, <3>3, AscendingSteps
    <3> HIDE DEF N, m
    <3>9. F[R] = <<m>> \o F[N]
      BY <2>2, <2>4, <3>2 DEF N
    <3> QED BY <3>7, <3>8, <3>9
  <2> QED BY <2>3, <2>4
<1> HIDE DEF D, P, rank
<1>4. \A R \in D : R \in P
  BY <1>2, <1>3, ByRank
<1> QED BY <1>4 DEF D, P

(* So Iterated does.                                                       *)
LEMMA IteratedIs ==
  ASSUME NEW domain, UNION Readers(domain) \subseteq Nat,
         IsFiniteSet(UNION Readers(domain)), {} \notin Readers(domain)
  PROVE  Iterated(domain) = Ascending(UNION Readers(domain))
<1> DEFINE U == UNION Readers(domain)
           D == SUBSET SUBSET U
           f == CHOOSE F : IsReadFrom(F, D)
<1>1. Iterated(domain) = f[Readers(domain)]
  BY Zenon DEF Iterated, IsReadFrom
<1>2. IsReadFrom(f, D)
  <2>1. \E F : IsReadFrom(F, D)
    BY ReadingWorks
  <2> QED BY <2>1, Zenon
<1> HIDE DEF f
<1>3. Readers(domain) \in SUBSET SUBSET U
  OBVIOUS
<1>4. \A R \in SUBSET SUBSET U : {} \notin R => f[R] = Ascending(UNION R)
  <2> HIDE DEF U
  <2>1. U \subseteq Nat /\ IsFiniteSet(U) /\ IsReadFrom(f, SUBSET SUBSET U)
    BY <1>2 DEF U
  <2> QED BY <2>1, ReadingIsAscending
<1> QED BY <1>1, <1>3, <1>4
-----------------------------------------------------------------------------
(* What a partition is: on disk only what has a value besides the empty    *)
(* string.                                                                 *)
Partition == [values : SUBSET Nat, swapped : BOOLEAN]
IsPartition(p) ==
  p \in Partition /\ IsFiniteSet(p.values) /\ (p.swapped => ~(p.values \subseteq {Null}))

(* What a domain is: all its partitions but the last are on disk.          *)
ValuesOf(d) == UNION {d[i].values : i \in DOMAIN d}
IsDomain(d) ==
  /\ d \in Seq(Partition) /\ d # <<>>
  /\ \A i \in 1 .. Len(d) : IsPartition(d[i])
  /\ \A i \in 1 .. Len(d) - 1 : d[i].swapped

(* Its values are finitely many numbers.                                   *)
LEMMA ValuesAre ==
  ASSUME NEW d, IsDomain(d)
  PROVE  ValuesOf(d) \subseteq Nat /\ IsFiniteSet(ValuesOf(d))
<1> DEFINE f == [i \in 1 .. Len(d) |-> d[i].values]
           A == {d[i].values : i \in DOMAIN d}
<1>1. Len(d) \in Nat /\ DOMAIN d = 1 .. Len(d) /\ \A i \in 1 .. Len(d) : d[i] \in Partition
  BY DEF IsDomain
<1>2. \A i \in 1 .. Len(d) : d[i].values \subseteq Nat /\ IsFiniteSet(d[i].values)
  BY DEF IsDomain, IsPartition, Partition
<1>3. f \in Surjection(1 .. Len(d), A)
  BY <1>1 DEF Surjection
<1>4. IsFiniteSet(1 .. Len(d))
  BY <1>1, FS_Interval
<1>5. IsFiniteSet(A)
  <2> HIDE DEF f, A
  <2> QED BY <1>3, <1>4, FS_Surjection
<1>6. \A T \in A : IsFiniteSet(T) /\ T \subseteq Nat
  BY <1>1, <1>2
<1>7. ValuesOf(d) = UNION A
  BY DEF ValuesOf
<1> HIDE DEF A
<1>8. IsFiniteSet(UNION A)
  BY <1>5, <1>6, FS_UNION
<1> QED BY <1>6, <1>7, <1>8

(* A value of a domain is one of a partition.                              *)
LEMMA ValueIn ==
  ASSUME NEW d, IsDomain(d), NEW v
  PROVE  v \in ValuesOf(d) <=> \E i \in 1 .. Len(d) : v \in d[i].values
<1>1. DOMAIN d = 1 .. Len(d)
  BY DEF IsDomain
<1> QED BY <1>1 DEF ValuesOf

(* The iterator's readers have them all, but for the empty string perhaps. *)
LEMMA ReadersAre ==
  ASSUME NEW d, IsDomain(d)
  PROVE  /\ {} \notin Readers(d)
         /\ UNION Readers(d) \in {ValuesOf(d), ValuesOf(d) \ {Null}}
<1>1. Len(d) \in Nat /\ \A i \in 1 .. Len(d) : IsPartition(d[i])
  BY DEF IsDomain
<1>2. ToSet(d) = {d[i] : i \in 1 .. Len(d)}
  <2>1. DOMAIN d = 1 .. Len(d)
    BY DEF IsDomain
  <2> QED BY <2>1 DEF ToSet
<1>3. ASSUME NEW r \in Readers(d) PROVE r # {} /\ \E i \in 1 .. Len(d) : r = d[i].values
  <2>1. PICK p \in ToSet(d) : ~IsNULL(p) /\ r = p.values
    BY <1>3 DEF Readers
  <2>2. PICK i \in 1 .. Len(d) : p = d[i]
    BY <1>2, <2>1
  <2>3. IsPartition(p)
    BY <1>1, <2>2
  <2>4. p.values # {}
    BY <2>1, <2>3 DEF IsNULL, IsPartition
  <2> QED BY <2>1, <2>2, <2>4
<1>4. UNION Readers(d) \subseteq ValuesOf(d)
  <2> SUFFICES ASSUME NEW v \in UNION Readers(d) PROVE v \in ValuesOf(d)
    OBVIOUS
  <2>1. PICK r \in Readers(d) : v \in r
    OBVIOUS
  <2>2. PICK i \in 1 .. Len(d) : r = d[i].values
    BY <1>3, <2>1
  <2> QED BY <2>1, <2>2, ValueIn
<1>5. ValuesOf(d) \ {Null} \subseteq UNION Readers(d)
  <2> SUFFICES ASSUME NEW v \in ValuesOf(d), v # Null PROVE v \in UNION Readers(d)
    OBVIOUS
  <2>1. PICK i \in 1 .. Len(d) : v \in d[i].values
    BY ValueIn
  <2>2. ~IsNULL(d[i])
    BY <2>1 DEF IsNULL
  <2>3. d[i].values \in Readers(d)
    BY <1>2, <2>2 DEF Readers
  <2> QED BY <2>1, <2>3
<1>6. UNION Readers(d) = ValuesOf(d) \/ UNION Readers(d) = ValuesOf(d) \ {Null}
  BY <1>4, <1>5
<1> QED BY <1>3, <1>6

(* So it goes through them.                                                *)
LEMMA IteratorIsRight ==
  ASSUME NEW d, IsDomain(d)
  PROVE  Iterated(d) \in {Ascending(ValuesOf(d)), Ascending(ValuesOf(d) \ {Null})}
<1>1. ValuesOf(d) \subseteq Nat /\ IsFiniteSet(ValuesOf(d))
  BY ValuesAre
<1>2. IsFiniteSet(ValuesOf(d) \ {Null})
  BY <1>1, FS_RemoveElement
<1>3. UNION Readers(d) \subseteq Nat /\ IsFiniteSet(UNION Readers(d)) /\ {} \notin Readers(d)
  BY <1>1, <1>2, ReadersAre
<1>4. Iterated(d) = Ascending(UNION Readers(d))
  BY <1>3, IteratedIs
<1> QED BY <1>4, ReadersAre

(* Whether a domain has a value shows in its first partition.              *)
LEMMA HeadTells ==
  ASSUME NEW d, IsDomain(d), ~Last(d).swapped
  PROVE  IsNULL(Head(d)) <=> ValuesOf(d) \subseteq {Null}
<1>1. Len(d) \in Nat \ {0} /\ Head(d) = d[1] /\ Last(d) = d[Len(d)]
  BY DEF IsDomain, Last
<1>2. ASSUME IsNULL(d[1]) PROVE ValuesOf(d) \subseteq {Null}
  <2>1. Len(d) = 1
    <3>1. ~d[1].swapped
      BY <1>2 DEF IsNULL
    <3>2. Len(d) # 1 => 1 \in 1 .. Len(d) - 1
      <4> DEFINE n == Len(d)
      <4>1. n \in Nat /\ n # 0
        BY <1>1
      <4> HIDE DEF n
      <4>2. n # 1 => 1 \in 1 .. n - 1
        BY <4>1
      <4> QED BY <4>2 DEF n
    <3> QED BY <3>1, <3>2 DEF IsDomain
  <2> SUFFICES ASSUME NEW v \in ValuesOf(d) PROVE v = Null
    OBVIOUS
  <2>2. PICK i \in 1 .. Len(d) : v \in d[i].values
    BY ValueIn
  <2>3. i = 1
    BY <2>1, <2>2
  <2> QED BY <1>2, <2>2, <2>3 DEF IsNULL
<1>3. ASSUME ValuesOf(d) \subseteq {Null} PROVE IsNULL(d[1])
  <2>1. d[1].values \subseteq {Null}
    BY <1>1, <1>3, ValueIn
  <2>2. IsPartition(d[1])
    BY <1>1 DEF IsDomain
  <2> QED BY <2>1, <2>2 DEF IsNULL, IsPartition
<1> QED BY <1>1, <1>2, <1>3

(* A new domain.                                                           *)
LEMMA NewIsDomain ==
  /\ IsDomain(<<NewPartition>>) /\ ~Last(<<NewPartition>>).swapped
  /\ ValuesOf(<<NewPartition>>) = {}
<1> DEFINE d == <<NewPartition>>
<1>1. IsPartition(NewPartition) /\ NewPartition \in Partition
  BY FS_EmptySet DEF IsPartition, Partition, NewPartition
<1>2. Len(d) = 1 /\ d[1] = NewPartition /\ d \in Seq(Partition)
  BY <1>1
<1>3. IsDomain(d)
  <2> HIDE DEF d
  <2> QED BY <1>1, <1>2 DEF IsDomain
<1>4. ~Last(d).swapped
  BY <1>2 DEF Last, NewPartition
<1>5. ValuesOf(d) = {}
  <2> HIDE DEF d
  <2> SUFFICES ASSUME NEW v \in ValuesOf(d) PROVE FALSE
    OBVIOUS
  <2>1. PICK i \in 1 .. Len(d) : v \in d[i].values
    BY <1>3, ValueIn
  <2> QED BY <1>2, <2>1 DEF NewPartition
<1> QED BY <1>3, <1>4, <1>5

(* A block's values go to the last partition.                              *)
LEMMA InsertIs ==
  ASSUME NEW d, IsDomain(d), ~Last(d).swapped, NEW S, S \subseteq Nat, IsFiniteSet(S)
  PROVE  /\ IsDomain(Insert(d, S)) /\ ~Last(Insert(d, S)).swapped
         /\ ValuesOf(Insert(d, S)) = ValuesOf(d) \cup S
<1> DEFINE n == Len(d)
           e == Insert(d, S)
           p == [d[n] EXCEPT !.values = @ \cup S]
<1>1. n \in Nat \ {0} /\ n \in 1 .. n /\ DOMAIN d = 1 .. n /\ Last(d) = d[n]
  BY DEF IsDomain, Last
<1>2. d[n] \in Partition /\ IsFiniteSet(d[n].values)
  BY <1>1 DEF IsDomain, IsPartition
<1>3. p.values = d[n].values \cup S /\ p.swapped = FALSE /\ p \in Partition
  BY <1>1, <1>2 DEF Partition
<1>4. IsPartition(p)
  BY <1>2, <1>3, FS_Union DEF IsPartition
<1>5. e = [d EXCEPT ![n] = p]
  BY DEF Insert
<1>6. e \in Seq(Partition) /\ Len(e) = n /\ e[n] = p /\ \A i \in 1 .. n : i # n => e[i] = d[i]
  <2>1. d \in Seq(Partition)
    BY DEF IsDomain
  <2> HIDE DEF e, p
  <2>2. p \in Partition
    BY <1>3
  <2> QED BY <1>1, <1>5, <2>1, <2>2, ExceptSeq
<1> HIDE DEF e, p
<1>7. IsDomain(e)
  <2>1. \A i \in 1 .. n : IsPartition(e[i])
    <3> TAKE i \in 1 .. n
    <3> QED BY <1>4, <1>6 DEF IsDomain
  <2>2. \A i \in 1 .. n - 1 : e[i].swapped
    <3>1. n \in Nat
      BY <1>1
    <3> HIDE DEF n
    <3>2. \A i \in 1 .. n - 1 : i \in 1 .. n /\ i # n
      BY <3>1
    <3>3. \A i \in 1 .. n - 1 : d[i].swapped
      BY DEF IsDomain, n
    <3> QED BY <1>6, <3>2, <3>3
  <2>3. e # <<>>
    BY <1>1, <1>6
  <2> QED BY <1>6, <2>1, <2>2, <2>3 DEF IsDomain
<1>8. ~Last(e).swapped
  BY <1>3, <1>6 DEF Last
<1>9. \A v : v \in ValuesOf(e) <=> v \in ValuesOf(d) \cup S
  <2> TAKE v
  <2>1. v \in ValuesOf(e) <=> \E i \in 1 .. n : v \in e[i].values
    BY <1>6, <1>7, ValueIn
  <2>2. v \in ValuesOf(d) <=> \E i \in 1 .. n : v \in d[i].values
    BY ValueIn
  <2> QED BY <1>1, <1>3, <1>6, <2>1, <2>2
<1>10. ValuesOf(e) = ValuesOf(d) \cup S
  BY <1>9
<1> QED BY <1>7, <1>8, <1>10 DEF e

(* A partition that is swapped.                                            *)
LEMMA TrySwapIs ==
  ASSUME NEW p, IsPartition(p)
  PROVE  /\ IsPartition(TrySwap(p)) /\ TrySwap(p) \in Partition
         /\ TrySwap(p).values = p.values
         /\ TrySwap(p).swapped <=> ~IsNULL(p)
         /\ IsNULL(TrySwap(p)) <=> IsNULL(p)
<1>1. p \in Partition /\ IsFiniteSet(p.values)
  BY DEF IsPartition
<1>2. CASE IsNULL(p)
  BY <1>2 DEF TrySwap, IsNULL, IsPartition
<1>3. CASE ~IsNULL(p)
  <2>1. TrySwap(p).values = p.values /\ TrySwap(p).swapped = TRUE /\ TrySwap(p) \in Partition
    BY <1>1, <1>3 DEF TrySwap, Partition
  <2>2. ~(p.values \subseteq {Null})
    BY <1>3 DEF IsNULL, IsPartition
  <2> QED BY <1>1, <1>3, <2>1, <2>2 DEF IsNULL, IsPartition
<1> QED BY <1>2, <1>3

(* A domain of an earlier table that is swapped.                           *)
LEMMA DomainSwapped ==
  ASSUME NEW d, IsDomain(d), NEW e, e = [i \in DOMAIN d |-> TrySwap(d[i])]
  PROVE  /\ IsDomain(e) /\ ValuesOf(e) = ValuesOf(d) /\ Len(e) = Len(d)
         /\ IsNULL(Last(e)) <=> IsNULL(Last(d))
         /\ ~IsNULL(Last(d)) => Last(e).swapped
         /\ IsNULL(Last(d)) => Last(e) = Last(d)
<1> DEFINE n == Len(d)
<1>1. n \in Nat \ {0} /\ n \in 1 .. n /\ DOMAIN d = 1 .. n /\ Last(d) = d[n]
  BY DEF IsDomain, Last
<1>2. \A i \in 1 .. n : IsPartition(d[i])
  BY DEF IsDomain
<1>3. /\ e \in Seq(Partition) /\ Len(e) = n
      /\ \A i \in 1 .. n : e[i] = TrySwap(d[i]) /\ IsPartition(e[i]) /\ e[i].values = d[i].values
                           /\ (e[i].swapped <=> ~IsNULL(d[i]))
  BY <1>1, <1>2, TrySwapIs
<1>4. IsDomain(e)
  <2>1. \A i \in 1 .. n - 1 : e[i].swapped
    BY <1>1, <1>3 DEF IsDomain, IsNULL
  <2>2. e # <<>>
    BY <1>1, <1>3
  <2> QED BY <1>3, <2>1, <2>2 DEF IsDomain
<1>5. ValuesOf(e) = ValuesOf(d)
  <2>1. \A v : v \in ValuesOf(e) <=> v \in ValuesOf(d)
    <3> TAKE v
    <3>1. v \in ValuesOf(e) <=> \E i \in 1 .. n : v \in e[i].values
      BY <1>3, <1>4, ValueIn
    <3>2. v \in ValuesOf(d) <=> \E i \in 1 .. n : v \in d[i].values
      BY ValueIn
    <3> QED BY <1>3, <3>1, <3>2
  <2> QED BY <2>1
<1>6. Last(e) = TrySwap(d[n])
  BY <1>1, <1>3 DEF Last
<1>7. IsNULL(d[n]) => TrySwap(d[n]) = d[n]
  BY DEF TrySwap
<1> QED BY <1>1, <1>2, <1>3, <1>4, <1>5, <1>6, <1>7, TrySwapIs

(* A domain of the present table that is swapped.                          *)
LEMMA RawSwapped ==
  ASSUME NEW d, IsDomain(d), ~Last(d).swapped
  PROVE  /\ IsDomain(Swapped(d)) /\ ~Last(Swapped(d)).swapped
         /\ ValuesOf(Swapped(d)) = ValuesOf(d)
<1> DEFINE n == Len(d)
           p == TrySwap(Last(d))
           e == Append(Front(d), p) \o <<NewPartition>>
<1>1. n \in Nat \ {0} /\ n \in 1 .. n /\ DOMAIN d = 1 .. n /\ Last(d) = d[n] /\ d \in Seq(Partition)
  BY DEF IsDomain, Last
<1>2. CASE IsNULL(Last(d))
  BY <1>2 DEF Swapped
<1>3. CASE ~IsNULL(Last(d))
  <2>0. /\ n \in Nat
        /\ \A i : i \in 1 .. n <=> (i \in 1 .. n - 1 \/ i = n)
        /\ \A i : i \in 1 .. n + 1 <=> (i \in 1 .. n - 1 \/ i = n \/ i = n + 1)
    <3>1. n \in Nat /\ n # 0
      BY <1>1
    <3> HIDE DEF n
    <3> QED BY <3>1
  <2>1. Swapped(d) = e
    BY <1>3 DEF Swapped
  <2>2. IsPartition(p) /\ p \in Partition /\ p.values = d[n].values /\ p.swapped
    BY <1>1, <1>3, TrySwapIs DEF IsDomain
  <2>3. IsPartition(NewPartition) /\ NewPartition \in Partition
    BY FS_EmptySet DEF IsPartition, Partition, NewPartition
  <2>4. Front(d) \in Seq(Partition) /\ Len(Front(d)) = n - 1 /\ \A i \in 1 .. n - 1 : Front(d)[i] = d[i]
    BY <1>1 DEF Front
  <2> HIDE DEF p
  <2> DEFINE g == Append(Front(d), p)
  <2>5. g \in Seq(Partition) /\ Len(g) = n /\ g[n] = p /\ \A i \in 1 .. n - 1 : g[i] = d[i]
    <3> DEFINE f == Front(d)
    <3>1. f \in Seq(Partition) /\ Len(f) = n - 1 /\ p \in Partition
      BY <2>2, <2>4
    <3> HIDE DEF f
    <3>2. Append(f, p) \in Seq(Partition) /\ Len(Append(f, p)) = n - 1 + 1
      BY <3>1, AppendProperties
    <3>3. Append(f, p)[n - 1 + 1] = p /\ \A i \in 1 .. n - 1 : Append(f, p)[i] = f[i]
      BY <3>1, AppendProperties
    <3>4. n - 1 + 1 = n
      BY <1>1
    <3> QED BY <2>4, <3>2, <3>3, <3>4 DEF f
  <2> HIDE DEF g
  <2>6. /\ e \in Seq(Partition) /\ Len(e) = n + 1 /\ e[n + 1] = NewPartition
        /\ \A i \in 1 .. n : e[i] = g[i]
    BY <1>1, <2>3, <2>5 DEF g
  <2> HIDE DEF e
  <2>7. e[n] = p /\ \A i \in 1 .. n - 1 : e[i] = d[i]
    BY <1>1, <2>5, <2>6
  <2>8. IsDomain(e)
    <3>1. \A i \in 1 .. n + 1 : IsPartition(e[i])
      <4>1. \A i \in 1 .. n - 1 : i \in 1 .. n /\ IsPartition(d[i])
        BY <1>1 DEF IsDomain
      <4> QED BY <2>0, <2>2, <2>3, <2>6, <2>7, <4>1
    <3>2. \A i \in 1 .. n : e[i].swapped
      <4>1. \A i \in 1 .. n - 1 : d[i].swapped
        BY DEF IsDomain
      <4> QED BY <2>0, <2>2, <2>7, <4>1
    <3> QED BY <1>1, <2>6, <3>1, <3>2 DEF IsDomain
  <2>9. ~Last(e).swapped
    BY <1>1, <2>6 DEF Last, NewPartition
  <2>10. \A v : v \in ValuesOf(e) <=> v \in ValuesOf(d)
    <3> TAKE v
    <3>1. v \in ValuesOf(e) <=> \E i \in 1 .. n + 1 : v \in e[i].values
      BY <2>6, <2>8, ValueIn
    <3>2. v \in ValuesOf(d) <=> \E i \in 1 .. n : v \in d[i].values
      BY ValueIn
    <3>3. \A i \in 1 .. n : e[i].values = d[i].values
      BY <2>0, <2>2, <2>7
    <3>4. e[n + 1].values = {}
      BY <2>6 DEF NewPartition
    <3>5. \A i : i \in 1 .. n + 1 <=> (i \in 1 .. n \/ i = n + 1)
      BY <1>1
    <3> QED BY <3>1, <3>2, <3>3, <3>4, <3>5
  <2>11. ValuesOf(e) = ValuesOf(d)
    BY <2>10
  <2> QED BY <2>1, <2>8, <2>9, <2>11
<1> QED BY <1>2, <1>3
-----------------------------------------------------------------------------
(* Members of a sequence, in order.                                        *)
LEMMA AtPlacesIs ==
  ASSUME NEW K, K \subseteq Nat, IsFiniteSet(K), NEW s
  PROVE  /\ Cardinality(K) \in Nat /\ Len(AtPlaces(s, K)) = Cardinality(K)
         /\ DOMAIN AtPlaces(s, K) = 1 .. Cardinality(K)
         /\ \A i \in 1 .. Cardinality(K) : /\ Ascending(K)[i] \in K
                                           /\ AtPlaces(s, K)[i] = s[Ascending(K)[i]]
<1>1. Cardinality(K) \in Nat
  BY FS_CardinalityType
<1>2. IsAscending(Ascending(K), K)
  BY AscendingIs
<1>3. \A i \in 1 .. Cardinality(K) : Ascending(K)[i] \in K
  BY <1>2 DEF IsAscending
<1>4. AtPlaces(s, K) = [i \in 1 .. Cardinality(K) |-> s[Ascending(K)[i]]]
  BY DEF AtPlaces
<1> QED BY <1>1, <1>3, <1>4

Appended(n, K, L, M) ==
  /\ n \in Nat /\ K \subseteq 1 .. n
  /\ L \subseteq Nat \ {0} /\ IsFiniteSet(L) /\ M = K \cup {n + l : l \in L}

ArePlacesAppended(n, K, L, M) ==
  /\ IsFiniteSet(K) /\ IsFiniteSet(M) /\ M \subseteq Nat
  /\ Cardinality(M) = Cardinality(K) + Cardinality(L)
  /\ \A i \in 1 .. Cardinality(K) : Ascending(M)[i] = Ascending(K)[i]
  /\ \A i \in 1 .. Cardinality(L) : Ascending(M)[Cardinality(K) + i] = n + Ascending(L)[i]

(* Places, and some more behind them.                                      *)
LEMMA PlacesAppended ==
  \A n, K, L, M : Appended(n, K, L, M) => ArePlacesAppended(n, K, L, M)
<1> SUFFICES ASSUME NEW n \in Nat, NEW K, K \subseteq 1 .. n,
                    NEW L, L \subseteq Nat \ {0}, IsFiniteSet(L),
                    NEW M, M = K \cup {n + l : l \in L}
             PROVE  ArePlacesAppended(n, K, L, M)
  BY DEF Appended
<1> DEFINE H == {n + l : l \in L}
           f == [l \in L |-> n + l]
           k == Cardinality(K)
           m == Cardinality(L)
           q == [i \in 1 .. k + m |-> IF i <= k THEN Ascending(K)[i] ELSE n + Ascending(L)[i - k]]
<1>1. IsFiniteSet(K) /\ K \subseteq Nat
  <2>1. IsFiniteSet(1 .. n)
    BY FS_Interval
  <2>2. IsFiniteSet(K)
    BY <2>1, FS_Subset
  <2>3. K \subseteq Nat
    OBVIOUS
  <2> QED BY <2>2, <2>3
<1>2. f \in Surjection(L, H) /\ f \in Injection(L, H)
  <2>1. \A a, b \in L : n + a = n + b => a = b
    OBVIOUS
  <2>2. f \in [L -> H] /\ \A a, b \in L : f[a] = f[b] => a = b
    BY <2>1
  <2>3. \A h \in H : \E a \in L : f[a] = h
    OBVIOUS
  <2> QED BY <2>2, <2>3 DEF Surjection, Injection, IsInjective
<1>3. IsFiniteSet(H) /\ Cardinality(H) = m
  <2> HIDE DEF f, H
  <2> QED BY <1>2, FS_Surjection
<1>4. K \cap H = {}
  BY DEF H
<1>5. IsFiniteSet(M) /\ Cardinality(M) = k + m
  <2>1. M = K \cup H
    OBVIOUS
  <2> HIDE DEF H
  <2> QED BY <1>1, <1>3, <1>4, <2>1, UnionIsSum
<1>6. M \subseteq Nat
  <2>1. \A l \in L : n + l \in Nat
    OBVIOUS
  <2> QED BY <1>1, <2>1
<1>7. k \in Nat /\ m \in Nat
  BY <1>1, FS_CardinalityType
<1>8. IsAscending(Ascending(K), K) /\ IsAscending(Ascending(L), L)
  BY <1>1, AscendingIs
<1>9. /\ \A i \in 1 .. k : Ascending(K)[i] \in K
      /\ \A i \in 1 .. m : Ascending(L)[i] \in L
      /\ \A i, j \in 1 .. k : i < j => Ascending(K)[i] < Ascending(K)[j]
      /\ \A i, j \in 1 .. m : i < j => Ascending(L)[i] < Ascending(L)[j]
  BY <1>8 DEF IsAscending
<1> HIDE DEF k, m
<1>10. \A i \in 1 .. k + m : IF i <= k THEN i \in 1 .. k ELSE i - k \in 1 .. m
  BY <1>7
<1>11. \A i \in 1 .. k + m : q[i] \in M /\ q[i] \in Nat /\ (IF i <= k THEN q[i] \in 1 .. n ELSE q[i] > n)
  <2> TAKE i \in 1 .. k + m
  <2>1. CASE i <= k
    <3>1. Ascending(K)[i] \in K
      BY <1>9, <1>10, <2>1
    <3> QED BY <2>1, <3>1
  <2>2. CASE ~(i <= k)
    <3>1. Ascending(L)[i - k] \in L
      BY <1>9, <1>10, <2>2
    <3>2. q[i] = n + Ascending(L)[i - k]
      BY <2>2
    <3> DEFINE l == Ascending(L)[i - k]
    <3>3. l \in Nat /\ l # 0 /\ n + l \in M
      BY <3>1
    <3>4. q[i] = n + l
      BY <3>2
    <3> HIDE DEF l, q
    <3>5. n + l > n /\ n + l \in Nat
      BY <3>3
    <3> QED BY <2>2, <3>3, <3>4, <3>5
  <2> QED BY <2>1, <2>2
<1>12. ASSUME NEW i \in 1 .. k + m, NEW j \in 1 .. k + m, i < j PROVE q[i] < q[j]
  <2>1. CASE j <= k
    <3>1. i \in 1 .. k /\ j \in 1 .. k
      BY <1>7, <1>12, <2>1
    <3>2. q[i] = Ascending(K)[i] /\ q[j] = Ascending(K)[j]
      BY <3>1
    <3> HIDE DEF q
    <3> QED BY <1>9, <1>12, <3>1, <3>2
  <2>2. CASE i <= k /\ ~(j <= k)
    <3>1. q[i] \in 1 .. n /\ q[j] > n /\ q[j] \in Nat
      BY <1>11, <2>2
    <3> HIDE DEF q
    <3> QED BY <3>1
  <2>3. CASE ~(i <= k)
    <3>1. i - k \in 1 .. m /\ j - k \in 1 .. m /\ i - k < j - k /\ ~(j <= k)
      BY <1>7, <1>12, <2>3
    <3>2. q[i] = n + Ascending(L)[i - k] /\ q[j] = n + Ascending(L)[j - k]
      BY <2>3, <3>1
    <3> HIDE DEF q
    <3>3. Ascending(L)[i - k] < Ascending(L)[j - k]
      BY <1>9, <3>1
    <3>4. Ascending(L)[i - k] \in Nat /\ Ascending(L)[j - k] \in Nat
      BY <1>9, <3>1
    <3> QED BY <3>2, <3>3, <3>4
  <2> QED BY <1>7, <1>12, <2>1, <2>2, <2>3
<1>13. IsAscending(q, M)
  <2>1. q \in [1 .. k + m -> M]
    BY <1>11
  <2> HIDE DEF q
  <2> QED BY <1>5, <1>12, <2>1 DEF IsAscending, k, m
<1>14. Ascending(M) = q
  <2> HIDE DEF q
  <2> QED BY <1>5, <1>6, <1>13, AscendingIs
<1>15. \A i \in 1 .. k : q[i] = Ascending(K)[i]
  BY <1>7
<1>16. \A i \in 1 .. m : q[k + i] = n + Ascending(L)[i]
  <2> TAKE i \in 1 .. m
  <2>1. k + i \in 1 .. k + m /\ ~(k + i <= k) /\ k + i - k = i
    <3> HIDE DEF q
    <3>1. i \in Nat /\ i > 0 /\ i <= m
      BY <1>7
    <3>2. k + i <= k + m /\ k + i > k /\ k + i \in Nat /\ k + i - k = i /\ k + i >= 1
      BY <1>7, <3>1
    <3>3. k + i \in 1 .. k + m /\ ~(k + i <= k)
      BY <1>7, <3>2
    <3> QED BY <3>2, <3>3
  <2> DEFINE j == k + i
  <2>2. j \in 1 .. k + m /\ ~(j <= k) /\ j - k = i
    <3> HIDE DEF q
    <3>1. j \in 1 .. k + m /\ ~(j <= k)
      BY <2>1
    <3>2. i \in Nat
      OBVIOUS
    <3>3. j - k = i
      BY <1>7, <3>2
    <3> QED BY <3>1, <3>3
  <2> HIDE DEF j
  <2>3. q[j] = n + Ascending(L)[j - k]
    BY <2>2
  <2> HIDE DEF q
  <2> QED BY <2>2, <2>3 DEF j
<1>17. ArePlacesAppended(n, K, L, M)
  BY <1>1, <1>5, <1>6, <1>14, <1>15, <1>16 DEF ArePlacesAppended, k, m
<1> QED BY <1>17
-----------------------------------------------------------------------------
(* Sums over a sequence: what is added one after another.                  *)
AddsUp(u, F) ==
  /\ F[{}] = 0
  /\ \A s \in SUBSET DOMAIN u : s # {} => F[s] = F[s \ {CHOOSE x \in s : TRUE}] + u[CHOOSE x \in s : TRUE]

(* The numbers of a sequence can be added up, whatever the order in which  *)
(* CHOOSE picks them.                                                      *)
LEMMA AddingWorks ==
  ASSUME NEW u, IsFiniteSet(DOMAIN u), \A i \in DOMAIN u : u[i] \in Int
  PROVE  \E F \in [SUBSET DOMAIN u -> Int] : AddsUp(u, F)
<1> DEFINE D == SUBSET DOMAIN u
           pick == [s \in D |-> CHOOSE x \in s : TRUE]
           next == [s \in D |-> s \ {pick[s]}]
           start == [s \in D |-> 0]
           step == [p \in D \X Int |-> p[2] + u[pick[p[1]]]]
           rank == [s \in D |-> Cardinality(s)]
           stop == {{}}
<1>1. \A s \in D : s # {} => pick[s] \in s
  OBVIOUS
<1> HIDE DEF pick
<1>2. \A s \in D : rank[s] \in Nat /\ IsFiniteSet(s)
  BY FS_Subset, FS_CardinalityType
<1>3. ASSUME NEW s \in D, s \notin stop PROVE next[s] \in D /\ rank[next[s]] < rank[s]
  <2>1. next[s] = s \ {pick[s]} /\ next[s] \in D /\ pick[s] \in s
    BY <1>1, <1>3
  <2>2. rank[next[s]] = Cardinality(s \ {pick[s]}) /\ rank[s] = Cardinality(s) /\ Cardinality(s) \in Nat /\ IsFiniteSet(s)
    BY <1>2, <2>1
  <2>3. Cardinality(s \ {pick[s]}) = IF pick[s] \in s THEN Cardinality(s) - 1 ELSE Cardinality(s)
    BY <2>2, FS_RemoveElement
  <2> HIDE DEF next, rank
  <2> QED BY <2>1, <2>2, <2>3
<1>4. ASSUME NEW s \in D, s \notin stop, NEW y \in Int PROVE step[<<s, y>>] \in Int
  <2>1. u[pick[s]] \in Int
    BY <1>1, <1>4
  <2> QED BY <2>1
<1>5. GoesDown(D, Int, stop, start, next, step, rank)
  <2>1. \A s \in D : s \in stop => start[s] \in Int
    OBVIOUS
  <2> HIDE DEF D, stop, start, next, step, rank
  <2> QED BY <1>2, <1>3, <1>4, <2>1 DEF GoesDown
<1>6. IsFiniteSet(D)
  BY FS_SUBSET
<1>7. PICK F \in [D -> Int] : Solves(F, D, stop, start, next, step)
  <2> HIDE DEF D, stop, start, next, step, rank
  <2> QED BY <1>5, <1>6, RecursionWorks
<1>8. ASSUME NEW s \in D PROVE F[s] = IF s \in stop THEN start[s] ELSE step[<<s, F[next[s]]>>]
  BY <1>7 DEF Solves
<1>9. F[{}] = 0
  <2>1. {} \in D /\ {} \in stop /\ start[{}] = 0
    OBVIOUS
  <2> HIDE DEF D, stop, start, next, step
  <2> QED BY <1>8, <2>1
<1>10. ASSUME NEW s \in D, s # {} PROVE F[s] = F[s \ {CHOOSE x \in s : TRUE}] + u[CHOOSE x \in s : TRUE]
  <2>1. s \notin stop /\ next[s] = s \ {pick[s]} /\ next[s] \in D
    BY <1>10
  <2>2. step[<<s, F[next[s]]>>] = F[next[s]] + u[pick[s]]
    <3> HIDE DEF next
    <3>1. F[next[s]] \in Int
      BY <2>1
    <3> QED BY <3>1
  <2>3. pick[s] = CHOOSE x \in s : TRUE
    BY DEF pick
  <2> HIDE DEF stop, start, next, step
  <2> QED BY <1>8, <2>1, <2>2, <2>3
<1> QED BY <1>9, <1>10 DEF AddsUp

(* There is only one such sum.                                             *)
LEMMA SumIsOne ==
  ASSUME NEW u, IsFiniteSet(DOMAIN u), NEW F, AddsUp(u, F), NEW G, AddsUp(u, G)
  PROVE  \A s \in SUBSET DOMAIN u : F[s] = G[s]
<1> DEFINE P == {s \in SUBSET DOMAIN u : F[s] = G[s]}
<1>1. ASSUME NEW s \in SUBSET DOMAIN u, \A x \in s : s \ {x} \in P PROVE s \in P
  <2>1. CASE s = {}
    BY <2>1 DEF AddsUp
  <2>2. CASE s # {}
    <3> DEFINE x == CHOOSE x \in s : TRUE
    <3>1. x \in s
      BY <2>2
    <3>2. F[s] = F[s \ {x}] + u[x] /\ G[s] = G[s \ {x}] + u[x]
      BY <2>2 DEF AddsUp
    <3> HIDE DEF x
    <3>3. F[s \ {x}] = G[s \ {x}]
      BY <1>1, <3>1
    <3> QED BY <3>2, <3>3
  <2> QED BY <2>1, <2>2
<1> HIDE DEF P
<1>2. \A s \in SUBSET DOMAIN u : s \in P
  BY <1>1, BySubsets
<1> QED BY <1>2 DEF P

(* A sum in which one number changes.                                      *)
DifferAt(k, u, v) ==
  /\ IsFiniteSet(DOMAIN u) /\ DOMAIN v = DOMAIN u /\ k \in DOMAIN u
  /\ \A i \in DOMAIN u : u[i] \in Int /\ v[i] \in Int
  /\ \A i \in DOMAIN u : i # k => v[i] = u[i]

(* The sum of the numbers changes by what that one does.                   *)
LEMMA SumChanges ==
  ASSUME NEW u, NEW v, NEW k, DifferAt(k, u, v), NEW F \in [SUBSET DOMAIN u -> Int], AddsUp(u, F),
         NEW G, AddsUp(v, G)
  PROVE  G[DOMAIN u] = F[DOMAIN u] - u[k] + v[k]
<1>k. /\ IsFiniteSet(DOMAIN u) /\ DOMAIN v = DOMAIN u /\ k \in DOMAIN u
      /\ \A i \in DOMAIN u : u[i] \in Int /\ v[i] \in Int
      /\ \A i \in DOMAIN u : i # k => v[i] = u[i]
  BY DEF DifferAt
<1> DEFINE d == v[k] - u[k]
           P == {s \in SUBSET DOMAIN u : G[s] = F[s] + IF k \in s THEN d ELSE 0}
<1>0. d \in Int
  BY <1>k
<1>1. ASSUME NEW s \in SUBSET DOMAIN u, \A x \in s : s \ {x} \in P PROVE s \in P
  <2>1. CASE s = {}
    <3>1. F[s] = 0 /\ G[s] = 0 /\ k \notin s
      BY <2>1 DEF AddsUp
    <3> QED BY <3>1
  <2>2. CASE s # {}
    <3> DEFINE x == CHOOSE x \in s : TRUE
    <3>1. x \in s
      BY <2>2
    <3>2. F[s] = F[s \ {x}] + u[x] /\ G[s] = G[s \ {x}] + v[x]
      BY <1>k, <2>2 DEF AddsUp
    <3> HIDE DEF x
    <3>3. G[s \ {x}] = F[s \ {x}] + IF k \in s \ {x} THEN d ELSE 0
      <4> HIDE DEF d
      <4> QED BY <1>1, <3>1
    <3>4. F[s \ {x}] \in Int /\ u[x] \in Int /\ v[x] \in Int
      BY <1>k, <3>1
    <3>5. CASE x = k
      <4>1. k \in s /\ k \notin s \ {x} /\ v[x] = u[x] + d
        BY <1>k, <3>1, <3>4, <3>5
      <4> HIDE DEF d
      <4>2. G[s] = F[s] + d
        BY <1>0, <3>2, <3>3, <3>4, <4>1
      <4> QED BY <4>1, <4>2
    <3>6. CASE x # k
      <4>1. v[x] = u[x]
        BY <1>k, <3>1, <3>6
      <4>2. k \in s <=> k \in s \ {x}
        BY <3>6
      <4> HIDE DEF d
      <4> DEFINE c == IF k \in s THEN d ELSE 0
      <4>3. c \in Int /\ G[s \ {x}] = F[s \ {x}] + c
        BY <1>0, <3>3, <4>2
      <4> HIDE DEF c
      <4>4. G[s] = F[s] + c
        BY <3>2, <3>4, <4>1, <4>3
      <4> QED BY <4>4 DEF c
    <3> QED BY <3>5, <3>6
  <2> QED BY <2>1, <2>2
<1> HIDE DEF P
<1>2. \A s \in SUBSET DOMAIN u : s \in P
  BY <1>1, <1>k, BySubsets
<1>3. G[DOMAIN u] = F[DOMAIN u] + d
  <2> HIDE DEF d
  <2> QED BY <1>2, <1>k DEF P
<1>4. F[DOMAIN u] \in Int /\ u[k] \in Int /\ v[k] \in Int
  BY <1>k
<1> QED BY <1>3, <1>4

(* A sum of which only one number is not zero.                             *)
LEMMA SumOfOne ==
  ASSUME NEW u, IsFiniteSet(DOMAIN u), \A i \in DOMAIN u : u[i] \in Int, NEW F, AddsUp(u, F),
         NEW k \in DOMAIN u, \A i \in DOMAIN u : i # k => u[i] = 0
  PROVE  F[DOMAIN u] = u[k]
<1> DEFINE z == [i \in DOMAIN u |-> 0]
           Z == [s \in SUBSET DOMAIN u |-> 0]
<1>1. DOMAIN z = DOMAIN u /\ \A i \in DOMAIN u : z[i] = 0
  OBVIOUS
<1>2. AddsUp(z, Z) /\ Z \in [SUBSET DOMAIN u -> Int] /\ Z[DOMAIN u] = 0
  <2>1. \A s \in SUBSET DOMAIN u : s # {} => (CHOOSE x \in s : TRUE) \in s
    OBVIOUS
  <2>2. \A s \in SUBSET DOMAIN u : s # {} => Z[s] = Z[s \ {CHOOSE x \in s : TRUE}] + z[CHOOSE x \in s : TRUE]
    BY <2>1
  <2> QED BY <2>2 DEF AddsUp
<1> HIDE DEF z, Z
<1>4. \A i \in DOMAIN z : z[i] \in Int /\ u[i] \in Int
  BY <1>1
<1>5. k \in DOMAIN z /\ DOMAIN u = DOMAIN z /\ IsFiniteSet(DOMAIN z) /\ \A i \in DOMAIN z : i # k => u[i] = z[i]
  BY <1>1
<1>6. Z \in [SUBSET DOMAIN z -> Int]
  BY <1>1, <1>2
<1>7. DifferAt(k, z, u)
  BY <1>4, <1>5 DEF DifferAt
<1>3. F[DOMAIN z] = Z[DOMAIN z] - z[k] + u[k]
  BY <1>2, <1>6, <1>7, SumChanges
<1> QED BY <1>1, <1>2, <1>3

(* So there is the total of a sequence of numbers, and when one of them    *)
(* changes it changes by as much.                                          *)
IsTotal(n, u) == \E F \in [SUBSET DOMAIN u -> Int] : AddsUp(u, F) /\ n = F[DOMAIN u]

(* The total is a number.                                                  *)
LEMMA TotalIsInt ==
  ASSUME NEW u, NEW n, IsTotal(n, u)
  PROVE  n \in Int
BY DEF IsTotal

(* One number changes, and the total by as much.                           *)
LEMMA TotalChanges ==
  ASSUME NEW u, NEW v, NEW k, DifferAt(k, u, v), NEW n, IsTotal(n, u), NEW m, IsTotal(m, v)
  PROVE  m = n - u[k] + v[k]
<1>1. PICK F \in [SUBSET DOMAIN u -> Int] : AddsUp(u, F) /\ n = F[DOMAIN u]
  BY DEF IsTotal
<1>2. PICK G \in [SUBSET DOMAIN v -> Int] : AddsUp(v, G) /\ m = G[DOMAIN v]
  BY DEF IsTotal
<1>3. AddsUp(u, F) /\ AddsUp(v, G)
  BY <1>1, <1>2
<1>4. G[DOMAIN u] = F[DOMAIN u] - u[k] + v[k]
  BY <1>3, SumChanges
<1>5. DOMAIN v = DOMAIN u
  BY DEF DifferAt
<1> QED BY <1>1, <1>2, <1>4, <1>5

(* Of numbers that are 0 but for one it is that one.                       *)
LEMMA TotalOfOne ==
  ASSUME NEW u, IsFiniteSet(DOMAIN u), \A i \in DOMAIN u : u[i] \in Int, NEW n, IsTotal(n, u),
         NEW k \in DOMAIN u, \A i \in DOMAIN u : i # k => u[i] = 0
  PROVE  n = u[k]
<1>1. PICK F \in [SUBSET DOMAIN u -> Int] : AddsUp(u, F) /\ n = F[DOMAIN u]
  BY DEF IsTotal
<1>2. AddsUp(u, F)
  BY <1>1
<1>3. F[DOMAIN u] = u[k]
  BY <1>2, SumOfOne
<1> QED BY <1>1, <1>3
-----------------------------------------------------------------------------
(* The sum of what the domains' partitions, the stored domains and the     *)
(* present ones use is what adding up gives.                               *)
IsUsage(iter, d) ==
  iter = [s \in SUBSET DOMAIN d |->
            IF s = {} THEN 0
            ELSE iter[s \ {CHOOSE x \in s : TRUE}] + MemoryUsage(d[CHOOSE x \in s : TRUE])]

IsUsageOfAll(iter, domains) ==
  iter = [s \in SUBSET DOMAIN domains |->
            IF s = {} THEN 0
            ELSE iter[s \ {CHOOSE x \in s : TRUE}] + DomainUsage(domains[CHOOSE x \in s : TRUE])]

IsUsageOfLast(iter, raw) ==
  iter = [s \in SUBSET DOMAIN raw |->
            IF s = {} THEN 0
            ELSE iter[s \ {CHOOSE x \in s : TRUE}] + MemoryUsage(Last(raw[CHOOSE x \in s : TRUE]))]

StoredUsage(domains) == SumOver(DomainUsage, domains)
PresentUsage(raw) == SumOver(LAMBDA d : MemoryUsage(Last(d)), raw)

(* What DomainUsage chooses is a solution of its equation, when there is   *)
(* one.                                                                    *)
LEMMA UsageIs ==
  ASSUME NEW d, NEW F, IsUsage(F, d)
  PROVE  \E iter : IsUsage(iter, d) /\ DomainUsage(d) = iter[DOMAIN d]
<1> DEFINE i == CHOOSE iter : IsUsage(iter, d)
<1>1. DomainUsage(d) = i[DOMAIN d]
  BY Zenon DEF DomainUsage, SumOver, FoldSeq, FoldFunction, FoldFunctionOnSet, MapThenFoldSet, IsUsage
<1>2. IsUsage(i, d)
  BY Zenon
<1> QED BY <1>1, <1>2

(* The same for the stored domains together.                               *)
LEMMA UsageOfAllIs ==
  ASSUME NEW d, NEW F, IsUsageOfAll(F, d)
  PROVE  \E iter : IsUsageOfAll(iter, d) /\ StoredUsage(d) = iter[DOMAIN d]
<1> DEFINE i == CHOOSE iter : IsUsageOfAll(iter, d)
<1>1. StoredUsage(d) = i[DOMAIN d]
  BY Zenon DEF StoredUsage, SumOver, FoldSeq, FoldFunction, FoldFunctionOnSet, MapThenFoldSet, IsUsageOfAll
<1>2. IsUsageOfAll(i, d)
  BY Zenon
<1> QED BY <1>1, <1>2

(* The same for the last partitions of the present domains.                *)
LEMMA UsageOfLastIs ==
  ASSUME NEW d, NEW F, IsUsageOfLast(F, d)
  PROVE  \E iter : IsUsageOfLast(iter, d) /\ PresentUsage(d) = iter[DOMAIN d]
<1> DEFINE i == CHOOSE iter : IsUsageOfLast(iter, d)
<1>1. PresentUsage(d) = i[DOMAIN d]
  BY Zenon DEF PresentUsage, SumOver, FoldSeq, FoldFunction, FoldFunctionOnSet, MapThenFoldSet, IsUsageOfLast
<1>2. IsUsageOfLast(i, d)
  BY Zenon
<1> QED BY <1>1, <1>2

(* The usage of a domain is the total of what its partitions use.          *)
LEMMA UsageAdds ==
  ASSUME NEW d, NEW u, u = [i \in DOMAIN d |-> MemoryUsage(d[i])], IsFiniteSet(DOMAIN d), \A i \in DOMAIN d : u[i] \in Int
  PROVE  IsTotal(DomainUsage(d), u)
<1>1. DOMAIN u = DOMAIN d /\ \A i \in DOMAIN d : u[i] = MemoryUsage(d[i])
  OBVIOUS
<1>2. PICK F \in [SUBSET DOMAIN u -> Int] : AddsUp(u, F)
  BY <1>1, AddingWorks
<1>3. \A s \in SUBSET DOMAIN d : s # {} => (CHOOSE x \in s : TRUE) \in DOMAIN d
  OBVIOUS
<1>4. IsUsage(F, d)
  <2> DEFINE G == [s \in SUBSET DOMAIN d |->
                     IF s = {} THEN 0 ELSE F[s \ {CHOOSE x \in s : TRUE}] + MemoryUsage(d[CHOOSE x \in s : TRUE])]
  <2>1. F = [s \in SUBSET DOMAIN d |-> F[s]]
    BY <1>1, <1>2
  <2>2. ASSUME NEW s \in SUBSET DOMAIN d PROVE F[s] = G[s]
    <3>1. CASE s = {}
      BY <1>2, <3>1 DEF AddsUp
    <3>2. CASE s # {}
      <4> DEFINE c == CHOOSE x \in s : TRUE
      <4>1. c \in DOMAIN d
        BY <3>2
      <4>2. F[s] = F[s \ {c}] + u[c]
        BY <1>1, <1>2, <3>2 DEF AddsUp
      <4>3. G[s] = F[s \ {c}] + MemoryUsage(d[c])
        BY <3>2
      <4> HIDE DEF G, c
      <4> QED BY <1>1, <4>1, <4>2, <4>3
    <3> QED BY <3>1, <3>2
  <2>3. F = G
    <3>1. G = [s \in SUBSET DOMAIN d |-> G[s]]
      OBVIOUS
    <3> HIDE DEF G
    <3> QED BY <2>1, <2>2, <3>1
  <2> QED BY <2>3 DEF IsUsage
<1>5. PICK iter : IsUsage(iter, d) /\ DomainUsage(d) = iter[DOMAIN d]
  BY <1>4, UsageIs
<1>6. AddsUp(u, iter)
  <2>1. iter[{}] = 0
    BY <1>5 DEF IsUsage
  <2>2. ASSUME NEW s \in SUBSET DOMAIN u, s # {}
        PROVE  iter[s] = iter[s \ {CHOOSE x \in s : TRUE}] + u[CHOOSE x \in s : TRUE]
    <3> DEFINE c == CHOOSE x \in s : TRUE
    <3>1. c \in DOMAIN d
      BY <1>1, <2>2
    <3>2. iter[s] = iter[s \ {c}] + MemoryUsage(d[c])
      BY <1>1, <1>5, <2>2 DEF IsUsage
    <3> HIDE DEF c
    <3>3. iter[s] = iter[s \ {c}] + u[c]
      BY <1>1, <3>1, <3>2
    <3> QED BY <3>3 DEF c
  <2> QED BY <2>1, <2>2 DEF AddsUp
<1>7. iter[DOMAIN u] = F[DOMAIN u]
  <2>1. IsFiniteSet(DOMAIN u)
    BY <1>1
  <2>2. \A s \in SUBSET DOMAIN u : iter[s] = F[s]
    BY <1>2, <1>6, <2>1, SumIsOne
  <2> QED BY <2>2
<1> QED BY <1>1, <1>2, <1>5, <1>7 DEF IsTotal

(* That of the stored domains is the total of what each of them uses.      *)
LEMMA UsageOfAllAdds ==
  ASSUME NEW d, NEW u, u = [i \in DOMAIN d |-> DomainUsage(d[i])], IsFiniteSet(DOMAIN d), \A i \in DOMAIN d : u[i] \in Int
  PROVE  IsTotal(StoredUsage(d), u)
<1>1. DOMAIN u = DOMAIN d /\ \A i \in DOMAIN d : u[i] = DomainUsage(d[i])
  OBVIOUS
<1>2. PICK F \in [SUBSET DOMAIN u -> Int] : AddsUp(u, F)
  BY <1>1, AddingWorks
<1>3. \A s \in SUBSET DOMAIN d : s # {} => (CHOOSE x \in s : TRUE) \in DOMAIN d
  OBVIOUS
<1>4. IsUsageOfAll(F, d)
  <2> DEFINE G == [s \in SUBSET DOMAIN d |->
                     IF s = {} THEN 0 ELSE F[s \ {CHOOSE x \in s : TRUE}] + DomainUsage(d[CHOOSE x \in s : TRUE])]
  <2>1. F = [s \in SUBSET DOMAIN d |-> F[s]]
    BY <1>1, <1>2
  <2>2. ASSUME NEW s \in SUBSET DOMAIN d PROVE F[s] = G[s]
    <3>1. CASE s = {}
      BY <1>2, <3>1 DEF AddsUp
    <3>2. CASE s # {}
      <4> DEFINE c == CHOOSE x \in s : TRUE
      <4>1. c \in DOMAIN d
        BY <3>2
      <4>2. F[s] = F[s \ {c}] + u[c]
        BY <1>1, <1>2, <3>2 DEF AddsUp
      <4>3. G[s] = F[s \ {c}] + DomainUsage(d[c])
        BY <3>2
      <4> HIDE DEF G, c
      <4> QED BY <1>1, <4>1, <4>2, <4>3
    <3> QED BY <3>1, <3>2
  <2>3. F = G
    <3>1. G = [s \in SUBSET DOMAIN d |-> G[s]]
      OBVIOUS
    <3> HIDE DEF G
    <3> QED BY <2>1, <2>2, <3>1
  <2> QED BY <2>3 DEF IsUsageOfAll
<1>5. PICK iter : IsUsageOfAll(iter, d) /\ StoredUsage(d) = iter[DOMAIN d]
  BY <1>4, UsageOfAllIs
<1>6. AddsUp(u, iter)
  <2>1. iter[{}] = 0
    BY <1>5 DEF IsUsageOfAll
  <2>2. ASSUME NEW s \in SUBSET DOMAIN u, s # {}
        PROVE  iter[s] = iter[s \ {CHOOSE x \in s : TRUE}] + u[CHOOSE x \in s : TRUE]
    <3> DEFINE c == CHOOSE x \in s : TRUE
    <3>1. c \in DOMAIN d
      BY <1>1, <2>2
    <3>2. iter[s] = iter[s \ {c}] + DomainUsage(d[c])
      BY <1>1, <1>5, <2>2 DEF IsUsageOfAll
    <3> HIDE DEF c
    <3>3. iter[s] = iter[s \ {c}] + u[c]
      BY <1>1, <3>1, <3>2
    <3> QED BY <3>3 DEF c
  <2> QED BY <2>1, <2>2 DEF AddsUp
<1>7. iter[DOMAIN u] = F[DOMAIN u]
  <2>1. IsFiniteSet(DOMAIN u)
    BY <1>1
  <2>2. \A s \in SUBSET DOMAIN u : iter[s] = F[s]
    BY <1>2, <1>6, <2>1, SumIsOne
  <2> QED BY <2>2
<1> QED BY <1>1, <1>2, <1>5, <1>7 DEF IsTotal

(* That of the present domains is the total of what their last partitions  *)
(* use.                                                                    *)
LEMMA UsageOfLastAdds ==
  ASSUME NEW d, NEW u, u = [i \in DOMAIN d |-> MemoryUsage(Last(d[i]))], IsFiniteSet(DOMAIN d), \A i \in DOMAIN d : u[i] \in Int
  PROVE  IsTotal(PresentUsage(d), u)
<1>1. DOMAIN u = DOMAIN d /\ \A i \in DOMAIN d : u[i] = MemoryUsage(Last(d[i]))
  OBVIOUS
<1>2. PICK F \in [SUBSET DOMAIN u -> Int] : AddsUp(u, F)
  BY <1>1, AddingWorks
<1>3. \A s \in SUBSET DOMAIN d : s # {} => (CHOOSE x \in s : TRUE) \in DOMAIN d
  OBVIOUS
<1>4. IsUsageOfLast(F, d)
  <2> DEFINE G == [s \in SUBSET DOMAIN d |->
                     IF s = {} THEN 0 ELSE F[s \ {CHOOSE x \in s : TRUE}] + MemoryUsage(Last(d[CHOOSE x \in s : TRUE]))]
  <2>1. F = [s \in SUBSET DOMAIN d |-> F[s]]
    BY <1>1, <1>2
  <2>2. ASSUME NEW s \in SUBSET DOMAIN d PROVE F[s] = G[s]
    <3>1. CASE s = {}
      BY <1>2, <3>1 DEF AddsUp
    <3>2. CASE s # {}
      <4> DEFINE c == CHOOSE x \in s : TRUE
      <4>1. c \in DOMAIN d
        BY <3>2
      <4>2. F[s] = F[s \ {c}] + u[c]
        BY <1>1, <1>2, <3>2 DEF AddsUp
      <4>3. G[s] = F[s \ {c}] + MemoryUsage(Last(d[c]))
        BY <3>2
      <4> HIDE DEF G, c
      <4> QED BY <1>1, <4>1, <4>2, <4>3
    <3> QED BY <3>1, <3>2
  <2>3. F = G
    <3>1. G = [s \in SUBSET DOMAIN d |-> G[s]]
      OBVIOUS
    <3> HIDE DEF G
    <3> QED BY <2>1, <2>2, <3>1
  <2> QED BY <2>3 DEF IsUsageOfLast
<1>5. PICK iter : IsUsageOfLast(iter, d) /\ PresentUsage(d) = iter[DOMAIN d]
  BY <1>4, UsageOfLastIs
<1>6. AddsUp(u, iter)
  <2>1. iter[{}] = 0
    BY <1>5 DEF IsUsageOfLast
  <2>2. ASSUME NEW s \in SUBSET DOMAIN u, s # {}
        PROVE  iter[s] = iter[s \ {CHOOSE x \in s : TRUE}] + u[CHOOSE x \in s : TRUE]
    <3> DEFINE c == CHOOSE x \in s : TRUE
    <3>1. c \in DOMAIN d
      BY <1>1, <2>2
    <3>2. iter[s] = iter[s \ {c}] + MemoryUsage(Last(d[c]))
      BY <1>1, <1>5, <2>2 DEF IsUsageOfLast
    <3> HIDE DEF c
    <3>3. iter[s] = iter[s \ {c}] + u[c]
      BY <1>1, <3>1, <3>2
    <3> QED BY <3>3 DEF c
  <2> QED BY <2>1, <2>2 DEF AddsUp
<1>7. iter[DOMAIN u] = F[DOMAIN u]
  <2>1. IsFiniteSet(DOMAIN u)
    BY <1>1
  <2>2. \A s \in SUBSET DOMAIN u : iter[s] = F[s]
    BY <1>2, <1>6, <2>1, SumIsOne
  <2> QED BY <2>2
<1> QED BY <1>1, <1>2, <1>5, <1>7 DEF IsTotal

(* Only the last partition of a domain takes memory.                       *)
LEMMA DomainUsageIs ==
  ASSUME NEW d, IsDomain(d)
  PROVE  /\ DomainUsage(d) = MemoryUsage(Last(d)) /\ MemoryUsage(Last(d)) \in Nat
         /\ IsNULL(Last(d)) => MemoryUsage(Last(d)) <= 1
<1> DEFINE n == Len(d)
           u == [i \in DOMAIN d |-> MemoryUsage(d[i])]
<1>1. n \in Nat \ {0} /\ n \in 1 .. n /\ DOMAIN d = 1 .. n /\ Last(d) = d[n]
  BY DEF IsDomain, Last
<1>2. \A i \in 1 .. n : IsFiniteSet(d[i].values)
  BY DEF IsDomain, IsPartition
<1>3. ASSUME NEW i \in 1 .. n PROVE MemoryUsage(d[i]) \in Nat
  BY <1>2, FS_CardinalityType DEF MemoryUsage
<1>4. ASSUME NEW i \in 1 .. n, i # n PROVE MemoryUsage(d[i]) = 0
  <2>1. n \in Nat
    BY <1>1
  <2>2. i \in 1 .. n - 1
    <3> HIDE DEF n
    <3> QED BY <1>4, <2>1
  <2> QED BY <2>2 DEF MemoryUsage, IsDomain
<1>5. IsFiniteSet(DOMAIN d)
  BY <1>1, FS_Interval
<1>6. DOMAIN u = DOMAIN d /\ \A i \in DOMAIN d : u[i] \in Int
  BY <1>1, <1>3
<1>7. IsTotal(DomainUsage(d), u)
  <2> HIDE DEF n
  <2> QED BY <1>5, <1>6, UsageAdds
<1>8. n \in DOMAIN u /\ \A i \in DOMAIN u : u[i] \in Int /\ (i # n => u[i] = 0)
  BY <1>1, <1>4, <1>6
<1>9. u[n] = MemoryUsage(d[n])
  BY <1>1
<1>10. DomainUsage(d) = u[n]
  <2> HIDE DEF u, n
  <2>1. IsFiniteSet(DOMAIN u)
    BY <1>5, <1>6
  <2> QED BY <1>7, <1>8, <2>1, TotalOfOne
<1>11. ASSUME IsNULL(d[n]) PROVE MemoryUsage(d[n]) <= 1
  <2>1. d[n].values \in SUBSET {Null} /\ MemoryUsage(d[n]) = Cardinality(d[n].values)
    BY <1>11 DEF IsNULL, MemoryUsage
  <2>2. IsFiniteSet({Null}) /\ Cardinality({Null}) = 1
    BY FS_Singleton
  <2>3. Cardinality(d[n].values) <= Cardinality({Null})
    BY <2>1, <2>2, FS_Subset
  <2> QED BY <2>1, <2>2, <2>3
<1> HIDE DEF u, n
<1> QED BY <1>1, <1>3, <1>9, <1>10, <1>11
-----------------------------------------------------------------------------
(* The inductive invariant of the domain manager.  Its types.              *)
Domains == {d \in Seq(Partition) : IsDomain(d)}
DomainTypes ==
  /\ domains_ \in Seq(Domains) /\ raw_domains_ \in Seq(Domains) /\ seen \in Seq(SUBSET Nat)
  /\ mem_usage_ \in Int /\ stream \in [table : 1 .. Len(ColumnCounts), blocks : Nat]

(* What was read of the present table is in its domains.                   *)
RawInv ==
  /\ StoredColumns \in Nat
  /\ \A c \in DOMAIN raw_domains_ :
       ~Last(raw_domains_[c]).swapped /\ ValuesOf(raw_domains_[c]) = seen[StoredColumns + c]
  /\ at = "done" => raw_domains_ = <<>>

(* What was read of the earlier tables is in the stored ones, in order.    *)
HasValue == {c \in 1 .. StoredColumns : ~(seen[c] \subseteq {Null})}
StoredInv ==
  /\ Len(domains_) = Cardinality(HasValue)
  /\ \A i \in DOMAIN domains_ : ValuesOf(domains_[i]) = AtPlaces(seen, HasValue)[i]
  /\ swap_candidate_ \in 1 .. Len(domains_) + 1

(* The memory counted is that used.                                        *)
NullsPassed == {c \in 1 .. swap_candidate_ - 1 : IsNULL(Last(domains_[c]))}
MemoryIsRight == Used(domains_, raw_domains_) - mem_usage_ \in 0 .. Cardinality(NullsPassed)

DomainInv == DomainTypes /\ RawInv /\ StoredInv /\ (at = "count" => MemoryIsRight)

(* The members of a sequence of domains.                                   *)
LEMMA DomainsAre ==
  ASSUME NEW s \in Seq(Domains)
  PROVE  /\ Len(s) \in Nat /\ DOMAIN s = 1 .. Len(s) /\ IsFiniteSet(DOMAIN s)
         /\ \A i \in DOMAIN s : IsDomain(s[i]) /\ s[i] \in Domains
<1>1. Len(s) \in Nat /\ DOMAIN s = 1 .. Len(s)
  OBVIOUS
<1>2. IsFiniteSet(1 .. Len(s))
  BY <1>1, FS_Interval
<1> QED BY <1>1, <1>2 DEF Domains

(* What is used is a number, and what it changes by when one domain does.  *)
LEMMA StoredIs ==
  ASSUME NEW s \in Seq(Domains), NEW u, u = [i \in DOMAIN s |-> DomainUsage(s[i])]
  PROVE  IsTotal(StoredUsage(s), u) /\ DOMAIN u = DOMAIN s /\ \A i \in DOMAIN s : u[i] = DomainUsage(s[i]) /\ u[i] \in Int
<1>1. IsFiniteSet(DOMAIN s) /\ \A i \in DOMAIN s : u[i] = DomainUsage(s[i]) /\ u[i] \in Int
  BY DomainsAre, DomainUsageIs
<1> QED BY <1>1, UsageOfAllAdds

(* What is used is the sum of the two, a number.                           *)
LEMMA UsedIs ==
  ASSUME NEW s \in Seq(Domains), NEW r \in Seq(Domains)
  PROVE  Used(s, r) = StoredUsage(s) + PresentUsage(r) /\ StoredUsage(s) \in Int /\ PresentUsage(r) \in Int
<1> DEFINE u == [i \in DOMAIN s |-> DomainUsage(s[i])]
           v == [i \in DOMAIN r |-> MemoryUsage(Last(r[i]))]
<1>1. IsTotal(StoredUsage(s), u)
  <2>1. u = [i \in DOMAIN s |-> DomainUsage(s[i])]
    OBVIOUS
  <2> HIDE DEF u
  <2> QED BY <2>1, StoredIs
<1>2. IsFiniteSet(DOMAIN r) /\ \A i \in DOMAIN r : v[i] \in Int
  BY DomainsAre, DomainUsageIs
<1>3. IsTotal(PresentUsage(r), v)
  <2>1. v = [i \in DOMAIN r |-> MemoryUsage(Last(r[i]))]
    OBVIOUS
  <2> HIDE DEF v
  <2> QED BY <1>2, <2>1, UsageOfLastAdds
<1>4. Used(s, r) = StoredUsage(s) + PresentUsage(r)
  BY Zenon DEF Used, StoredUsage, PresentUsage
<1> HIDE DEF u, v
<1> QED BY <1>1, <1>3, <1>4, TotalIsInt

(* A stored domain changes, and what is used by as much.                   *)
LEMMA UsedChanges ==
  ASSUME NEW s \in Seq(Domains), NEW t \in Seq(Domains), NEW r \in Seq(Domains),
         NEW k \in DOMAIN s, DOMAIN t = DOMAIN s, \A i \in DOMAIN s : i # k => t[i] = s[i]
  PROVE  Used(t, r) = Used(s, r) - DomainUsage(s[k]) + DomainUsage(t[k])
<1> DEFINE u == [i \in DOMAIN s |-> DomainUsage(s[i])]
           w == [i \in DOMAIN t |-> DomainUsage(t[i])]
<1>1. u = [i \in DOMAIN s |-> DomainUsage(s[i])] /\ w = [i \in DOMAIN t |-> DomainUsage(t[i])]
  OBVIOUS
<1> HIDE DEF u, w
<1>2. IsTotal(StoredUsage(s), u) /\ DOMAIN u = DOMAIN s /\ \A i \in DOMAIN s : u[i] = DomainUsage(s[i]) /\ u[i] \in Int
  BY <1>1, StoredIs
<1>3. IsTotal(StoredUsage(t), w) /\ DOMAIN w = DOMAIN t /\ \A i \in DOMAIN t : w[i] = DomainUsage(t[i]) /\ w[i] \in Int
  BY <1>1, StoredIs
<1>4. DifferAt(k, u, w)
  BY <1>2, <1>3, DomainsAre DEF DifferAt
<1>5. StoredUsage(t) = StoredUsage(s) - u[k] + w[k]
  <2>1. IsTotal(StoredUsage(s), u) /\ IsTotal(StoredUsage(t), w)
    BY <1>2, <1>3
  <2> QED BY <1>4, <2>1, TotalChanges
<1>6. u[k] = DomainUsage(s[k]) /\ w[k] = DomainUsage(t[k]) /\ u[k] \in Int /\ w[k] \in Int
  BY <1>2, <1>3
<1>7. /\ Used(s, r) = StoredUsage(s) + PresentUsage(r) /\ StoredUsage(s) \in Int /\ PresentUsage(r) \in Int
      /\ Used(t, r) = StoredUsage(t) + PresentUsage(r) /\ StoredUsage(t) \in Int
  BY UsedIs
<1> QED BY <1>5, <1>6, <1>7

(* The first table's domains, and every next table's.                      *)
LEMMA RawDomainsAre ==
  ASSUME NEW n \in Nat
  PROVE  /\ RawDomainsInit(n) \in Seq(Domains) /\ Len(RawDomainsInit(n)) = n
         /\ \A c \in 1 .. n : ~Last(RawDomainsInit(n)[c]).swapped /\ ValuesOf(RawDomainsInit(n)[c]) = {}
<1>1. <<NewPartition>> \in Domains
  BY NewIsDomain DEF Domains, IsDomain
<1>2. RawDomainsInit(n) = [c \in 1 .. n |-> <<NewPartition>>]
  BY DEF RawDomainsInit
<1> QED BY <1>1, <1>2, NewIsDomain

(* The tables have numbers of columns.                                     *)
LEMMA CountsAre == \A t \in 1 .. Len(ColumnCounts) : ColumnCounts[t] \in Nat
BY DomainAssumption

(* The invariant holds at first.                                           *)
LEMMA DomainInvInit == DomainInit => DomainInv
<1> SUFFICES ASSUME DomainInit PROVE DomainInv
  OBVIOUS
<1> DEFINE n == ColumnCounts[1]
<1>1. n \in Nat /\ 1 \in 1 .. Len(ColumnCounts)
  BY CountsAre, DomainAssumption
<1>2. raw_domains_ = RawDomainsInit(n) /\ seen = [c \in 1 .. n |-> {}] /\ domains_ = <<>>
  BY DEF DomainInit
<1>3. mem_usage_ = 0 /\ swap_candidate_ = 1 /\ at = "refresh" /\ stream = [table |-> 1, blocks |-> 0]
  BY DEF DomainInit
<1> HIDE DEF n
<1>4. seen \in Seq(SUBSET Nat) /\ Len(seen) = n /\ \A c \in 1 .. n : seen[c] = {}
  BY <1>1, <1>2
<1>5. raw_domains_ \in Seq(Domains) /\ Len(raw_domains_) = n
  BY <1>1, <1>2, RawDomainsAre
<1>6. StoredColumns = 0
  BY <1>1, <1>4, <1>5 DEF StoredColumns
<1>7. DomainTypes
  BY <1>1, <1>2, <1>3, <1>4, <1>5 DEF DomainTypes
<1>8. RawInv
  <2>1. \A c \in 1 .. n : 0 + c \in 1 .. n /\ 0 + c = c
    BY <1>1
  <2>2. DOMAIN raw_domains_ = 1 .. n
    BY <1>5
  <2>3. \A c \in 1 .. n : ~Last(raw_domains_[c]).swapped /\ ValuesOf(raw_domains_[c]) = {}
    BY <1>1, <1>2, RawDomainsAre
  <2> QED BY <1>3, <1>4, <1>6, <2>1, <2>2, <2>3 DEF RawInv
<1>9. StoredInv
  <2>1. HasValue = {}
    BY <1>6 DEF HasValue
  <2>2. Cardinality(HasValue) = 0
    BY <2>1, FS_EmptySet
  <2> QED BY <1>2, <1>3, <2>2 DEF StoredInv
<1> QED BY <1>3, <1>7, <1>8, <1>9 DEF DomainInv
-----------------------------------------------------------------------------
(* What the invariant says of the present table's domains.                 *)
LEMMA RawAre ==
  ASSUME DomainInv
  PROVE  /\ Len(raw_domains_) \in Nat /\ DOMAIN raw_domains_ = 1 .. Len(raw_domains_)
         /\ StoredColumns \in Nat /\ Len(seen) = StoredColumns + Len(raw_domains_)
         /\ \A c \in DOMAIN raw_domains_ :
              /\ IsDomain(raw_domains_[c]) /\ ~Last(raw_domains_[c]).swapped
              /\ ValuesOf(raw_domains_[c]) = seen[StoredColumns + c]
<1>1. raw_domains_ \in Seq(Domains) /\ seen \in Seq(SUBSET Nat) /\ StoredColumns \in Nat
  BY DEF DomainInv, DomainTypes, RawInv
<1>2. Len(raw_domains_) \in Nat /\ Len(seen) \in Nat
  BY <1>1
<1>3. Len(seen) = StoredColumns + Len(raw_domains_)
  BY <1>2 DEF StoredColumns
<1> QED BY <1>1, <1>3, DomainsAre DEF DomainInv, RawInv

(* The steps that leave the domains alone.                                 *)
LEMMA QuietKeeps ==
  ASSUME DomainInv, UNCHANGED <<domains_, raw_domains_, seen, swap_candidate_>>, mem_usage_' \in Int,
         stream' \in [table : 1 .. Len(ColumnCounts), blocks : Nat],
         at' = "done" => at = "done", at' = "count" => MemoryIsRight'
  PROVE  DomainInv'
<1>1. StoredColumns' = StoredColumns /\ HasValue' = HasValue
  BY DEF StoredColumns, HasValue
<1>2. DomainTypes'
  BY DEF DomainInv, DomainTypes
<1>3. RawInv'
  BY <1>1 DEF DomainInv, RawInv
<1>4. StoredInv'
  BY <1>1 DEF DomainInv, StoredInv
<1> QED BY <1>2, <1>3, <1>4 DEF DomainInv

(* The partitions of an empty string are finitely many.                    *)
LEMMA NullsAre ==
  ASSUME DomainInv
  PROVE  /\ swap_candidate_ \in Nat \ {0} /\ swap_candidate_ <= Len(domains_) + 1 /\ Len(domains_) \in Nat
         /\ IsFiniteSet(NullsPassed) /\ Cardinality(NullsPassed) \in Nat
<1>1. domains_ \in Seq(Domains) /\ swap_candidate_ \in 1 .. Len(domains_) + 1
  BY DEF DomainInv, DomainTypes, StoredInv
<1>2. Len(domains_) \in Nat
  BY <1>1
<1>3. swap_candidate_ \in Nat \ {0} /\ swap_candidate_ <= Len(domains_) + 1
  BY <1>1, <1>2
<1>4. IsFiniteSet(1 .. swap_candidate_ - 1)
  BY <1>3, FS_Interval
<1>5. IsFiniteSet(NullsPassed)
  BY <1>4, FS_Subset DEF NullsPassed
<1> QED BY <1>2, <1>3, <1>5, FS_CardinalityType

(* RefreshMemUsage counts again, what is used is then what is counted.     *)
LEMMA RefreshKeeps == DomainInv /\ RefreshMemUsage => DomainInv'
<1> SUFFICES ASSUME DomainInv, RefreshMemUsage PROVE DomainInv'
  OBVIOUS
<1>1. /\ UNCHANGED <<domains_, raw_domains_, seen, swap_candidate_>> /\ stream' = stream
      /\ mem_usage_' = Used(domains_, raw_domains_) /\ at' = "count"
  BY DEF RefreshMemUsage
<1>2. domains_ \in Seq(Domains) /\ raw_domains_ \in Seq(Domains) /\ stream \in [table : 1 .. Len(ColumnCounts), blocks : Nat]
  BY DEF DomainInv, DomainTypes
<1>3. Used(domains_, raw_domains_) \in Int
  BY <1>2, UsedIs
<1>4. NullsPassed' = NullsPassed
  BY <1>1 DEF NullsPassed
<1>5. MemoryIsRight'
  <2>1. Used(domains_, raw_domains_)' = Used(domains_, raw_domains_)
    BY <1>1
  <2>2. Used(domains_, raw_domains_)' - mem_usage_' = 0
    BY <1>1, <1>3, <2>1
  <2>3. Cardinality(NullsPassed') \in Nat
    BY <1>4, NullsAre
  <2> QED BY <2>2, <2>3 DEF MemoryIsRight
<1> QED BY <1>1, <1>2, <1>3, <1>5, QuietKeeps

(* A division by zero changes none of the domains.                         *)
LEMMA CrashKeeps == DomainInv /\ Crash => DomainInv'
<1> SUFFICES ASSUME DomainInv, Crash PROVE DomainInv'
  OBVIOUS
<1>1. UNCHANGED <<domains_, raw_domains_, seen, swap_candidate_, mem_usage_, stream>> /\ at' = "crashed"
  BY DEF Crash
<1> QED BY <1>1, QuietKeeps DEF DomainInv, DomainTypes

(* Nor does it change any to choose how many blocks come next.             *)
LEMMA BlocksKeep == DomainInv /\ GetNumberOfBlocks => DomainInv'
<1> SUFFICES ASSUME DomainInv, GetNumberOfBlocks PROVE DomainInv'
  OBVIOUS
<1>1. UNCHANGED <<domains_, raw_domains_, seen, swap_candidate_, mem_usage_, stream>> /\ at' = "process"
  BY DEF GetNumberOfBlocks
<1> QED BY <1>1, QuietKeeps DEF DomainInv, DomainTypes

(* A stored domain goes to disk: its values stay, and at most an empty     *)
(* string is counted off although it stays in memory.                      *)
LEMMA SwapDomainKeeps ==
  ASSUME DomainInv, SwapDomain, UNCHANGED <<at, stream, seen>>, at = "count"
  PROVE  DomainInv'
<1> DEFINE k == swap_candidate_
           d == domains_[k]
           e == [i \in DOMAIN d |-> TrySwap(d[i])]
<1>1. /\ k <= Len(domains_) /\ domains_' = [domains_ EXCEPT ![k] = e]
      /\ mem_usage_' = mem_usage_ - DomainUsage(d) /\ swap_candidate_' = k + 1
      /\ raw_domains_' = raw_domains_ /\ at' = at /\ stream' = stream /\ seen' = seen
  BY DEF SwapDomain
<1>2. /\ domains_ \in Seq(Domains) /\ raw_domains_ \in Seq(Domains) /\ seen \in Seq(SUBSET Nat) /\ mem_usage_ \in Int
      /\ stream \in [table : 1 .. Len(ColumnCounts), blocks : Nat]
  BY DEF DomainInv, DomainTypes
<1>3. k \in 1 .. Len(domains_) /\ k \in DOMAIN domains_ /\ k \in Nat
  <2>1. k \in Nat \ {0} /\ Len(domains_) \in Nat
    BY NullsAre
  <2> QED BY <1>1, <1>2, <2>1
<1>4. IsDomain(d)
  BY <1>2, <1>3, DomainsAre
<1>5. /\ IsDomain(e) /\ ValuesOf(e) = ValuesOf(d) /\ (IsNULL(Last(e)) <=> IsNULL(Last(d)))
      /\ (~IsNULL(Last(d)) => Last(e).swapped) /\ (IsNULL(Last(d)) => Last(e) = Last(d))
  BY <1>4, DomainSwapped
<1> HIDE DEF e, d, k
<1>6. e \in Domains
  BY <1>5 DEF Domains, IsDomain
<1>7. /\ domains_' \in Seq(Domains) /\ Len(domains_') = Len(domains_) /\ domains_'[k] = e
      /\ \A i \in 1 .. Len(domains_) : i # k => domains_'[i] = domains_[i]
  BY <1>1, <1>2, <1>3, <1>6, ExceptSeq
<1>8. DOMAIN domains_' = DOMAIN domains_ /\ DOMAIN domains_ = 1 .. Len(domains_) /\ Len(domains_) \in Nat
  BY <1>2, <1>7
<1>9. DomainTypes'
  <2>1. DomainUsage(d) \in Int
    BY <1>4, DomainUsageIs
  <2>2. mem_usage_' \in Int
    BY <1>1, <1>2, <2>1
  <2> QED BY <1>1, <1>2, <1>7, <2>2 DEF DomainTypes
<1>10. StoredColumns' = StoredColumns /\ HasValue' = HasValue
  BY <1>1 DEF StoredColumns, HasValue
<1>11. RawInv'
  BY <1>1, <1>10 DEF DomainInv, RawInv
<1>12. StoredInv'
  <2>1. \A i \in DOMAIN domains_ : ValuesOf(domains_'[i]) = ValuesOf(domains_[i])
    BY <1>5, <1>7, <1>8 DEF d
  <2>2. k + 1 \in 1 .. Len(domains_) + 1
    BY <1>3, <1>8
  <2> QED BY <1>1, <1>7, <1>8, <1>10, <2>1, <2>2 DEF DomainInv, StoredInv
<1>13. MemoryIsRight'
  <2> DEFINE N == NullsPassed
  <2>1. Used(domains_', raw_domains_) = Used(domains_, raw_domains_) - DomainUsage(domains_[k]) + DomainUsage(domains_'[k])
    <3> DEFINE s == domains_
               t == domains_'
               r == raw_domains_
    <3>1. s \in Seq(Domains) /\ t \in Seq(Domains) /\ r \in Seq(Domains) /\ k \in DOMAIN s
      BY <1>2, <1>3, <1>7
    <3>2. DOMAIN t = DOMAIN s
      BY <1>8
    <3>3. \A i \in DOMAIN s : i # k => t[i] = s[i]
      BY <1>7, <1>8
    <3> HIDE DEF s, t, r
    <3>4. Used(t, r) = Used(s, r) - DomainUsage(s[k]) + DomainUsage(t[k])
      BY <3>1, <3>2, <3>3, UsedChanges
    <3> QED BY <3>4 DEF s, t, r
  <2>2. Used(domains_, raw_domains_) \in Int
    BY <1>2, UsedIs
  <2>3. DomainUsage(d) \in Nat /\ DomainUsage(e) = MemoryUsage(Last(e)) /\ MemoryUsage(Last(e)) \in Nat
        /\ (IsNULL(Last(e)) => MemoryUsage(Last(e)) <= 1)
    BY <1>4, <1>5, DomainUsageIs
  <2>4. Used(domains_', raw_domains_) - mem_usage_' = Used(domains_, raw_domains_) - mem_usage_ + DomainUsage(e)
    BY <1>1, <1>2, <1>7, <2>1, <2>2, <2>3 DEF d
  <2>5. Used(domains_, raw_domains_) - mem_usage_ \in 0 .. Cardinality(N)
    BY DEF DomainInv, MemoryIsRight
  <2>6. NullsPassed' = IF IsNULL(Last(d)) THEN N \cup {k} ELSE N
    <3>1. NullsPassed' = {c \in 1 .. k : IsNULL(Last(domains_'[c]))}
      <4>1. swap_candidate_' - 1 = k
        BY <1>1, <1>3
      <4> QED BY <4>1 DEF NullsPassed
    <3>2. \A c : c \in 1 .. k <=> (c \in 1 .. k - 1 \/ c = k)
      <4>1. k \in Nat /\ k > 0
        BY <1>3
      <4> QED BY <4>1
    <3>3. \A c \in 1 .. k - 1 : c \in 1 .. Len(domains_) /\ c # k
      BY <1>3, <1>8
    <3>4. N = {c \in 1 .. k - 1 : IsNULL(Last(domains_[c]))}
      BY DEF NullsPassed, k
    <3>5. IsNULL(Last(domains_'[k])) <=> IsNULL(Last(d))
      BY <1>5, <1>7
    <3> HIDE DEF N
    <3> QED BY <1>7, <3>1, <3>2, <3>3, <3>4, <3>5
  <2>7. IsFiniteSet(N) /\ Cardinality(N) \in Nat /\ k \notin N
    <3>1. k \notin 1 .. k - 1
      BY <1>3
    <3> QED BY <3>1, NullsAre DEF NullsPassed, k
  <2>8. Cardinality(N \cup {k}) = Cardinality(N) + 1
    <3> HIDE DEF N
    <3>1. Cardinality(N \cup {k}) = IF k \in N THEN Cardinality(N) ELSE Cardinality(N) + 1
      BY <2>7, FS_AddElement
    <3> QED BY <2>7, <3>1
  <2> HIDE DEF N
  <2>9. CASE IsNULL(Last(d))
    <3>1. DomainUsage(e) \in 0 .. 1
      BY <1>5, <2>3, <2>9
    <3>2. Used(domains_, raw_domains_) - mem_usage_ + DomainUsage(e) \in 0 .. Cardinality(N) + 1
      BY <1>2, <2>2, <2>5, <2>7, <3>1
    <3> QED BY <1>1, <2>4, <2>6, <2>8, <2>9, <3>2 DEF MemoryIsRight
  <2>10. CASE ~IsNULL(Last(d))
    <3>1. DomainUsage(e) = 0
      BY <1>5, <2>3, <2>10 DEF MemoryUsage
    <3>2. Used(domains_, raw_domains_) - mem_usage_ + DomainUsage(e) \in 0 .. Cardinality(N)
      BY <1>2, <2>2, <2>5, <2>7, <3>1
    <3> QED BY <1>1, <2>4, <2>6, <2>10, <3>2 DEF MemoryIsRight
  <2> QED BY <2>9, <2>10
<1> QED BY <1>9, <1>11, <1>12, <1>13 DEF DomainInv

(* The present table's domains go to disk.                                 *)
LEMMA SwapRawKeeps ==
  ASSUME DomainInv, SwapRaw, UNCHANGED <<at, stream, seen>>, at = "count"
  PROVE  DomainInv'
<1> DEFINE n == Len(raw_domains_)
<1>1. /\ raw_domains_' = [c \in DOMAIN raw_domains_ |-> Swapped(raw_domains_[c])]
      /\ mem_usage_' = Used(domains_, raw_domains_') /\ domains_' = domains_ /\ swap_candidate_' = swap_candidate_
      /\ at' = at /\ stream' = stream /\ seen' = seen
  BY DEF SwapRaw
<1>2. /\ domains_ \in Seq(Domains) /\ seen \in Seq(SUBSET Nat)
      /\ stream \in [table : 1 .. Len(ColumnCounts), blocks : Nat]
  BY DEF DomainInv, DomainTypes
<1>3. /\ n \in Nat /\ DOMAIN raw_domains_ = 1 .. n
      /\ \A c \in 1 .. n : /\ IsDomain(raw_domains_[c]) /\ ~Last(raw_domains_[c]).swapped
                           /\ ValuesOf(raw_domains_[c]) = seen[StoredColumns + c]
  BY RawAre
<1>4. \A c \in 1 .. n : /\ IsDomain(Swapped(raw_domains_[c])) /\ ~Last(Swapped(raw_domains_[c])).swapped
                        /\ ValuesOf(Swapped(raw_domains_[c])) = ValuesOf(raw_domains_[c])
  BY <1>3, RawSwapped
<1>5. \A c \in 1 .. n : Swapped(raw_domains_[c]) \in Domains
  BY <1>4 DEF Domains, IsDomain
<1>6. raw_domains_' \in Seq(Domains) /\ Len(raw_domains_') = n /\ DOMAIN raw_domains_' = 1 .. n
  BY <1>1, <1>3, <1>5
<1>7. StoredColumns' = StoredColumns /\ HasValue' = HasValue
  BY <1>1, <1>6 DEF StoredColumns, HasValue
<1>8. Used(domains_, raw_domains_') \in Int
  BY <1>2, <1>6, UsedIs
<1>9. DomainTypes'
  BY <1>1, <1>2, <1>6, <1>8 DEF DomainTypes
<1>10. RawInv'
  <2>1. \A c \in 1 .. n : ~Last(raw_domains_'[c]).swapped /\ ValuesOf(raw_domains_'[c]) = seen[StoredColumns + c]
    BY <1>1, <1>3, <1>4
  <2>2. StoredColumns \in Nat
    BY RawAre
  <2> QED BY <1>1, <1>6, <1>7, <2>1, <2>2 DEF RawInv
<1>11. StoredInv'
  BY <1>1, <1>7 DEF DomainInv, StoredInv
<1>12. MemoryIsRight'
  <2>1. NullsPassed' = NullsPassed
    BY <1>1 DEF NullsPassed
  <2>2. Used(domains_', raw_domains_') - mem_usage_' = 0
    BY <1>1, <1>8
  <2>3. Cardinality(NullsPassed') \in Nat
    BY <2>1, NullsAre
  <2> QED BY <2>2, <2>3 DEF MemoryIsRight
<1> QED BY <1>9, <1>10, <1>11, <1>12 DEF DomainInv
-----------------------------------------------------------------------------
(* Positions behind some others.                                           *)
LEMMA Shifted ==
  ASSUME NEW a \in Nat, NEW b \in Nat
  PROVE  /\ \A i \in 1 .. b : a + i \in 1 .. a + b /\ ~(a + i <= a) /\ a + i - a = i
         /\ \A i \in 1 .. a : i \in 1 .. a + b /\ i <= a
         /\ \A i \in 1 .. a + b : ~(i <= a) => i - a \in 1 .. b /\ i = a + (i - a)
         /\ \A i \in 1 .. a + b : i \in 1 .. a \/ \E j \in 1 .. b : i = a + j
         /\ a + b \in Nat /\ a + b - b = a
<1>1. \A i \in 1 .. a + b : ~(i <= a) => i - a \in 1 .. b /\ i = a + (i - a)
  OBVIOUS
<1> QED BY <1>1

(* A block is read: its values are in the last partitions.                 *)
LEMMA ProcessKeeps == DomainInv /\ ProcessBlock => DomainInv'
<1> SUFFICES ASSUME DomainInv, ProcessBlock PROVE DomainInv'
  OBVIOUS
<1> DEFINE n == Len(raw_domains_)
           s == StoredColumns
<1>1. PICK block \in [DOMAIN raw_domains_ -> BlockColumns] :
        /\ raw_domains_' = [c \in DOMAIN raw_domains_ |-> Insert(raw_domains_[c], block[c])]
        /\ seen' = [c \in DOMAIN seen |-> IF c <= s THEN seen[c] ELSE seen[c] \cup block[c - s]]
  BY DEF ProcessBlock
<1>2. /\ domains_' = domains_ /\ mem_usage_' = mem_usage_ /\ swap_candidate_' = swap_candidate_
      /\ at' \in {"refresh", "process", "store"} /\ stream' = [stream EXCEPT !.blocks = @ + 1]
  BY DEF ProcessBlock
<1>3. /\ domains_ \in Seq(Domains) /\ seen \in Seq(SUBSET Nat) /\ mem_usage_ \in Int
      /\ stream \in [table : 1 .. Len(ColumnCounts), blocks : Nat]
  BY DEF DomainInv, DomainTypes
<1>4. /\ n \in Nat /\ DOMAIN raw_domains_ = 1 .. n /\ s \in Nat /\ Len(seen) = s + n
      /\ \A c \in 1 .. n : /\ IsDomain(raw_domains_[c]) /\ ~Last(raw_domains_[c]).swapped
                           /\ ValuesOf(raw_domains_[c]) = seen[s + c]
  BY RawAre
<1>5. DOMAIN seen = 1 .. s + n
  BY <1>3, <1>4
<1> HIDE DEF n, s
<1>6. \A c \in 1 .. n : block[c] \subseteq Nat /\ IsFiniteSet(block[c])
  BY <1>4, DomainAssumption
<1>7. ASSUME NEW c \in 1 .. n
      PROVE  /\ IsDomain(Insert(raw_domains_[c], block[c])) /\ ~Last(Insert(raw_domains_[c], block[c])).swapped
             /\ ValuesOf(Insert(raw_domains_[c], block[c])) = ValuesOf(raw_domains_[c]) \cup block[c]
  BY <1>4, <1>6, InsertIs
<1>8. \A c \in 1 .. n : Insert(raw_domains_[c], block[c]) \in Domains
  BY <1>7 DEF Domains, IsDomain
<1>9. raw_domains_' \in Seq(Domains) /\ Len(raw_domains_') = n /\ DOMAIN raw_domains_' = 1 .. n
  <2>1. raw_domains_' = [c \in 1 .. n |-> Insert(raw_domains_[c], block[c])]
    BY <1>1, <1>4
  <2>2. n \in Nat
    BY <1>4
  <2> QED BY <1>8, <2>1, <2>2
<1>10. \A c \in 1 .. s + n : seen'[c] = IF c <= s THEN seen[c] ELSE seen[c] \cup block[c - s]
  BY <1>1, <1>5
<1>11. seen' \in Seq(SUBSET Nat) /\ Len(seen') = s + n
  <2>1. \A c \in 1 .. s + n : seen'[c] \subseteq Nat
    <3> TAKE c \in 1 .. s + n
    <3>1. seen[c] \subseteq Nat
      <4>1. c \in DOMAIN seen
        BY <1>5
      <4>2. \A i \in DOMAIN seen : seen[i] \in SUBSET Nat
        BY <1>3
      <4> QED BY <4>1, <4>2
    <3>2. ~(c <= s) => c - s \in 1 .. n
      BY <1>4, Shifted
    <3> QED BY <1>6, <1>10, <3>1, <3>2
  <2>2. s + n \in Nat
    BY <1>4
  <2> QED BY <1>1, <1>5, <2>1, <2>2
<1>12. StoredColumns' = s
  <2>1. s \in Nat /\ n \in Nat
    BY <1>4
  <2>2. s + n - n = s
    BY <2>1
  <2>3. Len(seen') = s + n /\ Len(raw_domains_') = n
    BY <1>9, <1>11
  <2>4. Len(seen') - Len(raw_domains_') = s
    BY <2>1, <2>2, <2>3
  <2> QED BY <2>4 DEF StoredColumns
<1>13. DomainTypes'
  <2>1. domains_' \in Seq(Domains) /\ mem_usage_' \in Int
    BY <1>2, <1>3
  <2>2. stream' \in [table : 1 .. Len(ColumnCounts), blocks : Nat]
    BY <1>2, <1>3
  <2>3. seen' \in Seq(SUBSET Nat) /\ raw_domains_' \in Seq(Domains)
    BY <1>9, <1>11
  <2> QED BY <2>1, <2>2, <2>3 DEF DomainTypes
<1>14. RawInv'
  <2>1. ASSUME NEW c \in 1 .. n PROVE seen'[s + c] = seen[s + c] \cup block[c]
    <3> DEFINE j == s + c
    <3>3. j \in 1 .. s + n /\ ~(j <= s) /\ j - s = c
      BY <1>4, Shifted
    <3> HIDE DEF j
    <3>4. seen'[j] = seen[j] \cup block[j - s]
      BY <1>10, <3>3
    <3> QED BY <3>3, <3>4 DEF j
  <2>2. \A c \in 1 .. n : ~Last(raw_domains_'[c]).swapped /\ ValuesOf(raw_domains_'[c]) = seen'[s + c]
    BY <1>1, <1>4, <1>7, <2>1
  <2> QED BY <1>2, <1>4, <1>9, <1>12, <2>2 DEF RawInv
<1>15. StoredInv'
  <2>1. \A c \in 1 .. s : seen'[c] = seen[c]
    <3>1. \A c \in 1 .. s : c \in 1 .. s + n /\ c <= s
      BY <1>4, Shifted
    <3> QED BY <1>10, <3>1
  <2>2. HasValue' = HasValue
    BY <1>12, <2>1 DEF HasValue, s
  <2>3. HasValue \subseteq 1 .. s /\ HasValue \subseteq Nat
    BY DEF HasValue, s
  <2>4. IsFiniteSet(1 .. s)
    BY <1>4, FS_Interval
  <2>5. IsFiniteSet(HasValue)
    BY <2>3, <2>4, FS_Subset
  <2>6. \A i \in 1 .. Cardinality(HasValue) : AtPlaces(seen', HasValue)[i] = AtPlaces(seen, HasValue)[i]
    <3>1. \A i \in 1 .. Cardinality(HasValue) :
            /\ Ascending(HasValue)[i] \in HasValue
            /\ AtPlaces(seen', HasValue)[i] = seen'[Ascending(HasValue)[i]]
            /\ AtPlaces(seen, HasValue)[i] = seen[Ascending(HasValue)[i]]
      BY <2>3, <2>5, AtPlacesIs
    <3> QED BY <2>1, <2>3, <3>1
  <2>7. DOMAIN domains_ = 1 .. Cardinality(HasValue)
    BY <1>3 DEF DomainInv, StoredInv
  <2> QED BY <1>2, <2>2, <2>6, <2>7 DEF DomainInv, StoredInv
<1> QED BY <1>2, <1>13, <1>14, <1>15 DEF DomainInv

(* A table has been read: its columns with a value are stored behind those *)
(* of the earlier tables.                                                  *)
LEMMA StoreKeeps == DomainInv /\ StoreTable => DomainInv'
<1> SUFFICES ASSUME DomainInv, StoreTable PROVE DomainInv'
  OBVIOUS
<1> DEFINE n == Len(raw_domains_)
           s == StoredColumns
           L == {c \in DOMAIN raw_domains_ : ~IsNULL(Head(raw_domains_[c]))}
           more == AtPlaces(raw_domains_, L)
<1>1. /\ domains_' = domains_ \o more
      /\ mem_usage_' = mem_usage_ /\ swap_candidate_' = swap_candidate_
  BY DEF StoreTable
<1>2. /\ domains_ \in Seq(Domains) /\ raw_domains_ \in Seq(Domains) /\ seen \in Seq(SUBSET Nat) /\ mem_usage_ \in Int
      /\ stream \in [table : 1 .. Len(ColumnCounts), blocks : Nat]
  BY DEF DomainInv, DomainTypes
<1>3. /\ n \in Nat /\ DOMAIN raw_domains_ = 1 .. n /\ s \in Nat /\ Len(seen) = s + n
      /\ \A c \in 1 .. n : /\ IsDomain(raw_domains_[c]) /\ ~Last(raw_domains_[c]).swapped
                           /\ ValuesOf(raw_domains_[c]) = seen[s + c]
  BY RawAre
<1>4. L \subseteq 1 .. n /\ L \subseteq Nat \ {0} /\ L \subseteq Nat /\ IsFiniteSet(L)
  <2>1. L \subseteq 1 .. n
    BY <1>3
  <2>2. IsFiniteSet(1 .. n)
    BY <1>3, FS_Interval
  <2> HIDE DEF L
  <2>3. IsFiniteSet(L)
    BY <2>1, <2>2, FS_Subset
  <2> QED BY <2>1, <2>3
<1>5. \A c \in 1 .. n : c \in L <=> ~(seen[s + c] \subseteq {Null})
  BY <1>3, HeadTells
<1> HIDE DEF L, n, s
<1>6. /\ Cardinality(L) \in Nat /\ Len(more) = Cardinality(L) /\ DOMAIN more = 1 .. Cardinality(L)
      /\ \A i \in 1 .. Cardinality(L) : Ascending(L)[i] \in L /\ more[i] = raw_domains_[Ascending(L)[i]]
  BY <1>4, AtPlacesIs
<1>7. more \in Seq(Domains)
  <2>1. \A i \in 1 .. Cardinality(L) : more[i] \in Domains
    <3>1. \A c \in 1 .. n : raw_domains_[c] \in Domains
      BY <1>2, <1>3, DomainsAre
    <3> HIDE DEF more
    <3> QED BY <1>4, <1>6, <3>1
  <2>2. more = [i \in 1 .. Cardinality(L) |-> more[i]]
    BY <1>6 DEF AtPlaces
  <2> HIDE DEF more
  <2> QED BY <1>6, <2>1, <2>2
<1>8. /\ domains_' \in Seq(Domains) /\ Len(domains_') = Len(domains_) + Cardinality(L)
      /\ \A i \in 1 .. Len(domains_) : domains_'[i] = domains_[i]
      /\ \A i \in 1 .. Cardinality(L) : domains_'[Len(domains_) + i] = more[i]
      /\ Len(domains_) \in Nat
  <2> HIDE DEF more
  <2>1. domains_ \o more \in Seq(Domains) /\ Len(domains_ \o more) = Len(domains_) + Cardinality(L)
    BY <1>2, <1>6, <1>7, ConcatProperties
  <2>2. \A i \in 1 .. Len(domains_) + Cardinality(L) :
          (domains_ \o more)[i] = IF i <= Len(domains_) THEN domains_[i] ELSE more[i - Len(domains_)]
    BY <1>2, <1>6, <1>7, ConcatProperties
  <2> DEFINE k == Len(domains_)
             m == Cardinality(L)
  <2>3. k \in Nat /\ m \in Nat
    BY <1>2, <1>6
  <2>4. \A i \in 1 .. k : i \in 1 .. k + m /\ i <= k
    <3> HIDE DEF k, m
    <3> QED BY <2>3
  <2>5. \A i \in 1 .. m : k + i \in 1 .. k + m /\ ~(k + i <= k) /\ k + i - k = i
    <3> HIDE DEF k, m
    <3> QED BY <2>3
  <2> QED BY <1>1, <2>1, <2>2, <2>3, <2>4, <2>5
<1>9. /\ Len(seen') - Len(raw_domains_') = s + n
      /\ seen' \in Seq(SUBSET Nat) /\ \A c \in 1 .. s + n : seen'[c] = seen[c]
      /\ raw_domains_' \in Seq(Domains)
      /\ \A c \in 1 .. Len(raw_domains_') :
           ~Last(raw_domains_'[c]).swapped /\ ValuesOf(raw_domains_'[c]) = seen'[s + n + c]
      /\ at' = "done" => raw_domains_' = <<>>
      /\ at' # "count" /\ stream' \in [table : 1 .. Len(ColumnCounts), blocks : Nat]
  <2>1. CASE stream.table = Len(ColumnCounts)
    <3>1. at' = "done" /\ raw_domains_' = <<>> /\ seen' = seen /\ stream' = stream
      BY <2>1 DEF StoreTable
    <3>2. s + n - 0 = s + n
      BY <1>3
    <3> QED BY <1>2, <1>3, <3>1, <3>2
  <2>2. CASE stream.table # Len(ColumnCounts)
    <3> DEFINE m == ColumnCounts[stream.table + 1]
               z == [c \in 1 .. m |-> {}]
    <3>1. /\ at' = "refresh" /\ raw_domains_' = RawDomainsInit(m) /\ seen' = seen \o z
          /\ stream' = [table |-> stream.table + 1, blocks |-> 0]
      BY <2>2 DEF StoreTable
    <3>2. stream.table + 1 \in 1 .. Len(ColumnCounts)
      <4> DEFINE t == stream.table
                 l == Len(ColumnCounts)
      <4>1. t \in 1 .. l /\ t # l
        BY <1>2, <2>2
      <4>2. l \in Nat
        BY DomainAssumption
      <4> HIDE DEF t, l
      <4>3. t + 1 \in 1 .. l
        BY <4>1, <4>2
      <4> QED BY <4>3 DEF t, l
    <3>3. m \in Nat
      BY <3>2, CountsAre
    <3> HIDE DEF m
    <3>4. /\ raw_domains_' \in Seq(Domains) /\ Len(raw_domains_') = m
          /\ \A c \in 1 .. m : ~Last(raw_domains_'[c]).swapped /\ ValuesOf(raw_domains_'[c]) = {}
      BY <3>1, <3>3, RawDomainsAre
    <3>5. z \in Seq(SUBSET Nat) /\ Len(z) = m /\ \A c \in 1 .. m : z[c] = {}
      BY <3>3
    <3> HIDE DEF z
    <3>6. /\ seen' \in Seq(SUBSET Nat) /\ Len(seen') = s + n + m
          /\ \A c \in 1 .. s + n + m : seen'[c] = IF c <= s + n THEN seen[c] ELSE z[c - (s + n)]
      <4>1. /\ seen \o z \in Seq(SUBSET Nat) /\ Len(seen \o z) = Len(seen) + Len(z)
            /\ \A c \in 1 .. Len(seen) + Len(z) :
                 (seen \o z)[c] = IF c <= Len(seen) THEN seen[c] ELSE z[c - Len(seen)]
        BY <1>2, <3>5, ConcatProperties
      <4>2. Len(seen) = s + n /\ Len(z) = m
        BY <1>3, <3>5
      <4> QED BY <3>1, <4>1, <4>2
    <3> DEFINE a == s + n
    <3>7. a \in Nat
      BY <1>3
    <3>8. \A c \in 1 .. a + m : seen'[c] = IF c <= a THEN seen[c] ELSE z[c - a]
      BY <3>6
    <3>9. Len(seen') - Len(raw_domains_') = a
      <4>1. Len(seen') = a + m
        BY <3>6
      <4> HIDE DEF a
      <4> QED BY <3>3, <3>4, <3>7, <4>1
    <3> HIDE DEF a
    <3>10. \A c \in 1 .. a : seen'[c] = seen[c]
      BY <3>3, <3>7, <3>8
    <3>11. ASSUME NEW c \in 1 .. m PROVE seen'[a + c] = {}
      <4> DEFINE j == a + c
      <4>2. j \in 1 .. a + m /\ ~(j <= a) /\ j - a = c
        BY <3>3, <3>7, Shifted
      <4> HIDE DEF j
      <4>3. seen'[j] = z[j - a]
        BY <3>8, <4>2
      <4> QED BY <3>5, <4>2, <4>3 DEF j
    <3> QED BY <3>1, <3>2, <3>4, <3>6, <3>9, <3>10, <3>11 DEF a
  <2> QED BY <2>1, <2>2
<1>10. StoredColumns' = s + n
  BY <1>9 DEF StoredColumns
<1>11. DomainTypes'
  BY <1>1, <1>2, <1>8, <1>9 DEF DomainTypes
<1>12. RawInv'
  <2>1. s + n \in Nat
    BY <1>3
  <2>2. DOMAIN raw_domains_' = 1 .. Len(raw_domains_')
    BY <1>9
  <2> QED BY <1>9, <1>10, <2>1, <2>2 DEF RawInv
<1>13. StoredInv'
  <2> DEFINE K == HasValue
             M == K \cup {s + l : l \in L}
  <2>1. K \subseteq 1 .. s
    BY DEF HasValue, s
  <2>2. HasValue' = M
    <3>1. HasValue' = {c \in 1 .. s + n : ~(seen[c] \subseteq {Null})}
      BY <1>9, <1>10 DEF HasValue
    <3>2. K = {c \in 1 .. s : ~(seen[c] \subseteq {Null})}
      BY DEF HasValue, s
    <3>3. ASSUME NEW c \in 1 .. s + n PROVE ~(seen[c] \subseteq {Null}) <=> c \in M
      <4>1. CASE c <= s
        <5>1. c \in 1 .. s
          BY <1>3, <4>1
        <5>2. \A l \in L : c # s + l
          BY <1>3, <1>4, <4>1
        <5> QED BY <3>2, <5>1, <5>2
      <4>2. CASE ~(c <= s)
        <5> DEFINE l == c - s
        <5>1. l \in 1 .. n /\ c = s + l /\ c \notin 1 .. s
          BY <1>3, <4>2
        <5> HIDE DEF l
        <5>2. c \notin K
          BY <3>2, <5>1
        <5>3. l \in L <=> ~(seen[c] \subseteq {Null})
          BY <1>5, <5>1
        <5>4. c \in {s + j : j \in L} <=> l \in L
          <6>1. ASSUME NEW j \in L, c = s + j PROVE j = l
            BY <1>3, <1>4, <5>1, <6>1
          <6> QED BY <5>1, <6>1
        <5> QED BY <5>2, <5>3, <5>4
      <4> QED BY <4>1, <4>2
    <3>4. M \subseteq 1 .. s + n
      <4>1. \A l \in L : s + l \in 1 .. s + n
        BY <1>3, <1>4
      <4>2. \A c \in 1 .. s : c \in 1 .. s + n
        BY <1>3
      <4> QED BY <2>1, <4>1, <4>2
    <3> HIDE DEF M
    <3> QED BY <3>1, <3>3, <3>4
  <2> HIDE DEF K
  <2>3. M = K \cup {s + l : l \in L}
    OBVIOUS
  <2> HIDE DEF M
  <2>4. /\ IsFiniteSet(K) /\ IsFiniteSet(M) /\ M \subseteq Nat
        /\ Cardinality(M) = Cardinality(K) + Cardinality(L)
        /\ \A i \in 1 .. Cardinality(K) : Ascending(M)[i] = Ascending(K)[i]
        /\ \A i \in 1 .. Cardinality(L) : Ascending(M)[Cardinality(K) + i] = s + Ascending(L)[i]
    <3>1. s \in Nat
      BY <1>3
    <3>2. L \subseteq Nat \ {0} /\ IsFiniteSet(L)
      BY <1>4
    <3>3. Appended(s, K, L, M)
      BY <2>1, <2>3, <3>1, <3>2 DEF Appended
    <3>4. ArePlacesAppended(s, K, L, M)
      BY <3>3, PlacesAppended
    <3> QED BY <3>4 DEF ArePlacesAppended
  <2>5. Len(domains_) = Cardinality(K) /\ \A i \in 1 .. Len(domains_) : ValuesOf(domains_[i]) = AtPlaces(seen, K)[i]
    BY <1>2 DEF DomainInv, StoredInv, K
  <2>6. \A i \in 1 .. Cardinality(K) : Ascending(K)[i] \in K /\ AtPlaces(seen, K)[i] = seen[Ascending(K)[i]]
    <3>1. K \subseteq Nat /\ IsFiniteSet(K)
      BY <2>1, <2>4
    <3> QED BY <3>1, AtPlacesIs
  <2>7. \A i \in 1 .. Cardinality(M) : AtPlaces(seen', M)[i] = seen'[Ascending(M)[i]]
    BY <2>4, AtPlacesIs
  <2>8. \A i \in 1 .. Cardinality(K) + Cardinality(L) :
          i \in 1 .. Cardinality(K) \/ \E j \in 1 .. Cardinality(L) : i = Cardinality(K) + j
    <3> DEFINE k == Cardinality(K)
               m == Cardinality(L)
    <3>1. k \in Nat /\ m \in Nat
      BY <1>6, <1>8, <2>5
    <3> HIDE DEF k, m
    <3>2. ASSUME NEW i \in 1 .. k + m PROVE i \in 1 .. k \/ \E j \in 1 .. m : i = k + j
      <4>1. i \notin 1 .. k => i - k \in 1 .. m /\ i = k + (i - k)
        BY <3>1
      <4> QED BY <4>1
    <3> QED BY <3>2 DEF k, m
  <2>9. ASSUME NEW i \in 1 .. Cardinality(M) PROVE ValuesOf(domains_'[i]) = AtPlaces(seen', M)[i]
    <3>1. CASE i \in 1 .. Cardinality(K)
      <4>1. Ascending(M)[i] = Ascending(K)[i] /\ Ascending(K)[i] \in K
        BY <2>4, <2>6, <3>1
      <4>2. Ascending(K)[i] \in 1 .. s + n
        <5>1. \A c \in 1 .. s : c \in 1 .. s + n
          BY <1>3, Shifted
        <5> QED BY <2>1, <4>1, <5>1
      <4>3. seen'[Ascending(K)[i]] = seen[Ascending(K)[i]]
        BY <1>9, <4>2
      <4>4. ValuesOf(domains_[i]) = seen[Ascending(K)[i]] /\ domains_'[i] = domains_[i]
        BY <1>8, <2>5, <2>6, <3>1
      <4> QED BY <2>7, <4>1, <4>3, <4>4
    <3>2. ASSUME NEW j \in 1 .. Cardinality(L), i = Cardinality(K) + j PROVE ValuesOf(domains_'[i]) = AtPlaces(seen', M)[i]
      <4> DEFINE l == Ascending(L)[j]
      <4>1. l \in L /\ l \in 1 .. n
        BY <1>4, <1>6
      <4>2. Ascending(M)[i] = s + l
        BY <2>4, <3>2
      <4>3. domains_'[i] = raw_domains_[l]
        BY <1>6, <1>8, <2>5, <3>2
      <4> HIDE DEF l
      <4>4. ValuesOf(raw_domains_[l]) = seen[s + l] /\ s + l \in 1 .. s + n
        BY <1>3, <4>1
      <4>5. seen'[s + l] = seen[s + l]
        BY <1>9, <4>4
      <4> QED BY <2>7, <4>2, <4>3, <4>4, <4>5
    <3> QED BY <2>4, <2>8, <3>1, <3>2
  <2>10. Len(domains_') = Cardinality(M) /\ DOMAIN domains_' = 1 .. Cardinality(M)
    BY <1>8, <2>4, <2>5
  <2>11. swap_candidate_ \in 1 .. Len(domains_') + 1
    BY <1>6, <1>8, NullsAre
  <2> QED BY <1>1, <2>2, <2>9, <2>10, <2>11 DEF StoredInv
<1> QED BY <1>9, <1>11, <1>12, <1>13 DEF DomainInv

(* Every step keeps the invariant.                                         *)
LEMMA DomainInvNext == DomainInv /\ [DomainNext]_domainVars => DomainInv'
<1> SUFFICES ASSUME DomainInv, [DomainNext]_domainVars PROVE DomainInv'
  OBVIOUS
<1>1. CASE SwapNext
  <2>1. UNCHANGED <<at, stream, seen>> /\ at = "count" /\ (SwapDomain \/ SwapRaw)
    BY <1>1 DEF SwapNext
  <2> QED BY <2>1, SwapDomainKeeps, SwapRawKeeps
<1>2. CASE UNCHANGED domainVars
  <2>1. UNCHANGED <<domains_, raw_domains_, seen, swap_candidate_, mem_usage_, stream, at>>
    BY <1>2 DEF domainVars
  <2>2. MemoryIsRight' <=> MemoryIsRight
    BY <2>1 DEF MemoryIsRight, NullsPassed
  <2> QED BY <2>1, <2>2, QuietKeeps DEF DomainInv, DomainTypes
<1> QED BY <1>1, <1>2, RefreshKeeps, CrashKeeps, BlocksKeep, ProcessKeeps, StoreKeeps DEF DomainNext

(* It says what is wanted of the domains.                                  *)
LEMMA DomainInvIsRight == DomainInv => DomainsAreRight
<1> SUFFICES ASSUME DomainInv PROVE DomainsAreRight
  OBVIOUS
<1>1. ASSUME at = "done" PROVE Len(domains_) = Len(Kept) /\ \A c \in DOMAIN Kept : IteratesValues(c)
  <2>1. raw_domains_ = <<>> /\ seen \in Seq(SUBSET Nat) /\ domains_ \in Seq(Domains)
    BY <1>1 DEF DomainInv, RawInv, DomainTypes
  <2>2. Len(seen) \in Nat /\ DOMAIN seen = 1 .. Len(seen) /\ Len(raw_domains_) = 0
    BY <2>1
  <2>3. StoredColumns = Len(seen)
    BY <2>2 DEF StoredColumns
  <2>4. HasValue = {c \in DOMAIN seen : ~(seen[c] \subseteq {Null})}
    BY <2>2, <2>3 DEF HasValue
  <2>5. Kept = AtPlaces(seen, HasValue)
    BY <2>4 DEF Kept
  <2>6. IsFiniteSet(HasValue) /\ HasValue \subseteq Nat
    <3>1. IsFiniteSet(1 .. Len(seen))
      BY <2>2, FS_Interval
    <3>2. HasValue \subseteq 1 .. Len(seen)
      BY <2>2, <2>4
    <3>3. IsFiniteSet(HasValue)
      BY <3>1, <3>2, FS_Subset
    <3> QED BY <3>2, <3>3
  <2>7. Len(Kept) = Cardinality(HasValue) /\ DOMAIN Kept = 1 .. Cardinality(HasValue)
    BY <2>5, <2>6, AtPlacesIs
  <2>8. Len(domains_) = Cardinality(HasValue) /\ DOMAIN domains_ = 1 .. Cardinality(HasValue)
    BY <2>1 DEF DomainInv, StoredInv
  <2>9. ASSUME NEW c \in DOMAIN Kept PROVE IteratesValues(c)
    <3>1. IsDomain(domains_[c]) /\ ValuesOf(domains_[c]) = Kept[c]
      BY <2>1, <2>5, <2>7, <2>8, DomainsAre DEF DomainInv, StoredInv
    <3>2. Iterated(domains_[c]) \in {Ascending(Kept[c]), Ascending(Kept[c] \ {Null})}
      BY <3>1, IteratorIsRight
    <3> QED BY <3>2 DEF IteratesValues, IteratesAll
  <2> QED BY <2>7, <2>8, <2>9
<1> QED BY <1>1 DEF DomainsAreRight, DomainInv, MemoryIsRight, NullsPassed

(* However the blocks are cut and whatever memory limit is set: when all   *)
(* tables are read there is one domain for each column with a value, and   *)
(* its iterator goes through the column's distinct values in ascending     *)
(* order, each once, leaving out at most the empty string; and whenever    *)
(* the memory is compared with the limit, what is counted is what is used, *)
(* but for one unit for each stored domain that keeps an empty string.     *)
THEOREM DomainsAreAlwaysRight == DomainSpec => []DomainsAreRight
BY DomainInvInit, DomainInvNext, DomainInvIsRight, PTL DEF DomainSpec
-----------------------------------------------------------------------------
(* Inclusion dependencies (Inds).                                          *)

(* What Spider reads: tables of at least a row each, of numbers, the rows  *)
(* of a table of one length.                                               *)
AreTables(ts) ==
  /\ ts \in Seq(Seq(Seq(Nat))) /\ ts # <<>>
  /\ \A i \in DOMAIN ts : /\ ts[i] # <<>>
                          /\ \A r \in DOMAIN ts[i] : Len(ts[i][r]) = Len(ts[i][1])

(* What of it matters.                                                     *)
AreDomains(A, D) ==
  /\ A \subseteq Nat \X Nat /\ IsFiniteSet(A)
  /\ \A a \in A : D[a] \subseteq Nat /\ D[a] # {} /\ IsFiniteSet(D[a])

Unequal(nulls) == IF nulls THEN {} ELSE {EmptyCell}
Met(s, D, a) == IF a \in s.queue THEN D[a] \ s.rest[a] ELSE D[a]
Included(V, W, nulls) == V \subseteq W \ Unequal(nulls)
NotYet(v, w, nulls) == v < w \/ (v = EmptyCell /\ w = EmptyCell /\ ~nulls)
SpiderStates(A) ==
  [queue : SUBSET A, rest : [A -> SUBSET Nat], refs : [A -> SUBSET A], deps : [A -> SUBSET A],
   occurrences : [A -> [A -> Nat]]]
Behind(s, A, D, nulls, a) ==
  \A v \in Met(s, D, a), c \in s.queue : NotYet(v, Min(s.rest[c]), nulls)
SpiderInv(s, A, D, nulls, exact) ==
  /\ s \in SpiderStates(A)
  /\ \A a \in s.queue : s.rest[a] \subseteq D[a] /\ s.rest[a] # {}
  /\ \A a \in A : \/ Behind(s, A, D, nulls, a)
                  \/ a \notin s.queue /\ exact /\ s.refs[a] = {} /\ s.deps[a] = {}
  /\ \A a, b \in A : a # b => (b \in s.refs[a] <=> Included(Met(s, D, a), D[b], nulls))
  /\ \A a, b \in A : a \in s.deps[b] <=> b \in s.refs[a]
  /\ \A a \in A : a \notin s.refs[a]
  /\ ~exact => \A a, b \in A :
       s.occurrences[a][b]
         = Cardinality({v \in Met(s, D, a) \cap Met(s, D, b) : a = b \/ v \notin Unequal(nulls)})

(* The start.                                                              *)
LEMMA SpiderStarts ==
  ASSUME NEW A, NEW D, AreDomains(A, D), NEW nulls \in BOOLEAN, NEW exact \in BOOLEAN,
         NEW s, s = [queue |-> A, rest |-> [a \in A |-> D[a]],
                     refs |-> [a \in A |-> A \ {a}], deps |-> [a \in A |-> A \ {a}],
                     occurrences |-> [a \in A |-> [b \in A |-> 0]]]
  PROVE  SpiderInv(s, A, D, nulls, exact)
<1>1. s \in SpiderStates(A)
  BY DEF SpiderStates, AreDomains
<1>2. \A a \in A : a \in s.queue /\ s.rest[a] = D[a] /\ Met(s, D, a) = {}
  BY DEF Met
<1>3. \A a \in A : Behind(s, A, D, nulls, a)
  BY <1>2 DEF Behind
<1>4. \A a, b \in A : /\ (b \in s.refs[a] <=> a # b) /\ (a \in s.deps[b] <=> a # b)
                      /\ s.occurrences[a][b] = 0
  OBVIOUS
<1>5. \A a, b \in A : Included(Met(s, D, a), D[b], nulls)
  BY <1>2 DEF Included
<1>6. \A a, b \in A : Cardinality({v \in Met(s, D, a) \cap Met(s, D, b) : a = b \/ v \notin Unequal(nulls)}) = 0
  <2> SUFFICES ASSUME NEW a \in A, NEW b \in A
               PROVE  Cardinality({v \in Met(s, D, a) \cap Met(s, D, b) : a = b \/ v \notin Unequal(nulls)}) = 0
    OBVIOUS
  <2>1. {v \in Met(s, D, a) \cap Met(s, D, b) : a = b \/ v \notin Unequal(nulls)} = {}
    BY <1>2
  <2> QED BY <2>1, FS_EmptySet
<1>7. \A a \in s.queue : s.rest[a] \subseteq D[a] /\ s.rest[a] # {}
  BY <1>2 DEF AreDomains
<1>8. /\ \A a, b \in A : a # b => (b \in s.refs[a] <=> Included(Met(s, D, a), D[b], nulls))
      /\ \A a, b \in A : a \in s.deps[b] <=> b \in s.refs[a]
      /\ \A a \in A : a \notin s.refs[a]
  BY <1>4, <1>5
<1>9. \A a, b \in A :
        s.occurrences[a][b] = Cardinality({v \in Met(s, D, a) \cap Met(s, D, b) : a = b \/ v \notin Unequal(nulls)})
  BY <1>4, <1>6
<1> QED BY <1>1, <1>3, <1>7, <1>8, <1>9, Zenon DEF SpiderInv

(* The top of the queue has the least current value.                       *)
LEMMA TopIsLeast ==
  ASSUME NEW A, NEW D, AreDomains(A, D), NEW s, s.queue \subseteq A, s.queue # {},
         \A a \in s.queue : s.rest[a] \subseteq Nat /\ s.rest[a] # {}
  PROVE  /\ Top(s) \in s.queue
         /\ \A a \in s.queue : Min(s.rest[Top(s)]) <= Min(s.rest[a])
<1>1. \A a \in s.queue : Current(s, a) \in Nat
  BY MinIsLeast DEF Current
<1>2. PICK v \in {Current(s, a) : a \in s.queue} : \A w \in {Current(s, a) : a \in s.queue} : v <= w
  <2>1. {Current(s, a) : a \in s.queue} \subseteq Nat /\ {Current(s, a) : a \in s.queue} # {}
    BY <1>1
  <2> QED BY <2>1, MinIsLeast
<1> DEFINE L == {a \in s.queue : Current(s, a) = v}
<1>3. L # {} /\ \A a \in L : a[1] \in Nat /\ a[2] \in Nat /\ a = <<a[1], a[2]>>
  BY <1>2 DEF AreDomains
<1>4. PICK i \in {a[1] : a \in L} : \A j \in {a[1] : a \in L} : i <= j
  <2>1. {a[1] : a \in L} \subseteq Nat /\ {a[1] : a \in L} # {}
    BY <1>3
  <2> HIDE DEF L
  <2> QED BY <2>1, MinIsLeast
<1> DEFINE M == {a \in L : a[1] = i}
<1>5. PICK c \in {a[2] : a \in M} : \A d \in {a[2] : a \in M} : c <= d
  <2>1. {a[2] : a \in M} \subseteq Nat /\ {a[2] : a \in M} # {}
    BY <1>3, <1>4
  <2> HIDE DEF M
  <2> QED BY <2>1, MinIsLeast
<1>6. PICK t \in M : t[2] = c
  BY <1>5
<1>7. t \in s.queue /\ Current(s, t) = v /\ t[1] = i
  BY <1>6
<1>8. ASSUME NEW b \in s.queue \ {t}
      PROVE  Current(s, t) < Current(s, b) \/ (Current(s, t) = Current(s, b) /\ Precedes(t, b))
  <2>1. v <= Current(s, b) /\ v \in Nat /\ Current(s, b) \in Nat
    BY <1>1, <1>2
  <2>2. CASE Current(s, b) = v
    <3>1. b \in L
      BY <2>2
    <3>2. i <= b[1] /\ i \in Nat /\ b[1] \in Nat
      BY <1>3, <1>4, <3>1
    <3>3. b[1] = i => c <= b[2] /\ c \in Nat /\ b[2] \in Nat
      BY <1>3, <1>5, <3>1
    <3>4. b[1] = i => b[2] # c
      BY <1>3, <1>6, <1>7, <3>1
    <3> QED BY <1>6, <1>7, <2>2, <3>2, <3>3, <3>4 DEF Precedes
  <2> QED BY <1>7, <2>1, <2>2
<1>9. \A b \in s.queue \ {Top(s)} :
        \/ Current(s, Top(s)) < Current(s, b)
        \/ Current(s, Top(s)) = Current(s, b) /\ Precedes(Top(s), b)
  <2> HIDE DEF L, M
  <2> QED BY <1>7, <1>8, Zenon DEF Top
<1>10. Top(s) \in s.queue
  <2> HIDE DEF L, M
  <2> QED BY <1>7, <1>8, Zenon DEF Top
<1> QED BY <1>1, <1>9, <1>10 DEF Current

(* A group: those of the queue at the least value; the empty string is     *)
(* alone if empty strings are unequal.                                     *)
IsGroup(s, ids, t, v, nulls) ==
  /\ ids \subseteq s.queue /\ t \in ids /\ v \in Nat
  /\ \A a \in ids : Min(s.rest[a]) = v
  /\ \A c \in s.queue : v <= Min(s.rest[c]) /\ Min(s.rest[c]) \in Nat
  /\ IF v \in Unequal(nulls) THEN ids = {t} ELSE \A c \in s.queue : Min(s.rest[c]) = v => c \in ids

(* The attributes that Spider takes together have the least current value, *)
(* and none that lacks it is left in the queue with it, unless nulls are   *)
(* unequal.                                                                *)
LEMMA GroupIs ==
  ASSUME NEW A, NEW D, AreDomains(A, D), NEW nulls \in BOOLEAN, NEW exact \in BOOLEAN, NEW s,
         SpiderInv(s, A, D, nulls, exact), s.queue # {}
  PROVE  \E t, v : IsGroup(s, Group(s, Top(s), nulls), t, v, nulls)
<1>1. s.queue \subseteq A /\ \A a \in s.queue : s.rest[a] \subseteq Nat /\ s.rest[a] # {}
  BY DEF SpiderInv, SpiderStates
<1> DEFINE t == Top(s)
           v == Min(s.rest[t])
<1>2. t \in s.queue /\ \A a \in s.queue : v <= Min(s.rest[a])
  BY <1>1, TopIsLeast
<1>3. \A a \in s.queue : Min(s.rest[a]) \in Nat
  BY <1>1, MinIsLeast
<1> HIDE DEF t
<1>4. IsGroup(s, Group(s, t, nulls), t, v, nulls)
  BY <1>2, <1>3 DEF IsGroup, Group, Current, Unequal
<1> QED BY <1>4 DEF t

(* What a step does, given the group.                                      *)
Finished(s, ids, exact) == {a \in ids : HasFinished(IntersectRefs(s, ids), a, exact)}
IsStep(A, s, ids, exact, fin, z) ==
  /\ z \in SpiderStates(A)
  /\ z.queue = s.queue \ fin
  /\ \A a \in A : /\ z.rest[a] = IF a \in ids \ fin THEN s.rest[a] \ {Min(s.rest[a])} ELSE s.rest[a]
                  /\ z.refs[a] = IF a \in ids THEN s.refs[a] \cap ids ELSE s.refs[a]
                  /\ z.deps[a] = IF a \in ids THEN s.deps[a] ELSE s.deps[a] \ ids
                  /\ \A b \in A : z.occurrences[a][b] = IF a \in ids /\ b \in ids
                                     THEN s.occurrences[a][b] + 1 ELSE s.occurrences[a][b]
  /\ fin = {a \in ids : Cardinality(s.rest[a]) = 1 \/ (exact /\ z.refs[a] = {} /\ z.deps[a] = {})}

(* What a group changes: the references of its members, what depends on    *)
(* the others, the queue and the values left of its members.               *)
LEMMA AfterGroupIs ==
  ASSUME NEW A, NEW s, s \in SpiderStates(A), NEW ids, ids \subseteq A, NEW exact,
         \A a \in ids : Min(s.rest[a]) \in Nat
  PROVE  IsStep(A, s, ids, exact, Finished(s, ids, exact), AfterGroup(s, ids, exact))
<1> DEFINE z == AfterGroup(s, ids, exact)
<1> DEFINE y == IntersectRefs(s, ids)
           fin == Finished(s, ids, exact)
<1>1. /\ y \in SpiderStates(A) /\ y.queue = s.queue /\ y.rest = s.rest
      /\ \A a \in A : /\ y.refs[a] = IF a \in ids THEN s.refs[a] \cap ids ELSE s.refs[a]
                      /\ y.deps[a] = IF a \in ids THEN s.deps[a] ELSE s.deps[a] \ ids
                      /\ \A b \in A : y.occurrences[a][b] = IF a \in ids /\ b \in ids
                                         THEN s.occurrences[a][b] + 1 ELSE s.occurrences[a][b]
  <2> DEFINE refs == [a \in A |-> IF a \in ids THEN s.refs[a] \cap ids ELSE s.refs[a]]
             deps == [b \in A |-> IF b \in ids THEN s.deps[b] ELSE s.deps[b] \ ids]
             occ == [a \in A |-> [b \in A |-> IF a \in ids /\ b \in ids THEN s.occurrences[a][b] + 1
                                              ELSE s.occurrences[a][b]]]
  <2>1. /\ s = [queue |-> s.queue, rest |-> s.rest, refs |-> s.refs, deps |-> s.deps, occurrences |-> s.occurrences]
        /\ s.queue \in SUBSET A /\ s.rest \in [A -> SUBSET Nat]
        /\ s.refs \in [A -> SUBSET A] /\ s.deps \in [A -> SUBSET A] /\ s.occurrences \in [A -> [A -> Nat]]
    BY DEF SpiderStates
  <2>2. refs \in [A -> SUBSET A] /\ deps \in [A -> SUBSET A] /\ occ \in [A -> [A -> Nat]]
    <3>1. \A a \in A : s.refs[a] \subseteq A /\ s.deps[a] \subseteq A
      BY <2>1
    <3>2. \A a, b \in A : s.occurrences[a][b] \in Nat
      BY <2>1
    <3>3. refs \in [A -> SUBSET A]
      BY <3>1
    <3>4. deps \in [A -> SUBSET A]
      BY <3>1
    <3>5. occ \in [A -> [A -> Nat]]
      BY <3>2
    <3> QED BY <3>3, <3>4, <3>5
  <2>3. /\ DOMAIN s.refs = A /\ DOMAIN s.deps = A /\ DOMAIN s.occurrences = A
        /\ \A a \in A : DOMAIN s.occurrences[a] = A
    BY <2>1
  <2>4. y = [queue |-> s.queue, rest |-> s.rest, refs |-> refs, deps |-> deps, occurrences |-> occ]
    <3>1. [a \in DOMAIN s.occurrences |-> [b \in DOMAIN s.occurrences[a] |->
             IF a \in ids /\ b \in ids THEN s.occurrences[a][b] + 1 ELSE s.occurrences[a][b]]] = occ
      BY <2>3
    <3> QED BY <2>3, <3>1, Zenon DEF IntersectRefs
  <2>5. y.refs = refs /\ y.deps = deps /\ y.occurrences = occ /\ y.queue = s.queue /\ y.rest = s.rest
    <3> HIDE DEF refs, deps, occ, y
    <3> QED BY <2>4
  <2>6. y \in SpiderStates(A)
    <3> HIDE DEF refs, deps, occ, y
    <3> QED BY <2>1, <2>2, <2>4 DEF SpiderStates
  <2> HIDE DEF y
  <2> QED BY <2>5, <2>6
<1>2. z = Moved(y, ids, exact)
  BY DEF AfterGroup
<1>3. fin = {a \in ids : HasFinished(y, a, exact)}
  BY DEF Finished
<1> HIDE DEF y, fin, z
<1>4. /\ z \in SpiderStates(A) /\ z.queue = y.queue \ fin
      /\ z.refs = y.refs /\ z.deps = y.deps /\ z.occurrences = y.occurrences
      /\ \A a \in A : z.rest[a] = IF a \in ids \ fin THEN y.rest[a] \ {Min(y.rest[a])} ELSE y.rest[a]
  <2> DEFINE rest == [a \in A |-> IF a \in ids \ fin THEN y.rest[a] \ {Min(y.rest[a])} ELSE y.rest[a]]
  <2>1. /\ y = [queue |-> y.queue, rest |-> y.rest, refs |-> y.refs, deps |-> y.deps, occurrences |-> y.occurrences]
        /\ y.queue \in SUBSET A /\ y.rest \in [A -> SUBSET Nat]
        /\ y.refs \in [A -> SUBSET A] /\ y.deps \in [A -> SUBSET A] /\ y.occurrences \in [A -> [A -> Nat]]
    BY <1>1 DEF SpiderStates
  <2>2. rest \in [A -> SUBSET Nat]
    BY <2>1
  <2>3. z = [queue |-> y.queue \ fin, rest |-> rest, refs |-> y.refs, deps |-> y.deps, occurrences |-> y.occurrences]
    <3>1. DOMAIN y.rest = A
      BY <2>1
    <3>2. z = [y EXCEPT !.queue = @ \ fin, !.rest = rest]
      BY <1>2, <1>3, <3>1 DEF Moved
    <3> HIDE DEF rest
    <3> QED BY <2>1, <3>2
  <2>4. z.queue = y.queue \ fin /\ z.rest = rest /\ z.refs = y.refs /\ z.deps = y.deps /\ z.occurrences = y.occurrences
    <3> HIDE DEF rest
    <3> QED BY <2>3
  <2>5. z \in SpiderStates(A)
    <3> HIDE DEF rest
    <3> QED BY <2>1, <2>2, <2>3 DEF SpiderStates
  <2> QED BY <2>4, <2>5
<1>5. fin = {a \in ids : Cardinality(s.rest[a]) = 1 \/ (exact /\ z.refs[a] = {} /\ z.deps[a] = {})}
  BY <1>1, <1>3, <1>4 DEF HasFinished
<1>6. \A a \in A : z.rest[a] = IF a \in ids \ fin THEN s.rest[a] \ {Min(s.rest[a])} ELSE s.rest[a]
  BY <1>1, <1>4
<1>7. \A a \in A : /\ z.refs[a] = IF a \in ids THEN s.refs[a] \cap ids ELSE s.refs[a]
                   /\ z.deps[a] = IF a \in ids THEN s.deps[a] ELSE s.deps[a] \ ids
                   /\ \A b \in A : z.occurrences[a][b] = IF a \in ids /\ b \in ids
                                      THEN s.occurrences[a][b] + 1 ELSE s.occurrences[a][b]
  <2> SUFFICES ASSUME NEW a \in A
               PROVE  /\ z.refs[a] = IF a \in ids THEN s.refs[a] \cap ids ELSE s.refs[a]
                      /\ z.deps[a] = IF a \in ids THEN s.deps[a] ELSE s.deps[a] \ ids
                      /\ \A b \in A : z.occurrences[a][b] = IF a \in ids /\ b \in ids
                                         THEN s.occurrences[a][b] + 1 ELSE s.occurrences[a][b]
    OBVIOUS
  <2>1. z.refs[a] = y.refs[a] /\ z.deps[a] = y.deps[a] /\ z.occurrences[a] = y.occurrences[a]
    BY <1>4, Zenon
  <2>2. /\ y.refs[a] = IF a \in ids THEN s.refs[a] \cap ids ELSE s.refs[a]
        /\ y.deps[a] = IF a \in ids THEN s.deps[a] ELSE s.deps[a] \ ids
        /\ \A b \in A : y.occurrences[a][b] = IF a \in ids /\ b \in ids
                           THEN s.occurrences[a][b] + 1 ELSE s.occurrences[a][b]
    BY <1>1, Zenon
  <2> QED BY <2>1, <2>2, Zenon
<1>8. z.queue = s.queue \ fin /\ z \in SpiderStates(A)
  BY <1>1, <1>4
<1>9. IsStep(A, s, ids, exact, fin, z)
  BY <1>5, <1>6, <1>7, <1>8, Zenon DEF IsStep
<1> QED BY <1>9 DEF fin, z

(* What a step does to what has been met, and to the pairs left.           *)
Left(s) == UNION {{a} \X s.rest[a] : a \in s.queue}
Early(s, z, ids, exact, a) == a \in ids /\ a \notin z.queue /\ Cardinality(s.rest[a]) # 1
                              /\ exact /\ z.refs[a] = {} /\ z.deps[a] = {}

GroupStep(s, z, A, D, ids, v, exact) ==
  /\ ids \subseteq A /\ z \in SpiderStates(A)
  /\ z.queue \subseteq s.queue
  /\ \A a \in A \ ids : /\ a \in z.queue <=> a \in s.queue
                        /\ z.rest[a] = s.rest[a] /\ Met(z, D, a) = Met(s, D, a)
  /\ \A a \in ids : v \in s.rest[a] /\ v \in D[a] /\ v \notin Met(s, D, a)
  /\ \A a \in ids : a \in z.queue => z.rest[a] = s.rest[a] \ {v} /\ z.rest[a] # {}
  /\ \A a \in ids : \/ Met(z, D, a) = Met(s, D, a) \cup {v}
                    \/ Early(s, z, ids, exact, a)
  /\ \A a \in A : /\ z.refs[a] = IF a \in ids THEN s.refs[a] \cap ids ELSE s.refs[a]
                  /\ z.deps[a] = IF a \in ids THEN s.deps[a] ELSE s.deps[a] \ ids
                  /\ \A b \in A : z.occurrences[a][b] = IF a \in ids /\ b \in ids
                                     THEN s.occurrences[a][b] + 1 ELSE s.occurrences[a][b]

(* After a group each of its members has met one value more, the others    *)
(* none.                                                                   *)
LEMMA GroupMoves ==
  ASSUME NEW A, NEW D, AreDomains(A, D), NEW nulls \in BOOLEAN, NEW exact \in BOOLEAN, NEW s,
         SpiderInv(s, A, D, nulls, exact), NEW ids, NEW t, NEW v, IsGroup(s, ids, t, v, nulls),
         NEW z, z = AfterGroup(s, ids, exact)
  PROVE  GroupStep(s, z, A, D, ids, v, exact)
<1> DEFINE fin == Finished(s, ids, exact)
<1>1. /\ s \in SpiderStates(A) /\ s.queue \subseteq A /\ ids \subseteq s.queue
      /\ \A a \in s.queue : s.rest[a] \subseteq D[a] /\ s.rest[a] # {} /\ s.rest[a] \subseteq Nat
                            /\ IsFiniteSet(s.rest[a])
  <2>1. s \in SpiderStates(A) /\ s.queue \subseteq A /\ ids \subseteq s.queue
    BY DEF SpiderInv, IsGroup, SpiderStates
  <2>2. \A a \in s.queue : s.rest[a] \subseteq D[a] /\ s.rest[a] # {}
    BY DEF SpiderInv
  <2> QED BY <2>1, <2>2, FS_Subset DEF AreDomains
<1>2. \A a \in ids : Min(s.rest[a]) = v /\ v \in s.rest[a] /\ \A w \in s.rest[a] : v <= w
  BY <1>1, MinIsLeast DEF IsGroup
<1>3. \A a \in ids : Min(s.rest[a]) \in Nat
  BY <1>2 DEF IsGroup
<1>a. ids \in SUBSET A
  BY <1>1
<1>4. /\ z \in SpiderStates(A)
      /\ z.queue = s.queue \ fin
      /\ \A a \in A : /\ z.rest[a] = IF a \in ids \ fin THEN s.rest[a] \ {Min(s.rest[a])} ELSE s.rest[a]
                      /\ z.refs[a] = IF a \in ids THEN s.refs[a] \cap ids ELSE s.refs[a]
                      /\ z.deps[a] = IF a \in ids THEN s.deps[a] ELSE s.deps[a] \ ids
                      /\ \A b \in A : z.occurrences[a][b] = IF a \in ids /\ b \in ids
                                         THEN s.occurrences[a][b] + 1 ELSE s.occurrences[a][b]
      /\ fin = {a \in ids : Cardinality(s.rest[a]) = 1 \/ (exact /\ z.refs[a] = {} /\ z.deps[a] = {})}
  <2> HIDE DEF fin
  <2>1. IsStep(A, s, ids, exact, fin, z)
    BY <1>1, <1>3, <1>a, AfterGroupIs DEF fin
  <2> QED BY <2>1 DEF IsStep
<1> HIDE DEF fin
<1>5. fin \subseteq ids /\ ids \subseteq A /\ z.queue \subseteq s.queue
  BY <1>1, <1>4
<1>6. ASSUME NEW a \in A \ ids
      PROVE  (a \in z.queue <=> a \in s.queue) /\ z.rest[a] = s.rest[a] /\ Met(z, D, a) = Met(s, D, a)
  BY <1>4, <1>5, <1>6 DEF Met
<1>7. ASSUME NEW a \in ids PROVE v \in s.rest[a] /\ v \in D[a] /\ v \notin Met(s, D, a)
  BY <1>1, <1>2, <1>7 DEF Met
<1>8. ASSUME NEW a \in ids, a \in z.queue PROVE z.rest[a] = s.rest[a] \ {v} /\ z.rest[a] # {}
  <2>1. z.rest[a] = s.rest[a] \ {v} /\ Cardinality(s.rest[a]) # 1
    BY <1>2, <1>4, <1>5, <1>8
  <2>2. s.rest[a] # {v}
    BY <2>1, FS_Singleton
  <2> QED BY <1>2, <2>1, <2>2
<1>9. ASSUME NEW a \in ids PROVE Met(z, D, a) = Met(s, D, a) \cup {v} \/ Early(s, z, ids, exact, a)
  <2>1. a \in s.queue
    BY <1>1
  <2>2. CASE a \in z.queue
    BY <1>1, <1>7, <1>8, <2>1, <2>2 DEF Met
  <2>3. CASE a \notin z.queue /\ Cardinality(s.rest[a]) = 1
    <3>1. s.rest[a] = {v}
      <4>1. \E x : s.rest[a] = {x}
        BY <1>1, <2>1, <2>3, FS_Singleton
      <4> QED BY <1>2, <4>1
    <3> QED BY <1>1, <2>1, <2>3, <3>1 DEF Met
  <2>4. CASE a \notin z.queue /\ Cardinality(s.rest[a]) # 1
    <3>1. a \in fin
      BY <1>4, <2>1, <2>4
    <3> QED BY <1>4, <2>4, <3>1 DEF Early
  <2> QED BY <2>2, <2>3, <2>4
<1> HIDE DEF Early
<1> QED BY <1>4, <1>5, <1>6, <1>7, <1>8, <1>9 DEF GroupStep

(* What a group has met before it is at its value.                         *)
Common(s, D, nulls, a, b) ==
  {v \in Met(s, D, a) \cap Met(s, D, b) : a = b \/ v \notin Unequal(nulls)}

(* A group keeps the invariant: an attribute refers to those that have all *)
(* the values it has met, and has met all values below the next.           *)
LEMMA SpiderStepPasses ==
  ASSUME NEW A, NEW D, AreDomains(A, D), NEW nulls \in BOOLEAN, NEW exact \in BOOLEAN, NEW s,
         SpiderInv(s, A, D, nulls, exact), NEW ids, NEW t, NEW v, IsGroup(s, ids, t, v, nulls),
         NEW z, z = AfterGroup(s, ids, exact)
  PROVE  SpiderInv(z, A, D, nulls, exact)
<1> DEFINE M(a) == Met(s, D, a)
           N(a) == Met(z, D, a)
<1>0. GroupStep(s, z, A, D, ids, v, exact)
  BY GroupMoves
<1>1. /\ ids \subseteq A /\ ids \subseteq s.queue /\ z.queue \subseteq s.queue /\ s.queue \subseteq A
      /\ t \in ids /\ v \in Nat /\ z \in SpiderStates(A) /\ s \in SpiderStates(A)
  BY <1>0 DEF GroupStep, IsGroup, SpiderInv, SpiderStates
<1>2. \A a \in A \ ids : (a \in z.queue <=> a \in s.queue) /\ z.rest[a] = s.rest[a] /\ N(a) = M(a)
  BY <1>0 DEF GroupStep
<1>3. \A a \in ids : v \in s.rest[a] /\ v \in D[a] /\ v \notin M(a)
  BY <1>0 DEF GroupStep
<1>4. \A a \in ids : a \in z.queue => z.rest[a] = s.rest[a] \ {v} /\ z.rest[a] # {}
  BY <1>0 DEF GroupStep
<1>5. \A a \in ids : N(a) = M(a) \cup {v} \/ Early(s, z, ids, exact, a)
  BY <1>0 DEF GroupStep
<1>6. \A a \in A : /\ z.refs[a] = IF a \in ids THEN s.refs[a] \cap ids ELSE s.refs[a]
                   /\ z.deps[a] = IF a \in ids THEN s.deps[a] ELSE s.deps[a] \ ids
  BY <1>0 DEF GroupStep
<1>7. \A a, b \in A : z.occurrences[a][b] = IF a \in ids /\ b \in ids
                                            THEN s.occurrences[a][b] + 1 ELSE s.occurrences[a][b]
  BY <1>0 DEF GroupStep
<1>8. \A a \in s.queue : /\ s.rest[a] \subseteq D[a] /\ s.rest[a] # {} /\ s.rest[a] \subseteq Nat
                         /\ Min(s.rest[a]) \in s.rest[a] /\ \A w \in s.rest[a] : Min(s.rest[a]) <= w
                         /\ v <= Min(s.rest[a])
  <2>1. \A a \in s.queue : s.rest[a] \subseteq D[a] /\ s.rest[a] # {} /\ v <= Min(s.rest[a])
    BY DEF SpiderInv, IsGroup
  <2>2. \A a \in s.queue : s.rest[a] \subseteq Nat
    BY <1>1, <2>1 DEF AreDomains
  <2> QED BY <2>1, <2>2, MinIsLeast
<1>9. \A a \in A : \/ Behind(s, A, D, nulls, a)
                   \/ a \notin s.queue /\ exact /\ s.refs[a] = {} /\ s.deps[a] = {}
  BY DEF SpiderInv
<1>10. /\ \A a, b \in A : a # b => (b \in s.refs[a] <=> Included(M(a), D[b], nulls))
       /\ \A a, b \in A : a \in s.deps[b] <=> b \in s.refs[a]
       /\ \A a \in A : a \notin s.refs[a]
  BY DEF SpiderInv
<1>11. \A a \in ids, b \in ids : a # b => v \notin Unequal(nulls)
  BY DEF IsGroup
<1>12. \A a \in ids : Min(s.rest[a]) = v
  BY DEF IsGroup
<1>13. \A c \in s.queue : v \notin Unequal(nulls) /\ Min(s.rest[c]) = v => c \in ids
  BY DEF IsGroup
<1> HIDE DEF M, N
(* Nothing that is behind has met the value already, unless it is unequal. *)
<1>14. ASSUME NEW b \in A, Behind(s, A, D, nulls, b), v \in M(b) PROVE v \in Unequal(nulls)
  <2>1. NotYet(v, Min(s.rest[t]), nulls)
    BY <1>1, <1>14 DEF Behind, M
  <2> QED BY <1>1, <1>12, <2>1 DEF NotYet, Unequal
<1>15. ASSUME NEW a \in z.queue PROVE z.rest[a] \subseteq D[a] /\ z.rest[a] # {}
  BY <1>1, <1>2, <1>4, <1>8, <1>15
<1>16. ASSUME NEW c \in z.queue PROVE /\ Min(z.rest[c]) \in Nat /\ Min(s.rest[c]) \in Nat
                                      /\ Min(s.rest[c]) <= Min(z.rest[c])
                                      /\ c \in ids => v < Min(z.rest[c])
  <2>1. z.rest[c] \subseteq s.rest[c] /\ z.rest[c] # {} /\ c \in s.queue /\ s.rest[c] \subseteq Nat
    BY <1>1, <1>2, <1>4, <1>8, <1>16
  <2>2. Min(z.rest[c]) \in z.rest[c]
    BY <2>1, MinIsLeast
  <2>3. c \in ids => v \notin z.rest[c]
    BY <1>4, <1>16
  <2> QED BY <1>1, <1>8, <2>1, <2>2, <2>3
<1>17. ASSUME NEW a \in A PROVE \/ Behind(z, A, D, nulls, a)
                                \/ a \notin z.queue /\ exact /\ z.refs[a] = {} /\ z.deps[a] = {}
  <2>1. CASE Early(s, z, ids, exact, a)
    BY <2>1 DEF Early
  <2>2. CASE a \notin ids /\ ~Behind(s, A, D, nulls, a)
    BY <1>1, <1>2, <1>6, <1>9, <2>2
  <2>3. CASE Behind(s, A, D, nulls, a) /\ (a \in ids => N(a) = M(a) \cup {v})
    <3> SUFFICES ASSUME NEW w \in N(a), NEW c \in z.queue PROVE NotYet(w, Min(z.rest[c]), nulls)
      BY DEF Behind, N
    <3>1. CASE w \in M(a)
      <4>1. NotYet(w, Min(s.rest[c]), nulls)
        BY <1>1, <2>3, <3>1 DEF Behind, M
      <4>2. w \in Nat
        <5>1. w \in D[a]
          BY <3>1 DEF M, Met
        <5> QED BY <5>1 DEF AreDomains
      <4> QED BY <1>16, <4>1, <4>2 DEF NotYet, EmptyCell
    <3>2. CASE a \in ids /\ w = v
      <4>1. CASE c \in ids
        BY <1>1, <1>16, <3>2, <4>1 DEF NotYet
      <4>2. CASE c \notin ids
        <5>1. c \in s.queue /\ v <= Min(s.rest[c])
          BY <1>1, <1>8
        <5>2. CASE v \in Unequal(nulls)
          BY <1>1, <1>16, <3>2, <5>1, <5>2 DEF NotYet, Unequal, EmptyCell
        <5>3. CASE v \notin Unequal(nulls)
          <6>1. Min(s.rest[c]) # v
            BY <1>13, <4>2, <5>1, <5>3
          <6> QED BY <1>1, <1>16, <3>2, <5>1, <6>1 DEF NotYet
        <5> QED BY <5>2, <5>3
      <4> QED BY <4>1, <4>2
    <3>3. a \notin ids => w \in M(a)
      BY <1>2
    <3> QED BY <2>3, <3>1, <3>2, <3>3
  <2>4. a \in ids => Behind(s, A, D, nulls, a)
    BY <1>1, <1>9
  <2> QED BY <1>5, <2>1, <2>2, <2>3, <2>4
<1>18. ASSUME NEW a \in ids, NEW b \in A, a # b
       PROVE  b \in z.refs[a] <=> Included(M(a) \cup {v}, D[b], nulls)
  <2>1. b \in z.refs[a] <=> b \in s.refs[a] /\ b \in ids
    BY <1>1, <1>6
  <2>2. b \in s.refs[a] <=> Included(M(a), D[b], nulls)
    BY <1>1, <1>10, <1>18
  <2>3. b \in ids => v \in D[b] \ Unequal(nulls)
    BY <1>3, <1>11, <1>18
  <2>4. ASSUME v \in D[b] \ Unequal(nulls), b \in s.refs[a] PROVE b \in ids
    <3>1. s.deps[b] # {}
      BY <1>1, <1>10, <2>4
    <3>2. v \notin M(b)
      BY <1>9, <1>14, <2>4, <3>1
    <3>3. b \in s.queue /\ v \in s.rest[b]
      BY <2>4, <3>2 DEF M, Met
    <3> QED BY <1>1, <1>8, <1>13, <2>4, <3>3
  <2> QED BY <2>1, <2>2, <2>3, <2>4 DEF Included
<1>19. ASSUME NEW a \in A, NEW b \in A, a # b PROVE b \in z.refs[a] <=> Included(N(a), D[b], nulls)
  <2>1. CASE a \notin ids
    <3>1. z.refs[a] = s.refs[a] /\ N(a) = M(a)
      BY <1>2, <1>6, <2>1
    <3>2. b \in s.refs[a] <=> Included(M(a), D[b], nulls)
      BY <1>10, <1>19
    <3> QED BY <3>1, <3>2
  <2>2. CASE a \in ids /\ N(a) = M(a) \cup {v}
    BY <1>18, <1>19, <2>2
  <2>3. CASE Early(s, z, ids, exact, a)
    <3>1. N(a) = D[a] /\ a \in ids /\ b \notin z.refs[a]
      BY <2>3 DEF Early, N, Met
    <3>2. M(a) \cup {v} \subseteq D[a]
      BY <1>3, <3>1 DEF M, Met
    <3> QED BY <1>18, <1>19, <3>1, <3>2 DEF Included
  <2> QED BY <1>5, <2>1, <2>2, <2>3
<1>20. ASSUME NEW a \in A, NEW b \in A PROVE a \in z.deps[b] <=> b \in z.refs[a]
  <2>1. a \in s.deps[b] <=> b \in s.refs[a]
    BY <1>10
  <2>2. z.refs[a] = IF a \in ids THEN s.refs[a] \cap ids ELSE s.refs[a]
    BY <1>6, Zenon
  <2>3. z.deps[b] = IF b \in ids THEN s.deps[b] ELSE s.deps[b] \ ids
    BY <1>6, Zenon
  <2> QED BY <2>1, <2>2, <2>3
<1>21. \A a \in A : a \notin z.refs[a]
  BY <1>6, <1>10
<1>22. ASSUME ~exact, NEW a \in A, NEW b \in A
       PROVE  z.occurrences[a][b] = Cardinality(Common(z, D, nulls, a, b))
  <2>1. s.occurrences[a][b] = Cardinality(Common(s, D, nulls, a, b))
    BY <1>22 DEF SpiderInv, Common
  <2>2. \A c \in A : Behind(s, A, D, nulls, c)
    BY <1>9, <1>22
  <2>3. \A c \in ids : N(c) = M(c) \cup {v}
    BY <1>5, <1>22 DEF Early
  <2>4. CASE a \in ids /\ b \in ids
    <3>1. Common(z, D, nulls, a, b) = Common(s, D, nulls, a, b) \cup {v} /\ v \notin Common(s, D, nulls, a, b)
      BY <1>3, <1>11, <2>3, <2>4 DEF Common, M, N
    <3>2. IsFiniteSet(Common(s, D, nulls, a, b))
      <4>1. Common(s, D, nulls, a, b) \subseteq D[a]
        BY DEF Common, Met
      <4> QED BY <4>1, FS_Subset DEF AreDomains
    <3>3. Cardinality(Common(z, D, nulls, a, b)) = Cardinality(Common(s, D, nulls, a, b)) + 1
      BY <3>1, <3>2, FS_AddElement
    <3> QED BY <1>7, <2>1, <2>4, <3>3
  <2>5. CASE ~(a \in ids /\ b \in ids)
    <3>1. a # b => v \in Unequal(nulls) \/ ((a \notin ids => v \notin M(a)) /\ (b \notin ids => v \notin M(b)))
      BY <1>14, <2>2
    <3>2. Common(z, D, nulls, a, b) = Common(s, D, nulls, a, b)
      <4>1. CASE a = b
        BY <1>2, <2>5, <4>1 DEF Common, M, N
      <4>2. CASE a # b
        BY <1>2, <2>3, <2>5, <3>1, <4>2 DEF Common, M, N
      <4> QED BY <4>1, <4>2
    <3> QED BY <1>7, <2>1, <2>5, <3>2
  <2> QED BY <2>4, <2>5
<1>23. ~exact => \A a, b \in A : z.occurrences[a][b]
         = Cardinality({w \in Met(z, D, a) \cap Met(z, D, b) : a = b \/ w \notin Unequal(nulls)})
  BY <1>22 DEF Common
<1>24. \A a, b \in A : a # b => (b \in z.refs[a] <=> Included(Met(z, D, a), D[b], nulls))
  BY <1>19 DEF N
<1> QED BY <1>1, <1>15, <1>17, <1>20, <1>21, <1>23, <1>24, Zenon DEF SpiderInv

(* And passes a pair.                                                      *)
LEMMA SpiderProgresses ==
  ASSUME NEW A, NEW D, AreDomains(A, D), NEW nulls \in BOOLEAN, NEW exact \in BOOLEAN, NEW s,
         SpiderInv(s, A, D, nulls, exact), NEW ids, NEW t, NEW v, IsGroup(s, ids, t, v, nulls),
         NEW z, z = AfterGroup(s, ids, exact)
  PROVE  Left(z) \subseteq Left(s) \ {<<t, v>>} /\ <<t, v>> \in Left(s)
<1>0. GroupStep(s, z, A, D, ids, v, exact)
  BY GroupMoves
<1>1. ids \subseteq A /\ ids \subseteq s.queue /\ z.queue \subseteq s.queue /\ s.queue \subseteq A /\ t \in ids
  BY <1>0 DEF GroupStep, IsGroup, SpiderInv, SpiderStates
<1>2. \A a \in A \ ids : z.rest[a] = s.rest[a]
  BY <1>0 DEF GroupStep
<1>3. \A a \in ids : v \in s.rest[a] /\ (a \in z.queue => z.rest[a] = s.rest[a] \ {v})
  BY <1>0 DEF GroupStep
<1>4. \A a \in z.queue : z.rest[a] \subseteq s.rest[a] /\ (a = t => v \notin z.rest[a])
  BY <1>1, <1>2, <1>3
<1>5. <<t, v>> \in Left(s)
  BY <1>1, <1>3 DEF Left
<1>6. ASSUME NEW p \in Left(z) PROVE p \in Left(s) \ {<<t, v>>}
  <2>1. PICK a \in z.queue : p \in {a} \X z.rest[a]
    BY <1>6 DEF Left
  <2>2. p = <<a, p[2]>> /\ p[2] \in z.rest[a]
    BY <2>1
  <2>3. p \in {a} \X s.rest[a] /\ a \in s.queue
    BY <1>1, <1>4, <2>2
  <2>4. p # <<t, v>>
    BY <1>4, <2>2
  <2> QED BY <2>3, <2>4 DEF Left
<1> QED BY <1>5, <1>6

(* A step repeated for every element of a finite set.                      *)
Repeats(F, S, base, g) ==
  F = [T \in SUBSET S |-> IF T = {} THEN base ELSE g[F[T \ {CHOOSE x \in T : TRUE}]]]

(* A step repeated for every element of a finite set takes some value.     *)
LEMMA RepetitionWorks ==
  ASSUME NEW S, IsFiniteSet(S), NEW Y, NEW base, base \in Y, NEW g, g \in [Y -> Y]
  PROVE  \E F \in [SUBSET S -> Y] : Repeats(F, S, base, g)
<1> DEFINE D == SUBSET S
           next == [T \in D |-> T \ {CHOOSE x \in T : TRUE}]
           start == [T \in D |-> base]
           step == [p \in D \X Y |-> g[p[2]]]
           rank == [T \in D |-> Cardinality(T)]
           stop == {{}}
<1>1. IsFiniteSet(D)
  BY FS_SUBSET
<1>2. \A T \in D : IsFiniteSet(T) /\ rank[T] \in Nat
  BY FS_Subset, FS_CardinalityType
<1>3. \A T \in D : T \in stop => start[T] \in Y
  OBVIOUS
<1>4. ASSUME NEW T \in D, T \notin stop
      PROVE  next[T] \in D /\ rank[next[T]] < rank[T] /\ \A y \in Y : step[<<T, y>>] \in Y
  <2>1. PICK x : x = (CHOOSE y \in T : TRUE) /\ x \in T
    BY <1>4
  <2>2. next[T] = T \ {x} /\ next[T] \in D
    BY <2>1
  <2>3. Cardinality(T \ {x}) = Cardinality(T) - 1 /\ Cardinality(T) \in Nat
    BY <1>2, <2>1, FS_RemoveElement, FS_CardinalityType
  <2>4. \A y \in Y : step[<<T, y>>] \in Y
    OBVIOUS
  <2>5. rank[next[T]] = Cardinality(T \ {x}) /\ rank[T] = Cardinality(T)
    BY <2>2
  <2>6. rank[next[T]] < rank[T]
    <3> HIDE DEF rank, next
    <3> QED BY <2>3, <2>5
  <2> QED BY <2>2, <2>4, <2>6
<1>5. GoesDown(D, Y, stop, start, next, step, rank)
  <2> HIDE DEF D, next, start, step, rank, stop
  <2> QED BY <1>2, <1>3, <1>4 DEF GoesDown
<1>6. PICK F \in [D -> Y] : Solves(F, D, stop, start, next, step)
  <2> HIDE DEF D, next, start, step, rank, stop
  <2> QED BY <1>1, <1>5, RecursionWorks
<1>7. ASSUME NEW T \in SUBSET S PROVE F[T] = IF T = {} THEN base ELSE g[F[T \ {CHOOSE x \in T : TRUE}]]
  <2>1. F[T] = IF T \in stop THEN start[T] ELSE step[<<T, F[next[T]]>>]
    BY <1>6 DEF Solves
  <2>2. next[T] \in D /\ F[next[T]] \in Y
    BY <1>6
  <2> QED BY <2>1, <2>2
<1>8. Repeats(F, S, base, g)
  BY <1>6, <1>7 DEF Repeats
<1> QED BY <1>6, <1>8

(* A fold that does so takes that value: nothing else satisfies its        *)
(* recursion.                                                              *)
LEMMA RepetitionIsUnique ==
  ASSUME NEW S, IsFiniteSet(S), NEW F, NEW G,
         \A T \in SUBSET S : (\A x \in T : F[T \ {x}] = G[T \ {x}]) => F[T] = G[T]
  PROVE  F[S] = G[S]
<1> DEFINE P == {T \in SUBSET S : F[T] = G[T]}
<1>1. \A T \in SUBSET S : (\A x \in T : T \ {x} \in P) => T \in P
  OBVIOUS
<1>2. \A T \in SUBSET S : T \in P
  <2> HIDE DEF P
  <2> QED BY <1>1, BySubsets
<1> QED BY <1>2

-----------------------------------------------------------------------------
(* Spider passes all pairs.                                                *)
SpiderSet(A, D, nulls, exact) == {s \in SpiderStates(A) : SpiderInv(s, A, D, nulls, exact)}

(* NextGroup keeps the invariant, passes a value of an attribute while the *)
(* queue is not empty, and then stays.                                     *)
LEMMA NextGroupPasses ==
  ASSUME NEW A, NEW D, AreDomains(A, D), NEW nulls \in BOOLEAN, NEW exact \in BOOLEAN, NEW s,
         SpiderInv(s, A, D, nulls, exact)
  PROVE  /\ SpiderInv(NextGroup(s, nulls, exact), A, D, nulls, exact)
         /\ s.queue # {} => \E p \in Left(s) : Left(NextGroup(s, nulls, exact)) \subseteq Left(s) \ {p}
         /\ s.queue = {} => NextGroup(s, nulls, exact) = s
<1>1. CASE s.queue = {}
  BY <1>1 DEF NextGroup
<1>2. CASE s.queue # {}
  <2>1. PICK t, v : IsGroup(s, Group(s, Top(s), nulls), t, v, nulls)
    BY <1>2, GroupIs
  <2>2. NextGroup(s, nulls, exact) = AfterGroup(s, Group(s, Top(s), nulls), exact)
    BY <1>2 DEF NextGroup
  <2>3. SpiderInv(NextGroup(s, nulls, exact), A, D, nulls, exact)
    BY <2>1, <2>2, SpiderStepPasses
  <2>4. Left(NextGroup(s, nulls, exact)) \subseteq Left(s) \ {<<t, v>>} /\ <<t, v>> \in Left(s)
    BY <2>1, <2>2, SpiderProgresses
  <2> QED BY <1>2, <2>3, <2>4
<1> QED BY <1>1, <1>2

IsPassing(F, S, base, nulls, exact) ==
  F = [T \in SUBSET S |-> IF T = {} THEN base ELSE NextGroup(F[T \ {CHOOSE x \in T : TRUE}], nulls, exact)]

(* The fold that ProcessedAttributes is.                                   *)
LEMMA ProcessedIs ==
  ASSUME NEW ts, NEW nulls, NEW exact,
         NEW F, IsPassing(F, UNION {{a} \X Domain(ts, a) : a \in Attributes(ts)},
                          InitAttributes(ts, Attributes(ts)), nulls, exact)
  PROVE  \E G : /\ IsPassing(G, UNION {{a} \X Domain(ts, a) : a \in Attributes(ts)},
                             InitAttributes(ts, Attributes(ts)), nulls, exact)
                /\ ProcessedAttributes(ts, nulls, exact)
                     = G[UNION {{a} \X Domain(ts, a) : a \in Attributes(ts)}]
<1> DEFINE S == UNION {{a} \X Domain(ts, a) : a \in Attributes(ts)}
           i == CHOOSE G : IsPassing(G, S, InitAttributes(ts, Attributes(ts)), nulls, exact)
<1>1. ProcessedAttributes(ts, nulls, exact) = i[S]
  BY Zenon DEF ProcessedAttributes, FoldSet, MapThenFoldSet, IsPassing
<1>2. IsPassing(i, S, InitAttributes(ts, Attributes(ts)), nulls, exact)
  BY Zenon
<1> QED BY <1>1, <1>2

ValuePairs(ts) == UNION {{a} \X Domain(ts, a) : a \in Attributes(ts)}
DomainsOf(ts) == [a \in Attributes(ts) |-> Domain(ts, a)]

(* The domains of tables are as Spider needs them.                         *)
LEMMA TablesHaveDomains ==
  ASSUME NEW ts, AreTables(ts)
  PROVE  AreDomains(Attributes(ts), DomainsOf(ts)) /\ IsFiniteSet(ValuePairs(ts))
<1>1. /\ DOMAIN ts = 1 .. Len(ts) /\ Len(ts) \in Nat
      /\ \A i \in DOMAIN ts : /\ ts[i] \in Seq(Seq(Nat)) /\ Len(ts[i]) \in Nat \ {0} /\ DOMAIN ts[i] = 1 .. Len(ts[i])
                              /\ \A r \in DOMAIN ts[i] : /\ ts[i][r] \in Seq(Nat) /\ Len(ts[i][r]) = Len(ts[i][1])
                                                         /\ Len(ts[i][r]) \in Nat /\ DOMAIN ts[i][r] = 1 .. Len(ts[i][r])
                                                         /\ DOMAIN ts[i][r] = DOMAIN ts[i][1]
  <2>1. ts \in Seq(Seq(Seq(Nat))) /\ ts # <<>>
    BY DEF AreTables
  <2>2. DOMAIN ts = 1 .. Len(ts) /\ Len(ts) \in Nat
    BY <2>1
  <2>3. ASSUME NEW i \in DOMAIN ts
        PROVE  /\ ts[i] \in Seq(Seq(Nat)) /\ Len(ts[i]) \in Nat \ {0} /\ DOMAIN ts[i] = 1 .. Len(ts[i])
               /\ \A r \in DOMAIN ts[i] : Len(ts[i][r]) = Len(ts[i][1])
    BY <2>1 DEF AreTables
  <2>4. ASSUME NEW i \in DOMAIN ts, NEW r \in DOMAIN ts[i]
        PROVE  /\ ts[i][r] \in Seq(Nat) /\ Len(ts[i][r]) \in Nat /\ DOMAIN ts[i][r] = 1 .. Len(ts[i][r])
               /\ ts[i][1] \in Seq(Nat) /\ DOMAIN ts[i][1] = 1 .. Len(ts[i][1])
    <3>1. ts[i] \in Seq(Seq(Nat)) /\ 1 \in DOMAIN ts[i]
      BY <2>3
    <3>2. ts[i][r] \in Seq(Nat) /\ ts[i][1] \in Seq(Nat)
      BY <3>1
    <3> QED BY <3>2
  <2>5. \A i \in DOMAIN ts : \A r \in DOMAIN ts[i] : DOMAIN ts[i][r] = DOMAIN ts[i][1]
    BY <2>3, <2>4
  <2> QED BY <2>2, <2>3, <2>4, <2>5
<1> DEFINE Cols(i) == {<<i, c>> : c \in DOMAIN ts[i][1]}
<1>2. ASSUME NEW a \in ColumnsOf(ts)
      PROVE  a[1] \in DOMAIN ts /\ a[2] \in DOMAIN ts[a[1]][1] /\ a = <<a[1], a[2]>>
  BY DEF ColumnsOf
<1>3. \A a \in ColumnsOf(ts) : a \in Nat \X Nat
  <2> SUFFICES ASSUME NEW a \in ColumnsOf(ts) PROVE a \in Nat \X Nat
    OBVIOUS
  <2>1. a[1] \in Nat
    BY <1>1, <1>2
  <2>2. a[2] \in Nat
    <3>1. 1 \in DOMAIN ts[a[1]]
      BY <1>1, <1>2
    <3> QED BY <1>1, <1>2, <3>1
  <2> QED BY <1>2, <2>1, <2>2
<1>4. IsFiniteSet(ColumnsOf(ts))
  <2>1. ASSUME NEW i \in DOMAIN ts PROVE IsFiniteSet(Cols(i))
    <3>1. 1 \in DOMAIN ts[i]
      BY <1>1
    <3>2. DOMAIN ts[i][1] = 1 .. Len(ts[i][1]) /\ Len(ts[i][1]) \in Nat
      BY <1>1, <3>1
    <3>a. \A n \in Nat : IsFiniteSet(1 .. n)
      BY FS_Interval
    <3>3. IsFiniteSet(DOMAIN ts[i][1])
      BY <3>2, <3>a
    <3> DEFINE f == [c \in DOMAIN ts[i][1] |-> <<i, c>>]
    <3>4. IsFiniteSet({f[c] : c \in DOMAIN ts[i][1]})
      <4> HIDE DEF f
      <4> QED BY <3>3, ImageIsFinite
    <3> QED BY <3>4
  <2>2. IsFiniteSet(DOMAIN ts)
    BY <1>1, FS_Interval
  <2> DEFINE g == [i \in DOMAIN ts |-> Cols(i)]
  <2>3. IsFiniteSet({g[i] : i \in DOMAIN ts})
    <3> HIDE DEF g
    <3> QED BY <2>2, ImageIsFinite
  <2>4. IsFiniteSet({Cols(i) : i \in DOMAIN ts})
    BY <2>3
  <2>5. \A T \in {Cols(i) : i \in DOMAIN ts} : IsFiniteSet(T)
    BY <2>1
  <2>6. IsFiniteSet(UNION {Cols(i) : i \in DOMAIN ts})
    <3> HIDE DEF Cols
    <3> QED BY <2>4, <2>5, FS_UNION
  <2> QED BY <2>6 DEF ColumnsOf
<1>5. ASSUME NEW a \in ColumnsOf(ts)
      PROVE  Domain(ts, a) \subseteq Nat /\ Domain(ts, a) # {} /\ IsFiniteSet(Domain(ts, a))
  <2> DEFINE i == a[1]
             c == a[2]
             f == [r \in DOMAIN ts[i] |-> ts[i][r][c]]
  <2>0. i \in DOMAIN ts /\ c \in DOMAIN ts[i][1]
    BY <1>2
  <2>1. \A r \in DOMAIN ts[i] : ts[i][r][c] \in Nat
    <3> SUFFICES ASSUME NEW r \in DOMAIN ts[i] PROVE ts[i][r][c] \in Nat
      OBVIOUS
    <3>1. ts[i][r] \in Seq(Nat) /\ DOMAIN ts[i][r] = DOMAIN ts[i][1]
      BY <1>1, <2>0
    <3> QED BY <2>0, <3>1
  <2>2. 1 \in DOMAIN ts[i] /\ IsFiniteSet(DOMAIN ts[i])
    <3>1. \A n \in Nat : IsFiniteSet(1 .. n)
      BY FS_Interval
    <3> QED BY <1>1, <2>0, <3>1
  <2>3. Domain(ts, a) = {f[r] : r \in DOMAIN ts[i]}
    BY DEF Domain
  <2>4. IsFiniteSet(Domain(ts, a))
    <3> HIDE DEF f
    <3> QED BY <2>2, <2>3, ImageIsFinite
  <2> QED BY <2>1, <2>2, <2>3, <2>4
<1>6. Attributes(ts) \subseteq ColumnsOf(ts) /\ IsFiniteSet(Attributes(ts))
  BY <1>4, FS_Subset DEF Attributes
<1>7. AreDomains(Attributes(ts), DomainsOf(ts))
  <2>1. \A a \in Attributes(ts) : DomainsOf(ts)[a] = Domain(ts, a)
    BY DEF DomainsOf
  <2> QED BY <1>3, <1>5, <1>6, <2>1 DEF AreDomains
<1>8. IsFiniteSet(ValuePairs(ts))
  <2> DEFINE g == [a \in Attributes(ts) |-> {a} \X Domain(ts, a)]
  <2>1. \A a \in Attributes(ts) : IsFiniteSet(g[a])
    <3> SUFFICES ASSUME NEW a \in Attributes(ts) PROVE IsFiniteSet({a} \X Domain(ts, a))
      OBVIOUS
    <3>1. IsFiniteSet({a}) /\ IsFiniteSet(Domain(ts, a))
      BY <1>5, <1>6, FS_Singleton
    <3> QED BY <3>1, FS_Product
  <2>2. ValuePairs(ts) = UNION {g[a] : a \in Attributes(ts)}
    BY DEF ValuePairs
  <2> HIDE DEF g
  <2>3. IsFiniteSet({g[a] : a \in Attributes(ts)})
    BY <1>6, ImageIsFinite
  <2> QED BY <2>1, <2>2, <2>3, FS_UNION
<1> QED BY <1>7, <1>8

(* When the queue is empty, all has been met.                              *)
LEMMA AllIsMet ==
  ASSUME NEW A, NEW D, AreDomains(A, D), NEW nulls \in BOOLEAN, NEW exact \in BOOLEAN, NEW s,
         SpiderInv(s, A, D, nulls, exact), s.queue = {}
  PROVE  /\ DOMAIN s.refs = A
         /\ \A a, b \in A : a # b => (b \in s.refs[a] <=> D[a] \subseteq D[b] \ Unequal(nulls))
         /\ ~exact => \A a, b \in A :
              s.occurrences[a][b] = Cardinality({v \in D[a] \cap D[b] : a = b \/ v \notin Unequal(nulls)})
<1>1. \A a \in A : Met(s, D, a) = D[a]
  BY DEF Met
<1>2. DOMAIN s.refs = A
  BY DEF SpiderInv, SpiderStates
<1>3. \A a, b \in A : a # b => (b \in s.refs[a] <=> D[a] \subseteq D[b] \ Unequal(nulls))
  BY <1>1 DEF SpiderInv, Included
<1>4. ASSUME ~exact, NEW a \in A, NEW b \in A
      PROVE  s.occurrences[a][b] = Cardinality({v \in D[a] \cap D[b] : a = b \/ v \notin Unequal(nulls)})
  <2>1. s.occurrences[a][b] = Cardinality({v \in Met(s, D, a) \cap Met(s, D, b) : a = b \/ v \notin Unequal(nulls)})
    BY <1>4 DEF SpiderInv
  <2> QED BY <1>1, <2>1
<1> QED BY <1>2, <1>3, <1>4

(* Spider passes all pairs.                                                *)
LEMMA SpiderEnds ==
  ASSUME NEW ts, AreTables(ts), NEW nulls \in BOOLEAN, NEW exact \in BOOLEAN
  PROVE  LET s == ProcessedAttributes(ts, nulls, exact)
         IN SpiderInv(s, Attributes(ts), DomainsOf(ts), nulls, exact) /\ s.queue = {}
<1> DEFINE A == Attributes(ts)
           D == DomainsOf(ts)
           S == UNION {{a} \X Domain(ts, a) : a \in Attributes(ts)}
           base == InitAttributes(ts, Attributes(ts))
           Y == SpiderSet(A, D, nulls, exact)
           g == [y \in Y |-> NextGroup(y, nulls, exact)]
<1>1. AreDomains(A, D) /\ IsFiniteSet(S) /\ S = ValuePairs(ts)
  BY TablesHaveDomains DEF ValuePairs
<1>2. base = [queue |-> A, rest |-> [a \in A |-> D[a]],
              refs |-> [a \in A |-> A \ {a}], deps |-> [a \in A |-> A \ {a}],
              occurrences |-> [a \in A |-> [b \in A |-> 0]]]
  BY DEF InitAttributes, DomainsOf
<1>3. SpiderInv(base, A, D, nulls, exact) /\ base \in Y
  <2>1. SpiderInv(base, A, D, nulls, exact)
    <3> HIDE DEF base, A, D
    <3> QED BY <1>1, <1>2, SpiderStarts
  <2> QED BY <2>1 DEF SpiderSet, SpiderInv
<1>4. \A y \in Y : SpiderInv(y, A, D, nulls, exact)
  BY DEF SpiderSet
<1>5. g \in [Y -> Y]
  <2>1. ASSUME NEW y \in Y PROVE NextGroup(y, nulls, exact) \in Y
    <3>1. SpiderInv(NextGroup(y, nulls, exact), A, D, nulls, exact)
      <4> HIDE DEF A, D, Y
      <4> QED BY <1>1, <1>4, <2>1, NextGroupPasses
    <3> QED BY <3>1 DEF SpiderSet, SpiderInv
  <2> HIDE DEF Y
  <2> QED BY <2>1
<1>6. PICK F \in [SUBSET S -> Y] : Repeats(F, S, base, g)
  <2> HIDE DEF S, Y, g, base
  <2> QED BY <1>1, <1>3, <1>5, RepetitionWorks
<1>7. IsPassing(F, S, base, nulls, exact)
  <2>1. \A T \in SUBSET S : T \ {CHOOSE x \in T : TRUE} \in SUBSET S
    OBVIOUS
  <2>2. \A T \in SUBSET S : F[T] = IF T = {} THEN base ELSE g[F[T \ {CHOOSE x \in T : TRUE}]]
    <3> HIDE DEF g, base
    <3> QED BY <1>6 DEF Repeats
  <2>3. \A T \in SUBSET S : g[F[T \ {CHOOSE x \in T : TRUE}]] = NextGroup(F[T \ {CHOOSE x \in T : TRUE}], nulls, exact)
    <3> HIDE DEF Y, base, S
    <3> QED BY <1>6, <2>1
  <2>4. F = [T \in SUBSET S |-> F[T]]
    <3> HIDE DEF Y, S
    <3> QED BY <1>6
  <2> HIDE DEF g, base, S, Y
  <2> QED BY <2>2, <2>3, <2>4 DEF IsPassing
<1>8. PICK G : IsPassing(G, S, base, nulls, exact) /\ ProcessedAttributes(ts, nulls, exact) = G[S]
  <2> HIDE DEF A, D, Y, g
  <2>1. IsPassing(F, UNION {{a} \X Domain(ts, a) : a \in Attributes(ts)},
                  InitAttributes(ts, Attributes(ts)), nulls, exact)
    BY <1>7
  <2> QED BY <2>1, ProcessedIs
<1> HIDE DEF A, D, S, base, Y, g
<1>9. G[S] = F[S]
  <2>2. G[{}] = F[{}]
    BY <1>7, <1>8 DEF IsPassing
  <2>3. \A T \in SUBSET S : T # {} => /\ G[T] = NextGroup(G[T \ {CHOOSE x \in T : TRUE}], nulls, exact)
                                      /\ F[T] = NextGroup(F[T \ {CHOOSE x \in T : TRUE}], nulls, exact)
    BY <1>7, <1>8 DEF IsPassing
  <2>4. ASSUME NEW T \in SUBSET S, \A x \in T : G[T \ {x}] = F[T \ {x}] PROVE G[T] = F[T]
    <3>1. CASE T = {}
      BY <2>2, <3>1
    <3>2. CASE T # {}
      <4>1. PICK x : x = (CHOOSE y \in T : TRUE) /\ x \in T
        BY <3>2
      <4> QED BY <2>3, <2>4, <3>2, <4>1
    <3> QED BY <3>1, <3>2
  <2> QED BY <1>1, <2>4, RepetitionIsUnique
(* Passing T leaves at most what T has not.                                *)
<1> DEFINE P == {T \in SUBSET S : F[T].queue = {} \/ Cardinality(Left(F[T])) + Cardinality(T) <= Cardinality(S)}
<1>10. \A T \in SUBSET S : IsFiniteSet(T) /\ Cardinality(T) \in Nat
  BY <1>1, FS_Subset, FS_CardinalityType
<1>11. \A T \in SUBSET S : SpiderInv(F[T], A, D, nulls, exact)
  BY <1>4, <1>6
<1>12. ASSUME NEW s, SpiderInv(s, A, D, nulls, exact) PROVE Left(s) \subseteq S /\ (Left(s) = {} => s.queue = {})
  <2>1. s.queue \subseteq A /\ \A a \in s.queue : s.rest[a] \subseteq D[a] /\ s.rest[a] # {}
    BY <1>12 DEF SpiderInv, SpiderStates
  <2>2. \A a \in A : D[a] = Domain(ts, a)
    BY DEF A, D, DomainsOf
  <2>3. Left(s) \subseteq S
    BY <2>1, <2>2 DEF Left, S, A
  <2>4. ASSUME NEW a \in s.queue PROVE \E p : p \in Left(s)
    <3>1. PICK w : w \in s.rest[a]
      BY <2>1
    <3>2. <<a, w>> \in {a} \X s.rest[a]
      BY <3>1
    <3> QED BY <3>2 DEF Left
  <2> QED BY <2>3, <2>4
<1>13. ASSUME NEW T \in SUBSET S, \A x \in T : T \ {x} \in P PROVE T \in P
  <2>1. CASE T = {}
    <3>1. F[T] = base
      BY <1>7, <2>1 DEF IsPassing
    <3>2. Left(F[T]) \subseteq S
      BY <1>11, <1>12
    <3>3. Cardinality(Left(F[T])) <= Cardinality(S)
      BY <1>1, <3>2, FS_Subset
    <3>4. Cardinality(T) = 0 /\ Cardinality(Left(F[T])) \in Nat
      BY <1>10, <2>1, <3>2, FS_EmptySet
    <3> QED BY <3>3, <3>4
  <2>2. CASE T # {}
    <3>1. PICK x : x = (CHOOSE y \in T : TRUE) /\ x \in T
      BY <2>2
    <3>2. F[T] = NextGroup(F[T \ {x}], nulls, exact)
      BY <1>7, <2>2, <3>1 DEF IsPassing
    <3>3. T \ {x} \in P /\ T \ {x} \in SUBSET S
      BY <1>13, <3>1
    <3>4. SpiderInv(F[T \ {x}], A, D, nulls, exact)
      BY <1>11, <3>3
    <3>5. CASE F[T \ {x}].queue = {}
      <4>1. F[T] = F[T \ {x}]
        BY <3>2, <3>5 DEF NextGroup
      <4> QED BY <3>5, <4>1
    <3>6. CASE F[T \ {x}].queue # {}
      <4>1. PICK p \in Left(F[T \ {x}]) : Left(F[T]) \subseteq Left(F[T \ {x}]) \ {p}
        <5> DEFINE u == F[T \ {x}]
        <5>1. SpiderInv(u, A, D, nulls, exact) /\ u.queue # {} /\ F[T] = NextGroup(u, nulls, exact)
          BY <3>2, <3>4, <3>6
        <5> HIDE DEF u
        <5>2. \E p \in Left(u) : Left(F[T]) \subseteq Left(u) \ {p}
          BY <1>1, <5>1, NextGroupPasses
        <5> QED BY <5>2 DEF u
      <4>2. Left(F[T \ {x}]) \subseteq S /\ Left(F[T \ {x}]) \in SUBSET S /\ IsFiniteSet(Left(F[T \ {x}]))
        BY <1>10, <1>12, <3>4
      <4>3. Cardinality(Left(F[T \ {x}]) \ {p}) = Cardinality(Left(F[T \ {x}])) - 1 /\ IsFiniteSet(Left(F[T \ {x}]) \ {p})
        BY <4>1, <4>2, FS_RemoveElement
      <4>4. Cardinality(Left(F[T])) <= Cardinality(Left(F[T \ {x}]) \ {p})
        BY <4>1, <4>3, FS_Subset
      <4>5. Cardinality(T \ {x}) = Cardinality(T) - 1
        BY <1>10, <3>1, FS_RemoveElement
      <4>6. Cardinality(Left(F[T \ {x}])) + Cardinality(T \ {x}) <= Cardinality(S)
        BY <3>3, <3>6
      <4>7. /\ Cardinality(Left(F[T])) \in Nat /\ Cardinality(Left(F[T \ {x}])) \in Nat
            /\ Cardinality(T) \in Nat /\ Cardinality(S) \in Nat
        <5>1. Left(F[T]) \in SUBSET S
          BY <4>1, <4>2
        <5> QED BY <1>10, <4>2, <5>1
      <4> QED BY <4>3, <4>4, <4>5, <4>6, <4>7
    <3> QED BY <3>5, <3>6
  <2> QED BY <2>1, <2>2
<1>14. S \in P
  <2>1. \A T \in SUBSET S : T \in P
    <3> HIDE DEF P
    <3> QED BY <1>1, <1>13, BySubsets
  <2> QED BY <2>1
<1>15. F[S].queue = {}
  <2>1. CASE Cardinality(Left(F[S])) + Cardinality(S) <= Cardinality(S)
    <3>1. Left(F[S]) \in SUBSET S
      BY <1>11, <1>12
    <3>2. Cardinality(Left(F[S])) = 0
      BY <1>10, <2>1, <3>1
    <3>3. Left(F[S]) = {}
      BY <1>10, <3>1, <3>2, FS_EmptySet
    <3> QED BY <1>11, <1>12, <3>3
  <2> QED BY <1>14, <2>1
<1> QED BY <1>8, <1>9, <1>11, <1>15 DEF A, D

(* Spider finds exactly the unary inclusion dependencies, of any tables of *)
(* any size, within any error, nulls equal or not (spider.cpp).            *)
THEOREM SpiderFinds ==
  ASSUME NEW ts, AreTables(ts), NEW nulls \in BOOLEAN, NEW e1 \in Nat, NEW e2 \in Nat \ {0}
  PROVE  Spider(ts, nulls, <<e1, e2>>) = UnaryInds(ts, nulls, <<e1, e2>>)
<1> DEFINE A == Attributes(ts)
           D == DomainsOf(ts)
           exact == e1 = 0
           max_error == <<e1, e2>>
           s == ProcessedAttributes(ts, nulls, exact)
           U == Unequal(nulls)
<1>1. AreDomains(A, D) /\ exact \in BOOLEAN /\ max_error[1] = e1 /\ max_error[2] = e2
  BY TablesHaveDomains
<1>2. SpiderInv(s, A, D, nulls, exact) /\ s.queue = {}
  <2> HIDE DEF exact, max_error
  <2> QED BY <1>1, SpiderEnds
<1>3. \A a \in A : D[a] = Domain(ts, a) /\ IsFiniteSet(D[a])
  BY <1>1 DEF DomainsOf, AreDomains
<1>4. Spider(ts, nulls, max_error) = MinedBy(s, max_error)
  BY <1>1 DEF Spider
<1> HIDE DEF A, D, s, exact
<1>5. /\ DOMAIN s.refs = A
      /\ \A a, b \in A : a # b => (b \in s.refs[a] <=> D[a] \subseteq D[b] \ U)
      /\ ~exact => \A a, b \in A :
           s.occurrences[a][b] = Cardinality({v \in D[a] \cap D[b] : a = b \/ v \notin U})
  BY <1>1, <1>2, AllIsMet
<1> DEFINE Mined(d) == IF max_error[1] = 0 THEN d[2] \in s.refs[d[1]]
                       ELSE Within(ErrorOf(s.occurrences, d[1], d[2]), max_error)
           IsWithin(d) == Within(<<Cardinality(D[d[1]] \ (D[d[2]] \ U)), Cardinality(D[d[1]])>>, max_error)
<1>6. ASSUME NEW d \in A \X A, d[1] # d[2] PROVE Mined(d) <=> IsWithin(d)
  <2>1. PICK a \in A, b \in A : d[1] = a /\ d[2] = b /\ a # b
    BY <1>6
  <2>2. IsFiniteSet(D[a] \ (D[b] \ U)) /\ IsFiniteSet(D[a])
    BY <1>3, FS_Subset
  <2>3. Cardinality(D[a] \ (D[b] \ U)) \in Nat /\ Cardinality(D[a]) \in Nat
    BY <2>2, FS_CardinalityType
  <2>4. CASE e1 = 0
    <3>1. IsWithin(d) <=> Cardinality(D[a] \ (D[b] \ U)) * e2 <= 0 * Cardinality(D[a])
      BY <1>1, <2>1, <2>4 DEF Within
    <3>2. IsWithin(d) <=> Cardinality(D[a] \ (D[b] \ U)) = 0
      <4> DEFINE n == Cardinality(D[a] \ (D[b] \ U))
                 m == Cardinality(D[a])
      <4>1. n \in Nat /\ m \in Nat /\ (IsWithin(d) <=> n * e2 <= 0 * m)
        BY <2>3, <3>1
      <4> HIDE DEF n, m, IsWithin
      <4>2. n * e2 <= 0 <=> n = 0
        <5>1. n = 0 \/ n >= 1
          BY <4>1
        <5>2. n >= 1 => n * e2 >= 1
          BY <4>1
        <5>3. n * e2 \in Nat
          BY <4>1
        <5> QED BY <4>1, <5>1, <5>2, <5>3
      <4>3. 0 * m = 0
        BY <4>1
      <4> QED BY <4>1, <4>2, <4>3 DEF n
    <3>3. Cardinality(D[a] \ (D[b] \ U)) = 0 <=> D[a] \ (D[b] \ U) = {}
      BY <2>2, FS_EmptySet
    <3>4. Mined(d) <=> b \in s.refs[a]
      BY <1>1, <2>1, <2>4
    <3>5. b \in s.refs[a] <=> D[a] \subseteq D[b] \ U
      BY <1>5, <2>1
    <3> QED BY <3>2, <3>3, <3>4, <3>5
  <2>5. CASE e1 # 0
    <3>1. ~exact
      BY <2>5 DEF exact
    <3>2. s.occurrences[a][a] = Cardinality(D[a])
      <4>1. {v \in D[a] \cap D[a] : a = a \/ v \notin U} = D[a]
        OBVIOUS
      <4> QED BY <1>5, <3>1, <4>1
    <3>3. s.occurrences[a][b] = Cardinality({v \in D[a] \cap D[b] : a = b \/ v \notin U})
      BY <1>5, <2>1, <3>1
    <3>4. Cardinality(D[a]) = Cardinality(D[a] \ (D[b] \ U)) + s.occurrences[a][b] /\ s.occurrences[a][b] \in Nat
      <4> DEFINE V == {v \in D[a] \cap D[b] : a = b \/ v \notin U}
                 W == D[a] \ (D[b] \ U)
      <4>1. V \cap W = {} /\ V \cup W = D[a]
        BY <2>1
      <4>2. IsFiniteSet(V) /\ IsFiniteSet(W)
        BY <2>2, <4>1, FS_Subset
      <4>3. Cardinality(V) \in Nat /\ Cardinality(W) \in Nat
        BY <4>2, FS_CardinalityType
      <4>4. Cardinality(V \cup W) = Cardinality(V) + Cardinality(W)
        <5> HIDE DEF V, W
        <5> QED BY <4>1, <4>2, UnionIsSum
      <4>5. Cardinality(D[a]) = Cardinality(V) + Cardinality(W)
        BY <4>1, <4>4
      <4>6. s.occurrences[a][b] = Cardinality(V)
        BY <3>3
      <4> HIDE DEF V
      <4> QED BY <4>3, <4>5, <4>6
    <3>5. Mined(d) <=> Within(ErrorOf(s.occurrences, a, b), max_error)
      BY <1>1, <2>1, <2>5
    <3>6. IsWithin(d) <=> Within(<<Cardinality(D[a] \ (D[b] \ U)), Cardinality(D[a])>>, max_error)
      BY <2>1
    <3>7. ErrorOf(s.occurrences, a, b) = <<Cardinality(D[a] \ (D[b] \ U)), Cardinality(D[a])>>
      <4>1. Cardinality(D[a]) - s.occurrences[a][b] = Cardinality(D[a] \ (D[b] \ U))
        BY <2>3, <3>4
      <4> QED BY <3>2, <4>1 DEF ErrorOf
    <3> HIDE DEF Mined, IsWithin, max_error
    <3> QED BY <3>5, <3>6, <3>7
  <2> QED BY <2>4, <2>5
<1>7. MinedBy(s, max_error) = {d \in A \X A : d[1] # d[2] /\ Mined(d)}
  BY <1>5 DEF MinedBy
<1>8. UnaryInds(ts, nulls, max_error) = {d \in A \X A : d[1] # d[2] /\ IsWithin(d)}
  <2> HIDE DEF max_error
  <2>1. UnaryInds(ts, nulls, max_error)
          = {d \in A \X A : d[1] # d[2] /\ Within(<<Cardinality(Domain(ts, d[1]) \ (Domain(ts, d[2]) \ U)),
                                                    Cardinality(Domain(ts, d[1]))>>, max_error)}
    BY DEF UnaryInds, A, Unequal
  <2>2. \A d \in A \X A : D[d[1]] = Domain(ts, d[1]) /\ D[d[2]] = Domain(ts, d[2])
    BY <1>3
  <2> QED BY <2>1, <2>2
<1> HIDE DEF Mined, IsWithin, max_error
<1>9. MinedBy(s, max_error) = UnaryInds(ts, nulls, max_error)
  BY <1>6, <1>7, <1>8
<1> QED BY <1>4, <1>9 DEF max_error

(* So it does within the three errors that the run asks for.               *)
THEOREM SpiderIsAlwaysRight ==
  ASSUME NEW ts, AreTables(ts)
  PROVE  SpiderIsRight(ts)
<1> SUFFICES ASSUME NEW nulls \in BOOLEAN, NEW max_error \in {<<0, 1>>, <<1, 3>>, <<1, 2>>}
             PROVE  Spider(ts, nulls, max_error) = UnaryInds(ts, nulls, max_error)
  BY DEF SpiderIsRight
<1>1. PICK e1 \in Nat, e2 \in Nat \ {0} : max_error = <<e1, e2>>
  OBVIOUS
<1> QED BY <1>1, SpiderFinds

(* A sequence of sequences put together.                                   *)
IsFlattening(f, ss) ==
  f = [i \in 1 .. Len(ss) |-> IF i = 1 THEN ss[i] ELSE f[i - 1] \o ss[i]]

(* FlattenSeq is a concatenation, one sequence after the other.            *)
LEMMA FlatteningIs ==
  ASSUME NEW S, NEW ss \in Seq(Seq(S)), Len(ss) # 0
  PROVE  \E f : /\ f \in [1 .. Len(ss) -> Seq(S)]
                /\ f[1] = ss[1] /\ \A i \in 2 .. Len(ss) : f[i] = f[i - 1] \o ss[i]
                /\ FlattenSeq(ss) = f[Len(ss)]
<1> DEFINE D == 1 .. Len(ss)
           Y == Seq(S)
           stop == {1}
           start == ss
           next == [i \in D |-> i - 1]
           step == [p \in D \X Y |-> p[2] \o ss[p[1]]]
           rank == [i \in D |-> i]
<1>1. Len(ss) \in Nat /\ IsFiniteSet(D) /\ \A i \in D : ss[i] \in Seq(S)
  BY FS_Interval
<1>2. GoesDown(D, Y, stop, start, next, step, rank)
  <2>1. \A d \in D : rank[d] \in Nat
    BY <1>1
  <2>2. \A d \in D : d \in stop => start[d] \in Y
    BY <1>1
  <2>3. ASSUME NEW d \in D, d \notin stop
        PROVE  next[d] \in D /\ rank[next[d]] < rank[d] /\ \A y \in Y : step[<<d, y>>] \in Y
    <3>1. next[d] = d - 1 /\ d - 1 \in D /\ d - 1 < d
      BY <1>1, <2>3
    <3>2. ASSUME NEW y \in Y PROVE step[<<d, y>>] \in Y
      <4>1. step[<<d, y>>] = y \o ss[d]
        OBVIOUS
      <4> QED BY <1>1, <4>1
    <3> QED BY <3>1, <3>2
  <2> HIDE DEF D, Y, stop, start, next, step, rank
  <2> QED BY <2>1, <2>2, <2>3 DEF GoesDown
<1>3. PICK F \in [D -> Y] : Solves(F, D, stop, start, next, step)
  <2> HIDE DEF D, Y, stop, start, next, step, rank
  <2> QED BY <1>1, <1>2, RecursionWorks
<1>4. IsFlattening(F, ss)
  <2>1. ASSUME NEW i \in D PROVE F[i] = IF i = 1 THEN ss[i] ELSE F[i - 1] \o ss[i]
    <3>1. F[i] = IF i \in stop THEN start[i] ELSE step[<<i, F[next[i]]>>]
      BY <1>3 DEF Solves
    <3>2. CASE i # 1
      <4>1. next[i] = i - 1 /\ i - 1 \in D
        BY <1>1, <3>2
      <4>2. F[i - 1] \in Y
        BY <1>3, <4>1
      <4>3. step[<<i, F[i - 1]>>] = F[i - 1] \o ss[i]
        <5> HIDE DEF D, Y
        <5> QED BY <4>2
      <4> QED BY <3>1, <3>2, <4>1, <4>3
    <3> QED BY <3>1, <3>2
  <2> QED BY <1>3, <2>1 DEF IsFlattening
<1> DEFINE g == CHOOSE f : IsFlattening(f, ss)
<1>5. FlattenSeq(ss) = g[Len(ss)]
  BY Zenon DEF FlattenSeq, IsFlattening
<1>6. IsFlattening(g, ss)
  BY <1>4, Zenon
<1> HIDE DEF g
<1>7. g[1] = ss[1] /\ \A i \in 2 .. Len(ss) : g[i] = g[i - 1] \o ss[i]
  <2>1. \A i \in 1 .. Len(ss) : g[i] = IF i = 1 THEN ss[i] ELSE g[i - 1] \o ss[i]
    BY <1>6 DEF IsFlattening
  <2>2. 1 \in 1 .. Len(ss) /\ \A i \in 2 .. Len(ss) : i \in 1 .. Len(ss) /\ i # 1
    BY <1>1
  <2> QED BY <2>1, <2>2
<1>8. g \in [1 .. Len(ss) -> Seq(S)]
  <2> DEFINE P == {n \in Nat : n + 1 <= Len(ss) => g[n + 1] \in Seq(S)}
  <2>1. 0 \in P
    BY <1>1, <1>7
  <2>2. ASSUME NEW n \in Nat, n \in P PROVE n + 1 \in P
    <3> SUFFICES ASSUME n + 2 <= Len(ss) PROVE g[n + 2] \in Seq(S)
      OBVIOUS
    <3>1. g[n + 1] \in Seq(S) /\ ss[n + 2] \in Seq(S)
      BY <1>1, <2>2
    <3>2. n + 2 \in 2 .. Len(ss) /\ (n + 2) - 1 = n + 1
      BY <1>1
    <3>3. g[n + 2] = g[n + 1] \o ss[n + 2]
      BY <1>7, <3>2
    <3> QED BY <3>1, <3>3
  <2>3. \A n \in Nat : n \in P
    <3> HIDE DEF P
    <3> QED BY <2>1, <2>2, CountingUp
  <2>4. ASSUME NEW i \in 1 .. Len(ss) PROVE g[i] \in Seq(S)
    <3>1. i - 1 \in Nat /\ (i - 1) + 1 = i /\ i <= Len(ss)
      BY <1>1
    <3>2. i - 1 \in P
      <4> HIDE DEF P
      <4> QED BY <3>1, <2>3
    <3> QED BY <3>1, <3>2
  <2>5. g = [i \in 1 .. Len(ss) |-> g[i]]
    BY <1>6 DEF IsFlattening
  <2> HIDE DEF P
  <2> QED BY <2>4, <2>5
<1> QED BY <1>5, <1>7, <1>8

(* One element of a sequence before another.                               *)
Before(s, x, y) == \E i, j \in DOMAIN s : i < j /\ s[i] = x /\ s[j] = y

(* In a concatenation each part keeps its order, and what is in the first  *)
(* comes before what is in the second.                                     *)
LEMMA BeforeInConcat ==
  ASSUME NEW S, NEW s \in Seq(S), NEW t \in Seq(S)
  PROVE  /\ s \o t \in Seq(S) /\ ToSet(s \o t) = ToSet(s) \cup ToSet(t)
         /\ \A x, y : Before(s, x, y) => Before(s \o t, x, y)
         /\ \A x, y : Before(t, x, y) => Before(s \o t, x, y)
         /\ \A x \in ToSet(s), y \in ToSet(t) : Before(s \o t, x, y)
         /\ IsInjective(s) /\ IsInjective(t) /\ ToSet(s) \cap ToSet(t) = {} => IsInjective(s \o t)
<1> DEFINE u == s \o t
           m == Len(s)
           n == Len(t)
<1>1. m \in Nat /\ n \in Nat /\ DOMAIN s = 1 .. m /\ DOMAIN t = 1 .. n
  OBVIOUS
<1>2. /\ u \in Seq(S) /\ Len(u) = m + n /\ DOMAIN u = 1 .. m + n
      /\ \A i \in 1 .. m + n : u[i] = IF i <= m THEN s[i] ELSE t[i - m]
  <2>1. u \in Seq(S) /\ Len(u) = m + n
    BY ConcatProperties
  <2>2. \A i \in 1 .. m + n : u[i] = IF i <= m THEN s[i] ELSE t[i - m]
    BY ConcatProperties
  <2> QED BY <2>1, <2>2
<1> HIDE DEF u, m, n
<1>3. \A i \in 1 .. m : i \in DOMAIN u /\ u[i] = s[i]
  BY <1>1, <1>2
<1>4. \A i \in 1 .. n : i + m \in DOMAIN u /\ u[i + m] = t[i] /\ i + m \in Nat
  BY <1>1, <1>2
<1>5. \A i \in DOMAIN u : (i \in 1 .. m /\ u[i] = s[i]) \/ (i - m \in 1 .. n /\ u[i] = t[i - m])
  BY <1>1, <1>2
<1>6. ToSet(u) = ToSet(s) \cup ToSet(t)
  BY <1>1, <1>3, <1>4, <1>5 DEF ToSet
<1>7. ASSUME NEW x, NEW y, Before(s, x, y) PROVE Before(u, x, y)
  BY <1>1, <1>3, <1>7 DEF Before
<1>8. ASSUME NEW x, NEW y, Before(t, x, y) PROVE Before(u, x, y)
  <2>1. PICK i, j \in 1 .. n : i < j /\ t[i] = x /\ t[j] = y
    BY <1>1, <1>8 DEF Before
  <2>2. i + m < j + m
    BY <1>1, <2>1
  <2> QED BY <1>4, <2>1, <2>2 DEF Before
<1>9. ASSUME NEW x \in ToSet(s), NEW y \in ToSet(t) PROVE Before(u, x, y)
  <2>1. PICK i \in 1 .. m, j \in 1 .. n : s[i] = x /\ t[j] = y
    BY <1>1 DEF ToSet
  <2>2. i < j + m
    BY <1>1, <2>1
  <2> QED BY <1>3, <1>4, <2>1, <2>2 DEF Before
<1>10. ASSUME IsInjective(s), IsInjective(t), ToSet(s) \cap ToSet(t) = {} PROVE IsInjective(u)
  <2> SUFFICES ASSUME NEW i \in DOMAIN u, NEW j \in DOMAIN u, u[i] = u[j] PROVE i = j
    BY DEF IsInjective
  <2>1. \A k \in 1 .. m, l \in 1 .. n : s[k] # t[l]
    BY <1>1, <1>10 DEF ToSet
  <2>2. CASE i \in 1 .. m /\ u[i] = s[i] /\ j \in 1 .. m /\ u[j] = s[j]
    BY <1>1, <1>10, <2>2 DEF IsInjective
  <2>3. CASE i - m \in 1 .. n /\ u[i] = t[i - m] /\ j - m \in 1 .. n /\ u[j] = t[j - m]
    <3>1. i - m = j - m
      BY <1>1, <1>10, <2>3 DEF IsInjective
    <3> QED BY <1>1, <1>2, <3>1
  <2> QED BY <1>5, <2>1, <2>2, <2>3
<1> QED BY <1>2, <1>6, <1>7, <1>8, <1>9, <1>10 DEF u

(* What is in it, in which order, and that nothing is in it twice.         *)
LEMMA FlattenProperties ==
  ASSUME NEW S, NEW ss \in Seq(Seq(S))
  PROVE  /\ FlattenSeq(ss) \in Seq(S)
         /\ \A x : x \in ToSet(FlattenSeq(ss)) <=> \E i \in DOMAIN ss : x \in ToSet(ss[i])
         /\ \A i \in DOMAIN ss : \A x, y : Before(ss[i], x, y) => Before(FlattenSeq(ss), x, y)
         /\ \A i, j \in DOMAIN ss : \A x, y :
              i < j /\ x \in ToSet(ss[i]) /\ y \in ToSet(ss[j]) => Before(FlattenSeq(ss), x, y)
         /\ (\A i \in DOMAIN ss : IsInjective(ss[i]))
              /\ (\A i, j \in DOMAIN ss : i # j => ToSet(ss[i]) \cap ToSet(ss[j]) = {})
              => IsInjective(FlattenSeq(ss))
<1>1. Len(ss) \in Nat /\ DOMAIN ss = 1 .. Len(ss) /\ \A i \in DOMAIN ss : ss[i] \in Seq(S)
  OBVIOUS
<1>2. CASE Len(ss) = 0
  <2>1. FlattenSeq(ss) = ss /\ ss = <<>> /\ DOMAIN ss = {}
    BY <1>1, <1>2 DEF FlattenSeq
  <2> QED BY <2>1 DEF ToSet, Before, IsInjective
<1>3. CASE Len(ss) # 0
  <2>1. PICK f : /\ f \in [1 .. Len(ss) -> Seq(S)]
                 /\ f[1] = ss[1] /\ \A i \in 2 .. Len(ss) : f[i] = f[i - 1] \o ss[i]
                 /\ FlattenSeq(ss) = f[Len(ss)]
    BY <1>3, FlatteningIs
  <2> DEFINE Alone == (\A i \in DOMAIN ss : IsInjective(ss[i]))
                      /\ (\A i, j \in DOMAIN ss : i # j => ToSet(ss[i]) \cap ToSet(ss[j]) = {})
             InIt(n) == \A x : x \in ToSet(f[n]) <=> \E i \in 1 .. n : x \in ToSet(ss[i])
             Inner(n) == \A i \in 1 .. n : \A x, y : Before(ss[i], x, y) => Before(f[n], x, y)
             Outer(n) == \A i, j \in 1 .. n : \A x, y :
                           i < j /\ x \in ToSet(ss[i]) /\ y \in ToSet(ss[j]) => Before(f[n], x, y)
             Good(n) == InIt(n) /\ Inner(n) /\ Outer(n) /\ (Alone => IsInjective(f[n]))
             P == {n \in Nat : n + 1 <= Len(ss) => Good(n + 1)}
  <2>2. 0 \in P
    <3>1. \A i \in 1 .. 1 : i = 1
      OBVIOUS
    <3>2. 1 \in DOMAIN ss /\ 1 \in 1 .. 1
      BY <1>1, <1>3
    <3>3. Good(1)
      BY <2>1, <3>1, <3>2
    <3> QED BY <3>3
  <2>3. ASSUME NEW n \in Nat, n \in P PROVE n + 1 \in P
    <3> SUFFICES ASSUME n + 2 <= Len(ss) PROVE Good(n + 2)
      OBVIOUS
    <3> DEFINE m == n + 1
               k == n + 2
    <3>1. Good(m)
      <4> HIDE DEF Good
      <4> QED BY <1>1, <2>3
    <3>2. f[k] = f[m] \o ss[k] /\ f[m] \in Seq(S) /\ ss[k] \in Seq(S)
      <4>1. k \in 2 .. Len(ss) /\ k - 1 = m /\ m \in 1 .. Len(ss) /\ k \in DOMAIN ss
        BY <1>1
      <4> QED BY <1>1, <2>1, <4>1
    <3>3. \A i : i \in 1 .. k <=> (i \in 1 .. m \/ i = k)
      BY <1>1
    <3>4. k \notin 1 .. m /\ (\A i \in 1 .. m : i < k /\ i # k /\ i \in DOMAIN ss) /\ k \in DOMAIN ss
      BY <1>1
    <3> HIDE DEF m, k
    <3>5. /\ ToSet(f[k]) = ToSet(f[m]) \cup ToSet(ss[k])
          /\ \A x, y : Before(f[m], x, y) => Before(f[k], x, y)
          /\ \A x, y : Before(ss[k], x, y) => Before(f[k], x, y)
          /\ \A x \in ToSet(f[m]), y \in ToSet(ss[k]) : Before(f[k], x, y)
          /\ IsInjective(f[m]) /\ IsInjective(ss[k]) /\ ToSet(f[m]) \cap ToSet(ss[k]) = {} => IsInjective(f[k])
      BY <3>2, BeforeInConcat
    <3>6. InIt(k)
      BY <3>1, <3>3, <3>5
    <3>7. Inner(k)
      BY <3>1, <3>3, <3>5
    <3>8. Outer(k)
      <4> SUFFICES ASSUME NEW i \in 1 .. k, NEW j \in 1 .. k, NEW x, NEW y, i < j, x \in ToSet(ss[i]), y \in ToSet(ss[j])
                   PROVE  Before(f[k], x, y)
        OBVIOUS
      <4>1. i \in 1 .. m
        <5>1. i # k
          <6>1. j <= k /\ k \in Nat /\ i \in Nat /\ j \in Nat
            BY <1>1, <3>4
          <6> QED BY <6>1
        <5> QED BY <3>3, <5>1
      <4>2. x \in ToSet(f[m])
        BY <3>1, <4>1
      <4>3. CASE j \in 1 .. m
        BY <3>1, <3>5, <4>1, <4>3
      <4>4. CASE j = k
        BY <3>5, <4>2, <4>4
      <4> QED BY <3>3, <4>3, <4>4
    <3>9. ASSUME Alone PROVE IsInjective(f[k])
      <4>1. ToSet(f[m]) \cap ToSet(ss[k]) = {}
        BY <3>1, <3>4, <3>9
      <4>2. IsInjective(f[m]) /\ IsInjective(ss[k])
        BY <3>1, <3>4, <3>9
      <4> QED BY <3>5, <4>1, <4>2
    <3> HIDE DEF Alone, InIt, Inner, Outer
    <3> QED BY <3>6, <3>7, <3>8, <3>9 DEF k
  <2>4. \A n \in Nat : n \in P
    <3> HIDE DEF P
    <3> QED BY <2>2, <2>3, CountingUp
  <2>5. Good(Len(ss)) /\ f[Len(ss)] \in Seq(S)
    <3>1. Len(ss) - 1 \in Nat /\ (Len(ss) - 1) + 1 = Len(ss)
      BY <1>1, <1>3
    <3>2. Len(ss) - 1 \in P
      <4> HIDE DEF P
      <4> QED BY <3>1, <2>4
    <3>3. Good(Len(ss))
      <4> HIDE DEF Good
      <4> QED BY <3>1, <3>2
    <3>4. f[Len(ss)] \in Seq(S)
      <4>1. Len(ss) \in 1 .. Len(ss)
        BY <1>1, <1>3
      <4>2. f \in [1 .. Len(ss) -> Seq(S)]
        BY <2>1
      <4> QED BY <4>1, <4>2
    <3> HIDE DEF Good
    <3> QED BY <3>3, <3>4
  <2> QED BY <1>1, <2>1, <2>5
<1> QED BY <1>2, <1>3

(* Sequences of columns.                                                   *)
LEMMA SameSeq ==
  ASSUME NEW S, NEW s \in Seq(S), NEW t \in Seq(S), Len(s) = Len(t), \A x \in 1 .. Len(s) : s[x] = t[x]
  PROVE  s = t
BY SeqEqual

(* What Front and Last take.                                               *)
LEMMA FrontIs ==
  ASSUME NEW S, NEW s \in Seq(S), s # <<>>
  PROVE  /\ Front(s) \in Seq(S) /\ Len(Front(s)) = Len(s) - 1
         /\ \A x \in 1 .. Len(s) - 1 : Front(s)[x] = s[x]
<1>1. Len(s) \in Nat /\ Len(s) # 0
  OBVIOUS
<1>2. Front(s) = SubSeq(s, 1, Len(s) - 1)
  BY DEF Front
<1> DEFINE m == Len(s) - 1
           a == SubSeq(s, 1, m)
<1>3. m \in Nat /\ m <= Len(s) /\ \A x \in 1 .. m : s[x] \in S
  BY <1>1
<1> HIDE DEF m
<1>4. a \in Seq(S) /\ Len(a) = m /\ \A x \in 1 .. m : a[x] = s[x]
  BY <1>3, SubSeqProperties
<1> QED BY <1>2, <1>4 DEF m

(* What RemoveAt leaves.                                                   *)
LEMMA RemoveAtIs ==
  ASSUME NEW S, NEW s \in Seq(S), NEW i \in 1 .. Len(s)
  PROVE  /\ RemoveAt(s, i) \in Seq(S) /\ Len(RemoveAt(s, i)) = Len(s) - 1
         /\ \A x \in 1 .. Len(s) - 1 : RemoveAt(s, i)[x] = IF x < i THEN s[x] ELSE s[x + 1]
<1> DEFINE a == SubSeq(s, 1, i - 1)
           b == SubSeq(s, i + 1, Len(s))
<1>1. Len(s) \in Nat /\ i \in Nat /\ \A x \in 1 .. Len(s) : s[x] \in S
  OBVIOUS
<1>2. a \in Seq(S) /\ Len(a) = i - 1 /\ \A x \in 1 .. i - 1 : a[x] = s[x]
  <2>1. \A x \in 1 .. i - 1 : s[x] \in S
    BY <1>1
  <2> QED BY <1>1, <2>1, SubSeqProperties
<1>3. b \in Seq(S) /\ Len(b) = Len(s) - i /\ \A x \in 1 .. Len(s) - i : b[x] = s[x + i]
  <2>1. \A x \in i + 1 .. Len(s) : s[x] \in S
    BY <1>1
  <2>2. b \in Seq(S) /\ Len(b) = Len(s) - i /\ \A x \in 1 .. Len(b) : b[x] = s[x + i]
    BY <1>1, <2>1, SubSeqProperties
  <2> QED BY <2>2
<1>4. RemoveAt(s, i) = a \o b
  BY DEF RemoveAt
<1> HIDE DEF a, b
<1>5. /\ a \o b \in Seq(S) /\ Len(a \o b) = Len(s) - 1
      /\ \A x \in 1 .. Len(s) - 1 : (a \o b)[x] = IF x <= i - 1 THEN a[x] ELSE b[x - (i - 1)]
  <2>1. a \o b \in Seq(S) /\ Len(a \o b) = Len(a) + Len(b)
    BY <1>2, <1>3, ConcatProperties
  <2>2. \A x \in 1 .. Len(a) + Len(b) : (a \o b)[x] = IF x <= Len(a) THEN a[x] ELSE b[x - Len(a)]
    BY <1>2, <1>3, ConcatProperties
  <2>3. Len(a) + Len(b) = Len(s) - 1
    BY <1>1, <1>2, <1>3
  <2> QED BY <1>2, <2>1, <2>2, <2>3
<1>6. ASSUME NEW x \in 1 .. Len(s) - 1 PROVE (a \o b)[x] = IF x < i THEN s[x] ELSE s[x + 1]
  <2>1. CASE x < i
    <3>1. x <= i - 1 /\ x \in 1 .. i - 1
      BY <1>1, <2>1
    <3> QED BY <1>2, <1>5, <2>1, <3>1
  <2>2. CASE ~(x < i)
    <3>1. ~(x <= i - 1) /\ x - (i - 1) \in 1 .. Len(s) - i /\ (x - (i - 1)) + i = x + 1
      BY <1>1, <2>2
    <3>2. b[x - (i - 1)] = s[x + 1]
      BY <1>3, <3>1
    <3> QED BY <1>5, <2>2, <3>1, <3>2
  <2> QED BY <2>1, <2>2
<1> QED BY <1>4, <1>5, <1>6

(* Two that differ in the last column only, joined, and split again.       *)
LEMMA JoinIs ==
  ASSUME NEW S, NEW s \in Seq(S), NEW t \in Seq(S), NEW k \in Nat \ {0}, Len(s) = k, Len(t) = k, Front(s) = Front(t)
  PROVE  LET w == Append(s, Last(t)) IN
         /\ w \in Seq(S) /\ Len(w) = k + 1
         /\ \A x \in 1 .. k : w[x] = s[x]
         /\ w[k + 1] = t[k] /\ \A x \in 1 .. k - 1 : s[x] = t[x]
         /\ RemoveAt(w, k + 1) = s /\ RemoveAt(w, k) = t
<1> DEFINE w == Append(s, Last(t))
<1>1. s # <<>> /\ t # <<>> /\ Last(t) = t[k] /\ t[k] \in S
  BY DEF Last
<1>2. w \in Seq(S) /\ Len(w) = k + 1 /\ w[k + 1] = t[k] /\ \A x \in 1 .. k : w[x] = s[x]
  BY <1>1, AppendProperties
<1>3. \A x \in 1 .. k - 1 : s[x] = t[x]
  <2>1. \A x \in 1 .. k - 1 : Front(s)[x] = s[x] /\ Front(t)[x] = t[x]
    BY <1>1, FrontIs
  <2> QED BY <2>1
<1> HIDE DEF w
<1>4. /\ RemoveAt(w, k + 1) \in Seq(S) /\ Len(RemoveAt(w, k + 1)) = k
      /\ \A x \in 1 .. k : RemoveAt(w, k + 1)[x] = IF x < k + 1 THEN w[x] ELSE w[x + 1]
  <2>1. k + 1 \in 1 .. Len(w) /\ Len(w) - 1 = k
    BY <1>2
  <2> QED BY <1>2, <2>1, RemoveAtIs
<1>5. /\ RemoveAt(w, k) \in Seq(S) /\ Len(RemoveAt(w, k)) = k
      /\ \A x \in 1 .. k : RemoveAt(w, k)[x] = IF x < k THEN w[x] ELSE w[x + 1]
  <2>1. k \in 1 .. Len(w) /\ Len(w) - 1 = k
    BY <1>2
  <2> QED BY <1>2, <2>1, RemoveAtIs
<1>6. RemoveAt(w, k + 1) = s
  <2>1. \A x \in 1 .. k : RemoveAt(w, k + 1)[x] = s[x]
    BY <1>2, <1>4
  <2> QED BY <1>4, <2>1, SameSeq
<1>7. RemoveAt(w, k) = t
  <2>1. ASSUME NEW x \in 1 .. k PROVE RemoveAt(w, k)[x] = t[x]
    <3>1. CASE x < k
      <4>1. x \in 1 .. k - 1
        BY <3>1
      <4> QED BY <1>2, <1>3, <1>5, <3>1, <4>1
    <3>2. CASE x = k
      BY <1>2, <1>5, <3>2
    <3> QED BY <3>1, <3>2
  <2> QED BY <1>5, <2>1, SameSeq
<1> QED BY <1>2, <1>3, <1>6, <1>7 DEF w

(* A sequence is joined again from what is left without its last element   *)
(* and without the one before it.                                          *)
LEMMA SplitIs ==
  ASSUME NEW S, NEW w \in Seq(S), NEW k \in Nat \ {0}, Len(w) = k + 1
  PROVE  LET s == RemoveAt(w, k + 1)
             t == RemoveAt(w, k)
         IN /\ Front(s) = Front(t) /\ Last(s) = w[k] /\ Last(t) = w[k + 1]
            /\ Append(s, Last(t)) = w
<1> DEFINE s == RemoveAt(w, k + 1)
           t == RemoveAt(w, k)
<1>1. /\ s \in Seq(S) /\ Len(s) = k
      /\ \A x \in 1 .. k : s[x] = w[x]
  <2>1. k + 1 \in 1 .. Len(w) /\ Len(w) - 1 = k
    OBVIOUS
  <2>2. /\ s \in Seq(S) /\ Len(s) = k
        /\ \A x \in 1 .. k : s[x] = IF x < k + 1 THEN w[x] ELSE w[x + 1]
    BY <2>1, RemoveAtIs
  <2> HIDE DEF s
  <2> QED BY <2>2
<1>2. /\ t \in Seq(S) /\ Len(t) = k
      /\ \A x \in 1 .. k : t[x] = IF x < k THEN w[x] ELSE w[x + 1]
  <2>1. k \in 1 .. Len(w) /\ Len(w) - 1 = k
    OBVIOUS
  <2> QED BY <2>1, RemoveAtIs
<1> HIDE DEF s, t
<1>3. s # <<>> /\ t # <<>> /\ Last(s) = w[k] /\ Last(t) = w[k + 1]
  BY <1>1, <1>2 DEF Last
<1>4. Front(s) = Front(t)
  <2>1. /\ Front(s) \in Seq(S) /\ Len(Front(s)) = k - 1 /\ \A x \in 1 .. k - 1 : Front(s)[x] = s[x]
        /\ Front(t) \in Seq(S) /\ Len(Front(t)) = k - 1 /\ \A x \in 1 .. k - 1 : Front(t)[x] = t[x]
    BY <1>1, <1>2, <1>3, FrontIs
  <2>2. \A x \in 1 .. k - 1 : s[x] = t[x]
    BY <1>1, <1>2
  <2> QED BY <2>1, <2>2, SameSeq
<1>5. Append(s, Last(t)) = w
  <2>1. Last(t) \in S
    BY <1>3
  <2>2. /\ Append(s, Last(t)) \in Seq(S) /\ Len(Append(s, Last(t))) = k + 1 /\ Append(s, Last(t))[k + 1] = w[k + 1]
        /\ \A x \in 1 .. k : Append(s, Last(t))[x] = w[x]
    BY <1>1, <1>3, <2>1, AppendProperties
  <2>3. \A x \in 1 .. k + 1 : Append(s, Last(t))[x] = w[x]
    BY <2>2
  <2> QED BY <2>2, <2>3, SameSeq
<1> QED BY <1>3, <1>4, <1>5 DEF s, t

(* The left columns of a dependency ascend, the right ones are distinct.   *)
IsLhs(s, k, n) ==
  /\ s \in Seq(Nat) /\ Len(s) = k /\ \A x \in 1 .. k : s[x] \in 1 .. n
  /\ \A x, y \in 1 .. k : x < y => s[x] < s[y]
IsRhs(s, k, n) ==
  /\ s \in Seq(Nat) /\ Len(s) = k /\ \A x \in 1 .. k : s[x] \in 1 .. n
  /\ \A x, y \in 1 .. k : s[x] = s[y] => x = y

(* Joining ascending columns that differ in the last one, in its order,    *)
(* gives ascending columns.                                                *)
LEMMA LhsJoins ==
  ASSUME NEW k \in Nat \ {0}, NEW n \in Nat, NEW s, NEW t, IsLhs(s, k, n), IsLhs(t, k, n), Front(s) = Front(t), Last(s) < Last(t)
  PROVE  IsLhs(Append(s, Last(t)), k + 1, n)
<1> DEFINE w == Append(s, Last(t))
<1>1. s \in Seq(Nat) /\ t \in Seq(Nat) /\ Len(s) = k /\ Len(t) = k
  BY DEF IsLhs
<1>2. /\ w \in Seq(Nat) /\ Len(w) = k + 1
      /\ \A x \in 1 .. k : w[x] = s[x]
      /\ w[k + 1] = t[k]
  BY <1>1, JoinIs
<1> HIDE DEF w
<1>3. s[k] < t[k] /\ s[k] \in Nat /\ t[k] \in 1 .. n /\ t[k] \in Nat
  BY <1>1 DEF Last, IsLhs
<1>4. \A x \in 1 .. k : s[x] \in 1 .. n /\ s[x] <= s[k] /\ s[x] \in Nat
  BY <1>1 DEF IsLhs
<1>5. \A x \in 1 .. k + 1 : w[x] \in 1 .. n
  BY <1>2, <1>3, <1>4
<1>6. ASSUME NEW x \in 1 .. k + 1, NEW y \in 1 .. k + 1, x < y PROVE w[x] < w[y]
  <2>1. x \in 1 .. k
    BY <1>6
  <2>2. CASE y \in 1 .. k
    BY <1>2, <1>6, <2>1, <2>2 DEF IsLhs
  <2>3. CASE y = k + 1
    BY <1>2, <1>3, <1>4, <2>1, <2>3
  <2> QED BY <2>2, <2>3
<1> QED BY <1>2, <1>5, <1>6 DEF IsLhs, w

(* Joining distinct columns that differ in the last one gives distinct     *)
(* columns.                                                                *)
LEMMA RhsJoins ==
  ASSUME NEW k \in Nat \ {0}, NEW n \in Nat, NEW s, NEW t, IsRhs(s, k, n), IsRhs(t, k, n), Front(s) = Front(t), Last(s) # Last(t)
  PROVE  IsRhs(Append(s, Last(t)), k + 1, n)
<1> DEFINE w == Append(s, Last(t))
<1>1. s \in Seq(Nat) /\ t \in Seq(Nat) /\ Len(s) = k /\ Len(t) = k
  BY DEF IsRhs
<1>2. /\ w \in Seq(Nat) /\ Len(w) = k + 1
      /\ \A x \in 1 .. k : w[x] = s[x]
      /\ w[k + 1] = t[k] /\ \A x \in 1 .. k - 1 : s[x] = t[x]
  BY <1>1, JoinIs
<1> HIDE DEF w
<1>3. s[k] # t[k] /\ t[k] \in 1 .. n
  BY <1>1 DEF Last, IsRhs
<1>4. ASSUME NEW x \in 1 .. k PROVE w[x] # t[k] /\ w[x] \in 1 .. n
  <2>1. CASE x = k
    BY <1>2, <1>3, <2>1 DEF IsRhs
  <2>2. CASE x # k
    <3>1. x \in 1 .. k - 1 /\ k \in 1 .. k
      BY <2>2
    <3>2. t[x] # t[k]
      BY <2>2, <3>1 DEF IsRhs
    <3> QED BY <1>2, <3>1, <3>2 DEF IsRhs
  <2> QED BY <2>1, <2>2
<1>5. \A x \in 1 .. k + 1 : w[x] \in 1 .. n
  BY <1>2, <1>3, <1>4
<1>6. ASSUME NEW x \in 1 .. k + 1, NEW y \in 1 .. k + 1, w[x] = w[y] PROVE x = y
  <2>1. (x \in 1 .. k \/ x = k + 1) /\ (y \in 1 .. k \/ y = k + 1)
    OBVIOUS
  <2> QED BY <1>2, <1>4, <1>6, <2>1 DEF IsRhs
<1> QED BY <1>2, <1>5, <1>6 DEF IsRhs, w

(* Without one of them ascending columns ascend.                           *)
LEMMA LhsParts ==
  ASSUME NEW k \in Nat, NEW n \in Nat, NEW w, IsLhs(w, k + 1, n), NEW i \in 1 .. k + 1
  PROVE  IsLhs(RemoveAt(w, i), k, n)
<1> DEFINE s == RemoveAt(w, i)
<1>1. w \in Seq(Nat) /\ Len(w) = k + 1 /\ Len(w) - 1 = k
  BY DEF IsLhs
<1>2. s \in Seq(Nat) /\ Len(s) = k /\ \A x \in 1 .. k : s[x] = IF x < i THEN w[x] ELSE w[x + 1]
  BY <1>1, RemoveAtIs
<1> HIDE DEF s
<1>3. \A x \in 1 .. k : x \in 1 .. k + 1 /\ x + 1 \in 1 .. k + 1
  OBVIOUS
<1>4. \A x \in 1 .. k : s[x] \in 1 .. n
  BY <1>2, <1>3 DEF IsLhs
<1>5. ASSUME NEW x \in 1 .. k, NEW y \in 1 .. k, x < y PROVE s[x] < s[y]
  <2> DEFINE a == IF x < i THEN x ELSE x + 1
             b == IF y < i THEN y ELSE y + 1
  <2>1. a \in 1 .. k + 1 /\ b \in 1 .. k + 1 /\ a < b
    BY <1>5
  <2>2. s[x] = w[a] /\ s[y] = w[b]
    BY <1>2
  <2> HIDE DEF a, b
  <2> QED BY <2>1, <2>2 DEF IsLhs
<1> QED BY <1>2, <1>4, <1>5 DEF IsLhs, s

(* Without one of them distinct columns are distinct.                      *)
LEMMA RhsParts ==
  ASSUME NEW k \in Nat, NEW n \in Nat, NEW w, IsRhs(w, k + 1, n), NEW i \in 1 .. k + 1
  PROVE  IsRhs(RemoveAt(w, i), k, n)
<1> DEFINE s == RemoveAt(w, i)
<1>1. w \in Seq(Nat) /\ Len(w) = k + 1 /\ Len(w) - 1 = k
  BY DEF IsRhs
<1>2. s \in Seq(Nat) /\ Len(s) = k /\ \A x \in 1 .. k : s[x] = IF x < i THEN w[x] ELSE w[x + 1]
  BY <1>1, RemoveAtIs
<1> HIDE DEF s
<1>3. \A x \in 1 .. k : x \in 1 .. k + 1 /\ x + 1 \in 1 .. k + 1
  OBVIOUS
<1>4. \A x \in 1 .. k : s[x] \in 1 .. n
  BY <1>2, <1>3 DEF IsRhs
<1>5. ASSUME NEW x \in 1 .. k, NEW y \in 1 .. k, s[x] = s[y] PROVE x = y
  <2> DEFINE a == IF x < i THEN x ELSE x + 1
             b == IF y < i THEN y ELSE y + 1
  <2>1. a \in 1 .. k + 1 /\ b \in 1 .. k + 1 /\ (a = b => x = y)
    OBVIOUS
  <2>2. s[x] = w[a] /\ s[y] = w[b]
    BY <1>2
  <2> HIDE DEF a, b
  <2> QED BY <1>5, <2>1, <2>2 DEF IsRhs
<1> QED BY <1>2, <1>4, <1>5 DEF IsRhs, s

(* A dependency of k columns.                                              *)
Shaped(ts, d, k) ==
  /\ d = << <<d[1][1], d[1][2]>>, <<d[2][1], d[2][2]>> >>
  /\ d[1][1] \in DOMAIN ts /\ d[2][1] \in DOMAIN ts
  /\ IsLhs(d[1][2], k, Len(ts[d[1][1]][1])) /\ IsRhs(d[2][2], k, Len(ts[d[2][1]][1]))
Part(d, i) == <<WithoutIndex(d[1], i), WithoutIndex(d[2], i)>>
Joins(p, q) ==
  /\ StartsWith(p, q) /\ LastColumn(p[1]) < LastColumn(q[1]) /\ LastColumn(p[2]) # LastColumn(q[2])

(* A table has a number of columns.                                        *)
LEMMA WidthsAre ==
  ASSUME NEW ts, AreTables(ts), NEW i \in DOMAIN ts
  PROVE  Len(ts[i][1]) \in Nat
<1>1. ts[i] \in Seq(Seq(Nat)) /\ ts[i] # <<>>
  BY DEF AreTables
<1>2. ts[i][1] \in Seq(Nat)
  BY <1>1
<1> QED BY <1>2

(* A part of a dependency is one, of a column less.                        *)
LEMMA PartIs ==
  ASSUME NEW ts, AreTables(ts), NEW k \in Nat, NEW d, Shaped(ts, d, k + 1), NEW i \in 1 .. k + 1
  PROVE  Shaped(ts, Part(d, i), k)
<1>1. d[1][1] \in DOMAIN ts /\ d[2][1] \in DOMAIN ts
  BY DEF Shaped
<1> DEFINE a == RemoveAt(d[1][2], i)
           b == RemoveAt(d[2][2], i)
<1>2. IsLhs(a, k, Len(ts[d[1][1]][1])) /\ IsRhs(b, k, Len(ts[d[2][1]][1]))
  BY <1>1, WidthsAre, LhsParts, RhsParts DEF Shaped
<1>3. Part(d, i) = << <<d[1][1], a>>, <<d[2][1], b>> >>
  BY DEF Part, WithoutIndex
<1> HIDE DEF a, b
<1> QED BY <1>1, <1>2, <1>3 DEF Shaped

(* A candidate is a dependency of a column more, and the two it was made   *)
(* of are its parts without the last column and without the one before it. *)
LEMMA CreateIs ==
  ASSUME NEW ts, AreTables(ts), NEW k \in Nat \ {0}, NEW p, Shaped(ts, p, k), NEW q, Shaped(ts, q, k), Joins(p, q)
  PROVE  /\ Shaped(ts, CreateCandidate(p, q), k + 1)
         /\ Part(CreateCandidate(p, q), k + 1) = p /\ Part(CreateCandidate(p, q), k) = q
<1> DEFINE a == Append(p[1][2], Last(q[1][2]))
           b == Append(p[2][2], Last(q[2][2]))
           c == CreateCandidate(p, q)
<1>1. /\ p[1][1] \in DOMAIN ts /\ p[2][1] \in DOMAIN ts /\ q[1][1] = p[1][1] /\ q[2][1] = p[2][1]
      /\ Front(p[1][2]) = Front(q[1][2]) /\ Front(p[2][2]) = Front(q[2][2])
      /\ Last(p[1][2]) < Last(q[1][2]) /\ Last(p[2][2]) # Last(q[2][2])
  BY DEF Shaped, Joins, StartsWith, LastColumn
<1>2. /\ IsLhs(p[1][2], k, Len(ts[p[1][1]][1])) /\ IsLhs(q[1][2], k, Len(ts[p[1][1]][1]))
      /\ IsRhs(p[2][2], k, Len(ts[p[2][1]][1])) /\ IsRhs(q[2][2], k, Len(ts[p[2][1]][1]))
  BY <1>1 DEF Shaped
<1>3. c = << <<p[1][1], a>>, <<p[2][1], b>> >>
  BY DEF CreateCandidate, WithColumn, LastColumn
<1>4. IsLhs(a, k + 1, Len(ts[p[1][1]][1])) /\ IsRhs(b, k + 1, Len(ts[p[2][1]][1]))
  BY <1>1, <1>2, WidthsAre, LhsJoins, RhsJoins
<1>5. RemoveAt(a, k + 1) = p[1][2] /\ RemoveAt(a, k) = q[1][2]
  <2>1. p[1][2] \in Seq(Nat) /\ q[1][2] \in Seq(Nat) /\ Len(p[1][2]) = k /\ Len(q[1][2]) = k
    BY <1>2 DEF IsLhs
  <2> QED BY <1>1, <2>1, JoinIs
<1>6. RemoveAt(b, k + 1) = p[2][2] /\ RemoveAt(b, k) = q[2][2]
  <2>1. p[2][2] \in Seq(Nat) /\ q[2][2] \in Seq(Nat) /\ Len(p[2][2]) = k /\ Len(q[2][2]) = k
    BY <1>2 DEF IsRhs
  <2> QED BY <1>1, <2>1, JoinIs
<1> HIDE DEF a, b, c
<1>7. Shaped(ts, c, k + 1)
  BY <1>1, <1>3, <1>4 DEF Shaped
<1>8. /\ Part(c, k + 1) = << <<p[1][1], p[1][2]>>, <<p[2][1], p[2][2]>> >>
      /\ Part(c, k) = << <<q[1][1], q[1][2]>>, <<q[2][1], q[2][2]>> >>
  BY <1>1, <1>3, <1>5, <1>6 DEF Part, WithoutIndex
<1> QED BY <1>7, <1>8 DEF Shaped, c

(* And every dependency is the candidate of these two parts.               *)
LEMMA DecomposeIs ==
  ASSUME NEW ts, AreTables(ts), NEW k \in Nat \ {0}, NEW d, Shaped(ts, d, k + 1)
  PROVE  /\ Joins(Part(d, k + 1), Part(d, k))
         /\ CreateCandidate(Part(d, k + 1), Part(d, k)) = d
<1> DEFINE a == d[1][2]
           b == d[2][2]
           p == Part(d, k + 1)
           q == Part(d, k)
<1>1. /\ a \in Seq(Nat) /\ Len(a) = k + 1 /\ a[k] < a[k + 1]
      /\ b \in Seq(Nat) /\ Len(b) = k + 1 /\ b[k] # b[k + 1]
      /\ d = << <<d[1][1], a>>, <<d[2][1], b>> >>
  <2>1. k \in 1 .. k + 1 /\ k + 1 \in 1 .. k + 1 /\ k < k + 1
    OBVIOUS
  <2> QED BY <2>1 DEF Shaped, IsLhs, IsRhs
<1>2. /\ p = << <<d[1][1], RemoveAt(a, k + 1)>>, <<d[2][1], RemoveAt(b, k + 1)>> >>
      /\ q = << <<d[1][1], RemoveAt(a, k)>>, <<d[2][1], RemoveAt(b, k)>> >>
  BY DEF Part, WithoutIndex
<1> HIDE DEF a, b, p, q
<1>3. /\ Front(RemoveAt(a, k + 1)) = Front(RemoveAt(a, k)) /\ Last(RemoveAt(a, k + 1)) = a[k]
      /\ Last(RemoveAt(a, k)) = a[k + 1] /\ Append(RemoveAt(a, k + 1), Last(RemoveAt(a, k))) = a
  BY <1>1, SplitIs
<1>4. /\ Front(RemoveAt(b, k + 1)) = Front(RemoveAt(b, k)) /\ Last(RemoveAt(b, k + 1)) = b[k]
      /\ Last(RemoveAt(b, k)) = b[k + 1] /\ Append(RemoveAt(b, k + 1), Last(RemoveAt(b, k))) = b
  BY <1>1, SplitIs
<1>5. Joins(p, q)
  BY <1>1, <1>2, <1>3, <1>4 DEF Joins, StartsWith, LastColumn
<1>6. CreateCandidate(p, q) = d
  BY <1>1, <1>2, <1>3, <1>4 DEF CreateCandidate, WithColumn, LastColumn
<1> QED BY <1>5, <1>6 DEF p, q

Sides(ts) == (DOMAIN ts) \X Seq(Nat)
Deps(ts) == Sides(ts) \X Sides(ts)
IsLevel(ts, L, k) ==
  /\ L \in Seq(Deps(ts)) /\ IsInjective(L)
  /\ \A d \in ToSet(L) : Shaped(ts, d, k)
  /\ \A p, q \in ToSet(L) : StartsWith(p, q) /\ LastColumn(p[1]) < LastColumn(q[1]) => Before(L, p, q)

IsJoined(p, q, prev) ==
  /\ Joins(p, q)
  /\ ~HaveIndicesIntersection(CreateCandidate(p, q)[1], CreateCandidate(p, q)[2])
  /\ ~CanPruneCandidate(CreateCandidate(p, q), prev)

(* Of whatever arity, it is a pair of tables and columns.                  *)
LEMMA ShapedIsDep ==
  ASSUME NEW ts, NEW k, NEW d, Shaped(ts, d, k)
  PROVE  d \in Deps(ts)
<1>1. <<d[1][1], d[1][2]>> \in Sides(ts) /\ <<d[2][1], d[2][2]>> \in Sides(ts)
  BY DEF Shaped, IsLhs, IsRhs, Sides
<1> QED BY <1>1 DEF Shaped, Deps

(* Two dependencies of a level give a candidate or none.                   *)
LEMMA CandidateIs ==
  ASSUME NEW p, NEW q, NEW prev
  PROVE  CandidateOf(p, q, prev) = IF IsJoined(p, q, prev) THEN <<CreateCandidate(p, q)>> ELSE <<>>
BY Zenon DEF CandidateOf, IsJoined, Joins

(* What comes of one dependency of a level.                                *)
JoinsOf(L, i) == FlattenSeq([j \in 1 .. Len(L) - i |-> CandidateOf(L[i], L[i + j], ToSet(L))])

(* The candidates of a dependency with the later ones: each once, in the   *)
(* order of these.                                                         *)
LEMMA JoinsOfIs ==
  ASSUME NEW ts, AreTables(ts), NEW k \in Nat \ {0}, NEW L, IsLevel(ts, L, k), NEW i \in DOMAIN L
  PROVE  /\ JoinsOf(L, i) \in Seq(Deps(ts)) /\ IsInjective(JoinsOf(L, i))
         /\ \A d : d \in ToSet(JoinsOf(L, i)) <=> \E j \in i + 1 .. Len(L) : IsJoined(L[i], L[j], ToSet(L))
                                                                       /\ d = CreateCandidate(L[i], L[j])
         /\ \A j, l \in i + 1 .. Len(L) :
              j < l /\ IsJoined(L[i], L[j], ToSet(L)) /\ IsJoined(L[i], L[l], ToSet(L))
                => Before(JoinsOf(L, i), CreateCandidate(L[i], L[j]), CreateCandidate(L[i], L[l]))
<1> DEFINE n == Len(L)
           J(j) == IsJoined(L[i], L[j], ToSet(L))
           c(j) == CreateCandidate(L[i], L[j])
           ss == [j \in 1 .. n - i |-> CandidateOf(L[i], L[i + j], ToSet(L))]
<1>1. /\ n \in Nat /\ DOMAIN L = 1 .. n /\ i \in 1 .. n
      /\ \A j \in 1 .. n : L[j] \in ToSet(L) /\ Shaped(ts, L[j], k)
      /\ \A j, l \in 1 .. n : L[j] = L[l] => j = l
  BY DEF IsLevel, ToSet, IsInjective
<1>2. \A j \in i + 1 .. n : j \in 1 .. n
  BY <1>1
<1>3. \A j \in i + 1 .. n : J(j) => Shaped(ts, c(j), k + 1) /\ Part(c(j), k) = L[j]
  BY <1>1, <1>2, CreateIs DEF IsJoined
<1>4. \A j \in i + 1 .. n : J(j) => c(j) \in Deps(ts)
  BY <1>3, ShapedIsDep
<1>5. \A j \in 1 .. n - i : i + j \in i + 1 .. n /\ ss[j] = IF J(i + j) THEN <<c(i + j)>> ELSE <<>>
  <2> SUFFICES ASSUME NEW j \in 1 .. n - i PROVE i + j \in i + 1 .. n /\ ss[j] = IF J(i + j) THEN <<c(i + j)>> ELSE <<>>
    OBVIOUS
  <2>1. i + j \in i + 1 .. n
    BY <1>1
  <2>2. ss[j] = CandidateOf(L[i], L[i + j], ToSet(L))
    OBVIOUS
  <2> HIDE DEF ss
  <2> QED BY <2>1, <2>2, CandidateIs
<1>6. \A j \in i + 1 .. n : j - i \in 1 .. n - i /\ i + (j - i) = j
  BY <1>1
<1>7. DOMAIN ss = 1 .. n - i /\ Len(ss) = n - i /\ ss \in Seq(Seq(Deps(ts)))
  <2>1. n - i \in Nat
    BY <1>1
  <2>2. \A j \in 1 .. n - i : ss[j] \in Seq(Deps(ts))
    <3> HIDE DEF ss, c, J, n
    <3> SUFFICES ASSUME NEW j \in 1 .. n - i PROVE ss[j] \in Seq(Deps(ts))
      OBVIOUS
    <3>1. ss[j] = IF J(i + j) THEN <<c(i + j)>> ELSE <<>>
      BY <1>5
    <3>2. J(i + j) => c(i + j) \in Deps(ts)
      BY <1>4, <1>5
    <3>3. CASE J(i + j)
      <4>1. c(i + j) \in Deps(ts) /\ ss[j] = <<c(i + j)>>
        BY <3>1, <3>2, <3>3
      <4> QED BY <4>1
    <3>4. CASE ~J(i + j)
      <4>1. ss[j] = <<>>
        BY <3>1, <3>4
      <4> QED BY <4>1
    <3> QED BY <3>3, <3>4
  <2>3. ss = [j \in 1 .. n - i |-> ss[j]]
    OBVIOUS
  <2> HIDE DEF ss
  <2> QED BY <2>1, <2>2, <2>3
<1>8. JoinsOf(L, i) = FlattenSeq(ss)
  BY DEF JoinsOf
<1> HIDE DEF ss, J, c, n
<1>9. \A j \in DOMAIN ss : IsInjective(ss[j]) /\ \A x : x \in ToSet(ss[j]) <=> J(i + j) /\ x = c(i + j)
  <2> SUFFICES ASSUME NEW j \in DOMAIN ss PROVE IsInjective(ss[j]) /\ \A x : x \in ToSet(ss[j]) <=> J(i + j) /\ x = c(i + j)
    OBVIOUS
  <2>1. ss[j] = IF J(i + j) THEN <<c(i + j)>> ELSE <<>>
    BY <1>5, <1>7
  <2>2. CASE J(i + j)
    <3>1. ss[j] = <<c(i + j)>>
      BY <2>1, <2>2
    <3> QED BY <2>2, <3>1 DEF IsInjective, ToSet
  <2>3. CASE ~J(i + j)
    <3>1. ss[j] = <<>>
      BY <2>1, <2>3
    <3> QED BY <2>3, <3>1 DEF IsInjective, ToSet
  <2> QED BY <2>2, <2>3
<1>10. \A j, l \in DOMAIN ss : j # l => ToSet(ss[j]) \cap ToSet(ss[l]) = {}
  <2> SUFFICES ASSUME NEW j \in DOMAIN ss, NEW l \in DOMAIN ss, NEW x, x \in ToSet(ss[j]), x \in ToSet(ss[l]) PROVE j = l
    OBVIOUS
  <2>1. J(i + j) /\ J(i + l) /\ c(i + j) = c(i + l)
    BY <1>9
  <2>2. i + j \in i + 1 .. n /\ i + l \in i + 1 .. n
    BY <1>5, <1>7
  <2>3. L[i + j] = L[i + l]
    BY <1>3, <2>1, <2>2
  <2>4. i + j = i + l
    BY <1>1, <1>2, <2>2, <2>3
  <2> QED BY <1>1, <1>7, <2>4
<1>11. FlattenSeq(ss) \in Seq(Deps(ts)) /\ IsInjective(FlattenSeq(ss))
  BY <1>7, <1>9, <1>10, FlattenProperties
<1>12. \A d : d \in ToSet(FlattenSeq(ss)) <=> \E j \in i + 1 .. n : J(j) /\ d = c(j)
  <2>1. \A d : d \in ToSet(FlattenSeq(ss)) <=> \E j \in DOMAIN ss : d \in ToSet(ss[j])
    BY <1>7, FlattenProperties
  <2>2. \A d : d \in ToSet(FlattenSeq(ss)) <=> \E j \in DOMAIN ss : J(i + j) /\ d = c(i + j)
    BY <1>9, <2>1
  <2> QED BY <1>5, <1>6, <1>7, <2>2
<1>13. ASSUME NEW j \in i + 1 .. n, NEW l \in i + 1 .. n, j < l, J(j), J(l) PROVE Before(FlattenSeq(ss), c(j), c(l))
  <2>1. j - i \in DOMAIN ss /\ l - i \in DOMAIN ss /\ j - i < l - i /\ i + (j - i) = j /\ i + (l - i) = l
    BY <1>1, <1>6, <1>7, <1>13
  <2>2. c(j) \in ToSet(ss[j - i]) /\ c(l) \in ToSet(ss[l - i])
    BY <1>9, <1>13, <2>1
  <2> QED BY <1>7, <2>1, <2>2, FlattenProperties
<1> QED BY <1>8, <1>11, <1>12, <1>13 DEF n, J, c

(* The candidates of a level, in their order.                              *)
LEMMA CandidatesAre ==
  ASSUME NEW ts, AreTables(ts), NEW k \in Nat \ {0}, NEW L, IsLevel(ts, L, k)
  PROVE  /\ CandidatesOf(L) \in Seq(Deps(ts)) /\ IsInjective(CandidatesOf(L))
         /\ \A d : d \in ToSet(CandidatesOf(L))
                     <=> \E i, j \in DOMAIN L : i < j /\ IsJoined(L[i], L[j], ToSet(L)) /\ d = CreateCandidate(L[i], L[j])
         /\ \A i, j, l \in DOMAIN L :
              i < j /\ j < l /\ IsJoined(L[i], L[j], ToSet(L)) /\ IsJoined(L[i], L[l], ToSet(L))
                => Before(CandidatesOf(L), CreateCandidate(L[i], L[j]), CreateCandidate(L[i], L[l]))
<1> DEFINE n == Len(L)
           J(i, j) == IsJoined(L[i], L[j], ToSet(L))
           c(i, j) == CreateCandidate(L[i], L[j])
           ss == [i \in DOMAIN L |-> JoinsOf(L, i)]
<1>1. /\ n \in Nat /\ DOMAIN L = 1 .. n
      /\ \A j \in 1 .. n : L[j] \in ToSet(L) /\ Shaped(ts, L[j], k)
      /\ \A j, l \in 1 .. n : L[j] = L[l] => j = l
  BY DEF IsLevel, ToSet, IsInjective
<1>2. \A i, j \in 1 .. n : i < j <=> j \in i + 1 .. n
  BY <1>1
<1>3. CandidatesOf(L) = FlattenSeq(ss)
  BY DEF CandidatesOf, JoinsOf
<1>4. ASSUME NEW i \in 1 .. n
      PROVE  /\ ss[i] \in Seq(Deps(ts)) /\ IsInjective(ss[i])
             /\ \A d : d \in ToSet(ss[i]) <=> \E j \in i + 1 .. n : J(i, j) /\ d = c(i, j)
             /\ \A j, l \in i + 1 .. n : j < l /\ J(i, j) /\ J(i, l) => Before(ss[i], c(i, j), c(i, l))
  <2>1. ss[i] = JoinsOf(L, i) /\ i \in DOMAIN L
    BY <1>1
  <2> HIDE DEF ss
  <2> QED BY <2>1, JoinsOfIs
<1>5. ss \in Seq(Seq(Deps(ts))) /\ DOMAIN ss = 1 .. n
  <2>1. DOMAIN ss = 1 .. n /\ ss = [i \in 1 .. n |-> ss[i]]
    BY <1>1
  <2>2. \A i \in 1 .. n : ss[i] \in Seq(Deps(ts))
    <3> HIDE DEF ss, J, c, n
    <3> QED BY <1>4
  <2> HIDE DEF ss, n
  <2> QED BY <1>1, <2>1, <2>2
<1> HIDE DEF ss, J, c, n
<1>6. \A i, j \in 1 .. n : J(i, j) => Part(c(i, j), k + 1) = L[i]
  <2> SUFFICES ASSUME NEW i \in 1 .. n, NEW j \in 1 .. n, J(i, j) PROVE Part(c(i, j), k + 1) = L[i]
    OBVIOUS
  <2>1. Joins(L[i], L[j])
    BY DEF J, IsJoined
  <2> QED BY <1>1, <2>1, CreateIs DEF c
<1>7. \A i, l \in DOMAIN ss : i # l => ToSet(ss[i]) \cap ToSet(ss[l]) = {}
  <2> SUFFICES ASSUME NEW i \in 1 .. n, NEW l \in 1 .. n, NEW d, d \in ToSet(ss[i]), d \in ToSet(ss[l]) PROVE i = l
    BY <1>5
  <2>1. PICK j \in i + 1 .. n : J(i, j) /\ d = c(i, j)
    BY <1>4
  <2>2. PICK m \in l + 1 .. n : J(l, m) /\ d = c(l, m)
    BY <1>4
  <2>3. j \in 1 .. n /\ m \in 1 .. n
    BY <1>1
  <2>4. L[i] = L[l]
    BY <1>6, <2>1, <2>2, <2>3
  <2> QED BY <1>1, <2>4
<1>8. FlattenSeq(ss) \in Seq(Deps(ts)) /\ IsInjective(FlattenSeq(ss))
  <2>1. \A i \in DOMAIN ss : IsInjective(ss[i])
    BY <1>4, <1>5
  <2> QED BY <1>5, <1>7, <2>1, FlattenProperties
<1>9. \A d : d \in ToSet(FlattenSeq(ss)) <=> \E i, j \in 1 .. n : i < j /\ J(i, j) /\ d = c(i, j)
  <2>1. \A d : d \in ToSet(FlattenSeq(ss)) <=> \E i \in 1 .. n : d \in ToSet(ss[i])
    BY <1>5, FlattenProperties
  <2>2. \A i \in 1 .. n : \A d : d \in ToSet(ss[i]) <=> \E j \in i + 1 .. n : J(i, j) /\ d = c(i, j)
    BY <1>4
  <2>3. \A i \in 1 .. n : \A j : j \in i + 1 .. n <=> j \in 1 .. n /\ i < j
    BY <1>1
  <2> QED BY <2>1, <2>2, <2>3
<1>10. ASSUME NEW i \in 1 .. n, NEW j \in 1 .. n, NEW l \in 1 .. n, i < j, j < l, J(i, j), J(i, l)
       PROVE  Before(FlattenSeq(ss), c(i, j), c(i, l))
  <2>1. j \in i + 1 .. n /\ l \in i + 1 .. n
    BY <1>1, <1>10
  <2>2. Before(ss[i], c(i, j), c(i, l))
    BY <1>4, <1>10, <2>1
  <2> QED BY <1>5, <2>2, FlattenProperties
<1> QED BY <1>1, <1>3, <1>8, <1>9, <1>10 DEF J, c

(* They are those all of whose parts are in the level.                     *)
IsCandidate(ts, d, L, k) ==
  /\ Shaped(ts, d, k + 1) /\ ~HaveIndicesIntersection(d[1], d[2])
  /\ \A x \in 1 .. k + 1 : Part(d, x) \in ToSet(L)

(* A candidate is pruned if one of its parts is missing; those of one      *)
(* column are not looked at.                                               *)
LEMMA PrunedIs ==
  ASSUME NEW ts, AreTables(ts), NEW k \in Nat \ {0}, NEW d, Shaped(ts, d, k + 1), NEW prev
  PROVE  CanPruneCandidate(d, prev) <=> k > 1 /\ \E x \in 1 .. k + 1 : Part(d, x) \notin prev
<1>1. d[1][2] \in Seq(Nat) /\ Len(d[1][2]) = k + 1
  BY DEF Shaped, IsLhs
<1>2. DOMAIN d[1][2] = 1 .. k + 1 /\ (k + 1 > 2 <=> k > 1)
  BY <1>1
<1> QED BY <1>1, <1>2 DEF CanPruneCandidate, Part

(* The candidates of a level are the dependencies between different        *)
(* columns all of whose parts are in the level (mind.cpp).                 *)
LEMMA CandidatesAreRight ==
  ASSUME NEW ts, AreTables(ts), NEW k \in Nat \ {0}, NEW L, IsLevel(ts, L, k), NEW d
  PROVE  d \in ToSet(CandidatesOf(L)) <=> IsCandidate(ts, d, L, k)
<1>1. /\ DOMAIN L = 1 .. Len(L) /\ Len(L) \in Nat
      /\ \A j \in DOMAIN L : L[j] \in ToSet(L) /\ Shaped(ts, L[j], k)
      /\ \A j, l \in DOMAIN L : L[j] = L[l] => j = l
      /\ \A p \in ToSet(L) : \E j \in DOMAIN L : L[j] = p
  BY DEF IsLevel, ToSet, IsInjective
<1>2. d \in ToSet(CandidatesOf(L))
        <=> \E i, j \in DOMAIN L : i < j /\ IsJoined(L[i], L[j], ToSet(L)) /\ d = CreateCandidate(L[i], L[j])
  BY CandidatesAre
<1>3. ASSUME NEW i \in DOMAIN L, NEW j \in DOMAIN L, IsJoined(L[i], L[j], ToSet(L)), d = CreateCandidate(L[i], L[j])
      PROVE  IsCandidate(ts, d, L, k)
  <2>1. Shaped(ts, d, k + 1) /\ Part(d, k + 1) = L[i] /\ Part(d, k) = L[j]
    BY <1>1, <1>3, CreateIs DEF IsJoined
  <2>2. ~HaveIndicesIntersection(d[1], d[2]) /\ ~CanPruneCandidate(d, ToSet(L))
    BY <1>3 DEF IsJoined
  <2>3. ASSUME NEW x \in 1 .. k + 1 PROVE Part(d, x) \in ToSet(L)
    <3>1. CASE k > 1
      BY <2>1, <2>2, <3>1, PrunedIs
    <3>2. CASE ~(k > 1)
      <4>1. x = k \/ x = k + 1
        BY <3>2
      <4> QED BY <1>1, <2>1, <4>1
    <3> QED BY <3>1, <3>2
  <2> QED BY <2>1, <2>2, <2>3 DEF IsCandidate
<1>4. ASSUME IsCandidate(ts, d, L, k)
      PROVE  \E i, j \in DOMAIN L : i < j /\ IsJoined(L[i], L[j], ToSet(L)) /\ d = CreateCandidate(L[i], L[j])
  <2> DEFINE p == Part(d, k + 1)
             q == Part(d, k)
  <2>1. Shaped(ts, d, k + 1) /\ Joins(p, q) /\ CreateCandidate(p, q) = d
    BY <1>4, DecomposeIs DEF IsCandidate
  <2>2. p \in ToSet(L) /\ q \in ToSet(L)
    BY <1>4 DEF IsCandidate
  <2> HIDE DEF p, q
  <2>3. Before(L, p, q)
    BY <2>1, <2>2 DEF IsLevel, Joins
  <2>4. PICK i, j \in DOMAIN L : i < j /\ L[i] = p /\ L[j] = q
    BY <2>3 DEF Before
  <2>5. ~CanPruneCandidate(d, ToSet(L))
    BY <1>4, <2>1, PrunedIs DEF IsCandidate
  <2>6. IsJoined(L[i], L[j], ToSet(L))
    BY <1>4, <2>1, <2>4, <2>5 DEF IsJoined, IsCandidate
  <2> QED BY <2>1, <2>4, <2>6
<1> QED BY <1>2, <1>3, <1>4

(* The columns but the last are those without the last.                    *)
LEMMA FrontIsPart ==
  ASSUME NEW S, NEW s \in Seq(S), NEW k \in Nat, Len(s) = k + 1
  PROVE  Front(s) = RemoveAt(s, k + 1)
<1>1. s # <<>> /\ k + 1 \in 1 .. Len(s) /\ Len(s) - 1 = k
  OBVIOUS
<1>2. Front(s) \in Seq(S) /\ Len(Front(s)) = k /\ \A x \in 1 .. k : Front(s)[x] = s[x]
  BY <1>1, FrontIs
<1>3. /\ RemoveAt(s, k + 1) \in Seq(S) /\ Len(RemoveAt(s, k + 1)) = k
      /\ \A x \in 1 .. k : RemoveAt(s, k + 1)[x] = s[x]
  <2>1. /\ RemoveAt(s, k + 1) \in Seq(S) /\ Len(RemoveAt(s, k + 1)) = k
        /\ \A x \in 1 .. k : RemoveAt(s, k + 1)[x] = IF x < k + 1 THEN s[x] ELSE s[x + 1]
    BY <1>1, RemoveAtIs
  <2> QED BY <2>1
<1>4. \A x \in 1 .. Len(Front(s)) : Front(s)[x] = RemoveAt(s, k + 1)[x]
  BY <1>2, <1>3
<1>5. Len(Front(s)) = Len(RemoveAt(s, k + 1))
  BY <1>2, <1>3
<1> HIDE DEF Front, RemoveAt
<1> QED BY <1>2, <1>3, <1>4, <1>5, SameSeq

(* The candidates come in the order the next level needs.                  *)
LEMMA CandidatesAreInOrder ==
  ASSUME NEW ts, AreTables(ts), NEW k \in Nat \ {0}, NEW L, IsLevel(ts, L, k),
         NEW d \in ToSet(CandidatesOf(L)), NEW e \in ToSet(CandidatesOf(L)),
         StartsWith(d, e), LastColumn(d[1]) < LastColumn(e[1])
  PROVE  Before(CandidatesOf(L), d, e)
<1>1. /\ DOMAIN L = 1 .. Len(L) /\ Len(L) \in Nat
      /\ \A j \in DOMAIN L : L[j] \in ToSet(L) /\ Shaped(ts, L[j], k)
      /\ \A j, l \in DOMAIN L : L[j] = L[l] => j = l
  BY DEF IsLevel, ToSet, IsInjective
<1>2. PICK i, j \in DOMAIN L : i < j /\ IsJoined(L[i], L[j], ToSet(L)) /\ d = CreateCandidate(L[i], L[j])
  BY CandidatesAre
<1>3. PICK m, l \in DOMAIN L : m < l /\ IsJoined(L[m], L[l], ToSet(L)) /\ e = CreateCandidate(L[m], L[l])
  BY CandidatesAre
<1>4. /\ Shaped(ts, d, k + 1) /\ Part(d, k + 1) = L[i] /\ Part(d, k) = L[j] /\ Joins(L[i], L[j])
      /\ Shaped(ts, e, k + 1) /\ Part(e, k + 1) = L[m] /\ Part(e, k) = L[l] /\ Joins(L[m], L[l])
  BY <1>1, <1>2, <1>3, CreateIs DEF IsJoined
<1>5. L[i] = L[m]
  <2>1. /\ d[1][2] \in Seq(Nat) /\ Len(d[1][2]) = k + 1 /\ d[2][2] \in Seq(Nat) /\ Len(d[2][2]) = k + 1
        /\ e[1][2] \in Seq(Nat) /\ Len(e[1][2]) = k + 1 /\ e[2][2] \in Seq(Nat) /\ Len(e[2][2]) = k + 1
    BY <1>4 DEF Shaped, IsLhs, IsRhs
  <2>2. /\ Front(d[1][2]) = RemoveAt(d[1][2], k + 1) /\ Front(d[2][2]) = RemoveAt(d[2][2], k + 1)
        /\ Front(e[1][2]) = RemoveAt(e[1][2], k + 1) /\ Front(e[2][2]) = RemoveAt(e[2][2], k + 1)
    BY <2>1, FrontIsPart
  <2>3. d[1][1] = e[1][1] /\ d[2][1] = e[2][1] /\ Front(d[1][2]) = Front(e[1][2]) /\ Front(d[2][2]) = Front(e[2][2])
    BY DEF StartsWith
  <2>4. Part(d, k + 1) = Part(e, k + 1)
    BY <2>2, <2>3 DEF Part, WithoutIndex
  <2> QED BY <1>4, <2>4
<1>6. i = m
  BY <1>1, <1>5
<1>7. StartsWith(L[j], L[l])
  BY <1>4, <1>5 DEF Joins, StartsWith
<1>8. LastColumn(d[1]) = LastColumn(L[j][1]) /\ LastColumn(e[1]) = LastColumn(L[l][1])
  <2>1. ASSUME NEW f, Shaped(ts, f, k + 1) PROVE LastColumn(f[1]) = LastColumn(Part(f, k)[1])
    <3>1. f[1][2] \in Seq(Nat) /\ Len(f[1][2]) = k + 1
      BY <2>1 DEF Shaped, IsLhs
    <3>2. Last(RemoveAt(f[1][2], k)) = f[1][2][k + 1]
      BY <3>1, SplitIs
    <3> QED BY <3>1, <3>2 DEF LastColumn, Part, WithoutIndex, Last
  <2> QED BY <1>4, <2>1
<1>9. Before(L, L[j], L[l])
  BY <1>1, <1>7, <1>8 DEF IsLevel
<1>10. j < l
  BY <1>1, <1>9 DEF Before
<1> QED BY <1>2, <1>3, <1>6, <1>10, CandidatesAre

(* Testing keeps them so.                                                  *)
LEMMA HoldingIs ==
  ASSUME NEW S, NEW C \in Seq(S), IsInjective(C), NEW ts, NEW max_error
  PROVE  /\ Holding(ts, C, max_error) \in Seq(S) /\ IsInjective(Holding(ts, C, max_error))
         /\ \A d : d \in ToSet(Holding(ts, C, max_error)) <=> d \in ToSet(C) /\ Holds(ts, d, max_error)
         /\ \A d, e : Before(C, d, e) /\ Holds(ts, d, max_error) /\ Holds(ts, e, max_error)
                        => Before(Holding(ts, C, max_error), d, e)
<1> DEFINE ss == [i \in DOMAIN C |-> IF Holds(ts, C[i], max_error) THEN <<C[i]>> ELSE <<>>]
<1>1. DOMAIN C = 1 .. Len(C) /\ Len(C) \in Nat /\ \A i \in DOMAIN C : C[i] \in S
  OBVIOUS
<1>2. \A i, j \in DOMAIN C : C[i] = C[j] => i = j
  BY DEF IsInjective
<1>3. \A i \in DOMAIN C : ss[i] = IF Holds(ts, C[i], max_error) THEN <<C[i]>> ELSE <<>>
  OBVIOUS
<1>4. Holding(ts, C, max_error) = FlattenSeq(ss)
  BY DEF Holding
<1>5. DOMAIN ss = DOMAIN C /\ ss = [i \in 1 .. Len(C) |-> ss[i]]
  BY <1>1
<1> HIDE DEF ss
<1>6. ASSUME NEW i \in DOMAIN C
      PROVE  /\ ss[i] \in Seq(S) /\ IsInjective(ss[i])
             /\ \A d : d \in ToSet(ss[i]) <=> Holds(ts, C[i], max_error) /\ d = C[i]
  <2>1. CASE Holds(ts, C[i], max_error)
    <3>1. ss[i] = <<C[i]>> /\ C[i] \in S
      BY <1>1, <1>3, <2>1
    <3> QED BY <2>1, <3>1 DEF IsInjective, ToSet
  <2>2. CASE ~Holds(ts, C[i], max_error)
    <3>1. ss[i] = <<>>
      BY <1>3, <2>2
    <3> QED BY <2>2, <3>1 DEF IsInjective, ToSet
  <2> QED BY <2>1, <2>2
<1>7. ss \in Seq(Seq(S))
  BY <1>1, <1>5, <1>6
<1>8. \A i, j \in DOMAIN ss : i # j => ToSet(ss[i]) \cap ToSet(ss[j]) = {}
  <2> SUFFICES ASSUME NEW i \in DOMAIN C, NEW j \in DOMAIN C, NEW d, d \in ToSet(ss[i]), d \in ToSet(ss[j])
               PROVE  i = j
    BY <1>5
  <2>1. C[i] = d /\ C[j] = d
    BY <1>6
  <2> QED BY <1>2, <2>1
<1>9. FlattenSeq(ss) \in Seq(S) /\ IsInjective(FlattenSeq(ss))
  <2>1. \A i \in DOMAIN ss : IsInjective(ss[i])
    BY <1>5, <1>6
  <2> QED BY <1>7, <1>8, <2>1, FlattenProperties
<1>10. \A d : d \in ToSet(FlattenSeq(ss)) <=> d \in ToSet(C) /\ Holds(ts, d, max_error)
  <2>1. \A d : d \in ToSet(FlattenSeq(ss)) <=> \E i \in DOMAIN C : d \in ToSet(ss[i])
    BY <1>5, <1>7, FlattenProperties
  <2>2. \A d : d \in ToSet(C) <=> \E i \in DOMAIN C : d = C[i]
    BY DEF ToSet
  <2>3. \A i \in DOMAIN C : \A d : d \in ToSet(ss[i]) <=> Holds(ts, C[i], max_error) /\ d = C[i]
    BY <1>6
  <2>4. \A d : d \in ToSet(FlattenSeq(ss)) <=> \E i \in DOMAIN C : Holds(ts, C[i], max_error) /\ d = C[i]
    BY <2>1, <2>3, Zenon
  <2> QED BY <2>2, <2>4, Zenon
<1>11. ASSUME NEW d, NEW e, Before(C, d, e), Holds(ts, d, max_error), Holds(ts, e, max_error)
       PROVE  Before(FlattenSeq(ss), d, e)
  <2>1. PICK i, j \in DOMAIN C : i < j /\ C[i] = d /\ C[j] = e
    BY <1>11 DEF Before
  <2>2. d \in ToSet(ss[i]) /\ e \in ToSet(ss[j])
    BY <1>6, <1>11, <2>1
  <2> QED BY <1>5, <1>7, <2>1, <2>2, FlattenProperties
<1> QED BY <1>4, <1>9, <1>10, <1>11

(* The candidates that hold are the next level.                            *)
LEMMA NextIsLevel ==
  ASSUME NEW ts, AreTables(ts), NEW k \in Nat \ {0}, NEW L, IsLevel(ts, L, k), NEW max_error,
         NEW H, H = Holding(ts, CandidatesOf(L), max_error)
  PROVE  /\ IsLevel(ts, H, k + 1)
         /\ \A d : d \in ToSet(H) <=> IsCandidate(ts, d, L, k) /\ Holds(ts, d, max_error)
<1>1. CandidatesOf(L) \in Seq(Deps(ts)) /\ IsInjective(CandidatesOf(L))
  BY CandidatesAre
<1>2. \A d : d \in ToSet(CandidatesOf(L)) <=> IsCandidate(ts, d, L, k)
  BY CandidatesAreRight
<1>3. /\ H \in Seq(Deps(ts)) /\ IsInjective(H)
      /\ \A d : d \in ToSet(H) <=> d \in ToSet(CandidatesOf(L)) /\ Holds(ts, d, max_error)
      /\ \A d, e : Before(CandidatesOf(L), d, e) /\ Holds(ts, d, max_error) /\ Holds(ts, e, max_error) => Before(H, d, e)
  BY <1>1, HoldingIs
<1>4. \A p, q \in ToSet(H) : StartsWith(p, q) /\ LastColumn(p[1]) < LastColumn(q[1]) => Before(H, p, q)
  BY <1>3, CandidatesAreInOrder
<1>5. \A d \in ToSet(H) : Shaped(ts, d, k + 1)
  BY <1>2, <1>3 DEF IsCandidate
<1> QED BY <1>2, <1>3, <1>4, <1>5 DEF IsLevel

(* The order in which Spider registers what it finds.                      *)
ColumnPlaces == Nat \X Nat
Comes(d, e) == Precedes(d[1], e[1]) \/ (d[1] = e[1] /\ Precedes(d[2], e[2]))

(* It is a total order.                                                    *)
LEMMA ComesIsAnOrder ==
  /\ \A d \in ColumnPlaces \X ColumnPlaces : ~Comes(d, d)
  /\ \A d, e, f \in ColumnPlaces \X ColumnPlaces : Comes(d, e) /\ Comes(e, f) => Comes(d, f)
  /\ \A d, e \in ColumnPlaces \X ColumnPlaces : d # e => Comes(d, e) \/ Comes(e, d)
<1>1. \A d \in ColumnPlaces \X ColumnPlaces : d[1] \in ColumnPlaces /\ d[2] \in ColumnPlaces /\ d = <<d[1], d[2]>>
  OBVIOUS
<1>2. \A a \in ColumnPlaces : a[1] \in Nat /\ a[2] \in Nat /\ a = <<a[1], a[2]>>
  BY DEF ColumnPlaces
<1>3. \A a \in ColumnPlaces : ~Precedes(a, a)
  BY <1>2 DEF Precedes
<1>4. \A a, b, c \in ColumnPlaces : Precedes(a, b) /\ Precedes(b, c) => Precedes(a, c)
  BY <1>2 DEF Precedes
<1>5. \A a, b \in ColumnPlaces : a # b => Precedes(a, b) \/ Precedes(b, a)
  <2> SUFFICES ASSUME NEW a \in ColumnPlaces, NEW b \in ColumnPlaces, ~Precedes(a, b), ~Precedes(b, a) PROVE a = b
    OBVIOUS
  <2>1. a[1] = b[1] /\ a[2] = b[2]
    BY <1>2 DEF Precedes
  <2> QED BY <1>2, <2>1
<1>6. \A d \in ColumnPlaces \X ColumnPlaces : ~Comes(d, d)
  BY <1>1, <1>3 DEF Comes
<1>7. \A d, e, f \in ColumnPlaces \X ColumnPlaces : Comes(d, e) /\ Comes(e, f) => Comes(d, f)
  <2> SUFFICES ASSUME NEW d \in ColumnPlaces \X ColumnPlaces, NEW e \in ColumnPlaces \X ColumnPlaces,
                      NEW f \in ColumnPlaces \X ColumnPlaces,
                      Comes(d, e), Comes(e, f)
               PROVE  Comes(d, f)
    OBVIOUS
  <2>1. /\ d[1] \in ColumnPlaces /\ d[2] \in ColumnPlaces /\ e[1] \in ColumnPlaces /\ e[2] \in ColumnPlaces
        /\ f[1] \in ColumnPlaces /\ f[2] \in ColumnPlaces
    BY <1>1
  <2> HIDE DEF ColumnPlaces
  <2> QED BY <1>4, <2>1 DEF Comes
<1>8. \A d, e \in ColumnPlaces \X ColumnPlaces : d # e => Comes(d, e) \/ Comes(e, d)
  <2> SUFFICES ASSUME NEW d \in ColumnPlaces \X ColumnPlaces, NEW e \in ColumnPlaces \X ColumnPlaces,
                      ~Comes(d, e), ~Comes(e, d)
               PROVE  d = e
    OBVIOUS
  <2>1. d[1] \in ColumnPlaces /\ d[2] \in ColumnPlaces /\ e[1] \in ColumnPlaces /\ e[2] \in ColumnPlaces
    BY <1>1
  <2>2. d[1] = e[1] /\ d[2] = e[2]
    BY <1>5, <2>1 DEF Comes
  <2> QED BY <1>1, <2>2
<1> QED BY <1>6, <1>7, <1>8

(* Registered lists a set of dependencies, each once, in that order.       *)
LEMMA RegisteredIs ==
  ASSUME NEW S, IsFiniteSet(S), S \subseteq ColumnPlaces \X ColumnPlaces
  PROVE  /\ Registered(S) \in Seq(S) /\ IsInjective(Registered(S)) /\ ToSet(Registered(S)) = S
         /\ \A i, j \in DOMAIN Registered(S) : Comes(Registered(S)[i], Registered(S)[j]) => i < j
<1> DEFINE n == Cardinality(S)
           r == [d \in S |-> Cardinality(Earlier(S, d))]
           R == [i \in 1 .. n |-> CHOOSE d \in S : Cardinality(Earlier(S, d)) = i - 1]
<1>1. n \in Nat
  BY FS_CardinalityType
<1>2. \A d \in S : /\ Earlier(S, d) = {e \in S : Comes(e, d)} /\ Earlier(S, d) \in SUBSET S
                   /\ IsFiniteSet(Earlier(S, d)) /\ Cardinality(Earlier(S, d)) \in Nat
  <2>1. \A d \in S : Earlier(S, d) = {e \in S : Comes(e, d)} /\ Earlier(S, d) \in SUBSET S
    BY DEF Earlier, Comes
  <2> QED BY <2>1, FS_Subset, FS_CardinalityType
<1>3. \A d, e \in S : Comes(d, e) => r[d] < r[e]
  <2> SUFFICES ASSUME NEW d \in S, NEW e \in S, Comes(d, e) PROVE Cardinality(Earlier(S, d)) < Cardinality(Earlier(S, e))
    OBVIOUS
  <2>1. Earlier(S, d) \subseteq Earlier(S, e) /\ d \in Earlier(S, e) /\ d \notin Earlier(S, d)
    BY <1>2, ComesIsAnOrder
  <2>2. Cardinality(Earlier(S, d)) <= Cardinality(Earlier(S, e)) /\ Cardinality(Earlier(S, d)) # Cardinality(Earlier(S, e))
    BY <1>2, <2>1, FS_Subset
  <2> QED BY <1>2, <2>2
<1>4. \A d, e \in S : r[d] = r[e] => d = e
  <2> SUFFICES ASSUME NEW d \in S, NEW e \in S, r[d] = r[e], d # e PROVE FALSE
    OBVIOUS
  <2>1. Comes(d, e) \/ Comes(e, d)
    BY ComesIsAnOrder
  <2>2. r[d] \in Nat
    BY <1>2
  <2> HIDE DEF r
  <2> QED BY <1>3, <2>1, <2>2
<1>5. \A d \in S : r[d] \in 0 .. n - 1
  <2> SUFFICES ASSUME NEW d \in S PROVE Cardinality(Earlier(S, d)) \in 0 .. n - 1
    OBVIOUS
  <2>1. d \notin Earlier(S, d)
    BY <1>2, ComesIsAnOrder
  <2>2. Cardinality(Earlier(S, d)) <= n /\ Cardinality(Earlier(S, d)) # n
    BY <1>2, <2>1, FS_Subset
  <2> QED BY <1>1, <1>2, <2>2
<1>6. \A i \in 0 .. n - 1 : \E d \in S : r[d] = i
  <2>1. r \in Injection(S, 0 .. n - 1)
    <3> HIDE DEF n
    <3>1. r \in [S -> 0 .. n - 1]
      BY <1>5
    <3> HIDE DEF r
    <3> QED BY <1>4, <3>1 DEF Injection, IsInjective
  <2>2. IsFiniteSet(0 .. n - 1) /\ Cardinality(0 .. n - 1) = n
    <3> HIDE DEF n
    <3>1. 0 \in Int /\ n - 1 \in Int
      BY <1>1
    <3>2. IsFiniteSet(0 .. n - 1) /\ Cardinality(0 .. n - 1) = IF 0 > n - 1 THEN 0 ELSE (n - 1) - 0 + 1
      BY <3>1, FS_Interval
    <3> QED BY <1>1, <3>2
  <2>3. r \in Surjection(S, 0 .. n - 1)
    <3> HIDE DEF r
    <3> QED BY <2>1, <2>2, FS_Injection
  <2> HIDE DEF r
  <2> QED BY <2>3 DEF Surjection
<1>7. \A i \in 1 .. n : R[i] \in S /\ r[R[i]] = i - 1
  <2> SUFFICES ASSUME NEW i \in 1 .. n PROVE R[i] \in S /\ r[R[i]] = i - 1
    OBVIOUS
  <2>1. i - 1 \in 0 .. n - 1
    BY <1>1
  <2>2. PICK d \in S : Cardinality(Earlier(S, d)) = i - 1
    BY <1>6, <2>1
  <2>3. R[i] = CHOOSE e \in S : Cardinality(Earlier(S, e)) = i - 1
    OBVIOUS
  <2>4. R[i] \in S /\ Cardinality(Earlier(S, R[i])) = i - 1
    <3> HIDE DEF R
    <3> QED BY <2>2, <2>3
  <2> QED BY <2>4
<1>8. Registered(S) = R
  <2>1. R = [i \in 1 .. n |-> R[i]]
    OBVIOUS
  <2>2. R \in Seq(S) /\ Len(R) = n
    <3>1. \A i \in 1 .. n : R[i] \in S
      BY <1>7
    <3> HIDE DEF R, n
    <3> QED BY <1>1, <2>1, <3>1
  <2>3. Registered(S) = AsTuple(R)
    BY DEF Registered
  <2> HIDE DEF R
  <2>4. SubSeq(R, 1, Len(R)) = R
    BY <2>2
  <2> QED BY <2>3, <2>4 DEF AsTuple
<1>9. R \in Seq(S) /\ DOMAIN R = 1 .. n
  <2>1. R = [i \in 1 .. n |-> R[i]] /\ DOMAIN R = 1 .. n
    OBVIOUS
  <2>2. \A i \in 1 .. n : R[i] \in S
    BY <1>7
  <2> HIDE DEF R, n
  <2> QED BY <1>1, <2>1, <2>2
<1> HIDE DEF r, R, n
<1>10. \A i, j \in 1 .. n : R[i] = R[j] => i = j
  <2> SUFFICES ASSUME NEW i \in 1 .. n, NEW j \in 1 .. n, R[i] = R[j] PROVE i = j
    OBVIOUS
  <2>1. i - 1 = j - 1
    BY <1>7
  <2> QED BY <2>1
<1>11. \A d \in S : \E i \in 1 .. n : R[i] = d
  <2> SUFFICES ASSUME NEW d \in S PROVE \E i \in 1 .. n : R[i] = d
    OBVIOUS
  <2>1. r[d] + 1 \in 1 .. n /\ (r[d] + 1) - 1 = r[d]
    BY <1>1, <1>5
  <2>2. R[r[d] + 1] \in S /\ r[R[r[d] + 1]] = r[d]
    BY <1>7, <2>1
  <2>3. R[r[d] + 1] = d
    BY <1>4, <2>2
  <2> QED BY <2>1, <2>3
<1>12. \A i, j \in 1 .. n : Comes(R[i], R[j]) => i < j
  <2> SUFFICES ASSUME NEW i \in 1 .. n, NEW j \in 1 .. n, Comes(R[i], R[j]) PROVE i < j
    OBVIOUS
  <2>1. i - 1 < j - 1
    BY <1>3, <1>7
  <2> QED BY <2>1
<1> QED BY <1>7, <1>8, <1>9, <1>10, <1>11, <1>12 DEF IsInjective, ToSet

(* The first level: what Spider found, as dependencies of a column.        *)
AsDep(e) == << <<e[1][1], <<e[1][2]>>>>, <<e[2][1], <<e[2][2]>>>> >>

(* What the columns of the tables are.                                     *)
LEMMA ColumnsAre ==
  ASSUME NEW ts, AreTables(ts), NEW a
  PROVE  a \in ColumnsOf(ts) <=> a = <<a[1], a[2]>> /\ a[1] \in DOMAIN ts /\ a[2] \in 1 .. Len(ts[a[1]][1])
<1>1. \A i \in DOMAIN ts : DOMAIN ts[i][1] = 1 .. Len(ts[i][1])
  <2> SUFFICES ASSUME NEW i \in DOMAIN ts PROVE DOMAIN ts[i][1] = 1 .. Len(ts[i][1])
    OBVIOUS
  <2>1. ts[i] \in Seq(Seq(Nat)) /\ ts[i] # <<>>
    BY DEF AreTables
  <2>2. ts[i][1] \in Seq(Nat)
    BY <2>1
  <2> QED BY <2>2
<1>2. a \in ColumnsOf(ts) <=> \E i \in DOMAIN ts : \E c \in DOMAIN ts[i][1] : a = <<i, c>>
  BY DEF ColumnsOf
<1> QED BY <1>1, <1>2

(* What Spider found is, in the order it is registered in, a level.        *)
LEMMA UnaryIsLevel ==
  ASSUME NEW ts, AreTables(ts), NEW U, IsFiniteSet(U), U \subseteq ColumnsOf(ts) \X ColumnsOf(ts)
  PROVE  /\ IsLevel(ts, Unary(Registered(U)), 1)
         /\ ToSet(Unary(Registered(U))) = {AsDep(e) : e \in U}
<1> DEFINE R == Registered(U)
           L == [i \in DOMAIN R |-> AsDep(R[i])]
<1>1. \A a \in ColumnsOf(ts) : /\ a = <<a[1], a[2]>> /\ a[1] \in DOMAIN ts /\ a[2] \in 1 .. Len(ts[a[1]][1])
                               /\ a \in ColumnPlaces
  <2> SUFFICES ASSUME NEW a \in ColumnsOf(ts)
               PROVE  a = <<a[1], a[2]>> /\ a[1] \in DOMAIN ts /\ a[2] \in 1 .. Len(ts[a[1]][1]) /\ a \in ColumnPlaces
    OBVIOUS
  <2>1. a = <<a[1], a[2]>> /\ a[1] \in DOMAIN ts /\ a[2] \in 1 .. Len(ts[a[1]][1])
    BY ColumnsAre
  <2>2. a[1] \in Nat
    BY <2>1 DEF AreTables
  <2>3. a[2] \in Nat
    BY <2>1, WidthsAre
  <2> QED BY <2>1, <2>2, <2>3 DEF ColumnPlaces
<1>2. U \subseteq ColumnPlaces \X ColumnPlaces
  BY <1>1
<1>3. /\ R \in Seq(U) /\ IsInjective(R) /\ ToSet(R) = U
      /\ \A i, j \in DOMAIN R : Comes(R[i], R[j]) => i < j
  BY <1>2, RegisteredIs
<1> HIDE DEF R
<1>4. DOMAIN R = 1 .. Len(R) /\ Len(R) \in Nat /\ \A i \in DOMAIN R : R[i] \in U
  BY <1>3
<1>5. ASSUME NEW e \in U PROVE AsDep(e) \in Deps(ts) /\ Shaped(ts, AsDep(e), 1)
  <2>1. /\ e[1] \in ColumnsOf(ts) /\ e[2] \in ColumnsOf(ts)
    OBVIOUS
  <2>2. /\ e[1][1] \in DOMAIN ts /\ e[1][2] \in 1 .. Len(ts[e[1][1]][1])
        /\ e[2][1] \in DOMAIN ts /\ e[2][2] \in 1 .. Len(ts[e[2][1]][1])
    BY <1>1, <2>1
  <2>3. ASSUME NEW n \in Nat, NEW c \in 1 .. n PROVE IsLhs(<<c>>, 1, n) /\ IsRhs(<<c>>, 1, n)
    BY DEF IsLhs, IsRhs
  <2>4. Len(ts[e[1][1]][1]) \in Nat /\ Len(ts[e[2][1]][1]) \in Nat
    BY <2>2, WidthsAre
  <2>5. Shaped(ts, AsDep(e), 1)
    BY <2>2, <2>3, <2>4 DEF Shaped, AsDep
  <2> QED BY <2>5, ShapedIsDep
<1>6. \A e, f \in U : AsDep(e) = AsDep(f) => e = f
  <2> SUFFICES ASSUME NEW e \in U, NEW f \in U, AsDep(e) = AsDep(f) PROVE e = f
    OBVIOUS
  <2>1. e[1][1] = f[1][1] /\ e[2][1] = f[2][1] /\ <<e[1][2]>> = <<f[1][2]>> /\ <<e[2][2]>> = <<f[2][2]>>
    BY DEF AsDep
  <2>2. e[1][2] = f[1][2] /\ e[2][2] = f[2][2]
    BY <2>1
  <2>3. e[1] = f[1] /\ e[2] = f[2]
    BY <1>1, <2>1, <2>2
  <2> QED BY <2>3
<1>7. \A i \in DOMAIN R : L[i] = AsDep(R[i])
  OBVIOUS
<1>8. L = [i \in 1 .. Len(R) |-> L[i]] /\ DOMAIN L = DOMAIN R
  BY <1>4
<1>9. Unary(R) = AsTuple(L)
  BY DEF Unary, AsDep
<1> HIDE DEF L
<1>10. L \in Seq(Deps(ts))
  BY <1>4, <1>5, <1>7, <1>8
<1>11. Unary(R) = L
  <2>1. SubSeq(L, 1, Len(L)) = L
    BY <1>10
  <2> QED BY <1>9, <2>1 DEF AsTuple
<1>12. IsInjective(L)
  <2> SUFFICES ASSUME NEW i \in DOMAIN R, NEW j \in DOMAIN R, L[i] = L[j] PROVE i = j
    BY <1>8 DEF IsInjective
  <2>1. R[i] = R[j]
    BY <1>4, <1>6, <1>7
  <2> QED BY <1>3, <2>1 DEF IsInjective
<1>13. ToSet(L) = {AsDep(e) : e \in U}
  BY <1>3, <1>7, <1>8 DEF ToSet
<1>14. \A d \in ToSet(L) : Shaped(ts, d, 1)
  BY <1>5, <1>13
<1>15. ASSUME NEW p \in ToSet(L), NEW q \in ToSet(L), StartsWith(p, q), LastColumn(p[1]) < LastColumn(q[1])
       PROVE  Before(L, p, q)
  <2>1. PICK i, j \in DOMAIN R : p = AsDep(R[i]) /\ q = AsDep(R[j]) /\ p = L[i] /\ q = L[j]
    BY <1>7, <1>8 DEF ToSet
  <2>2. R[i][1][1] = R[j][1][1]
    BY <1>15, <2>1 DEF StartsWith, AsDep
  <2>3. ASSUME NEW e PROVE LastColumn(AsDep(e)[1]) = e[1][2]
    BY DEF LastColumn, Last, AsDep
  <2>4. R[i][1][2] < R[j][1][2]
    BY <1>15, <2>1, <2>3
  <2>5. Comes(R[i], R[j])
    BY <2>2, <2>4 DEF Comes, Precedes
  <2> QED BY <1>3, <1>8, <2>1, <2>5 DEF Before
<1> QED BY <1>10, <1>11, <1>12, <1>13, <1>14, <1>15 DEF IsLevel, R

(* Ascending columns are at most as many as there are.                     *)
LEMMA LhsIsBounded ==
  ASSUME NEW s, NEW k \in Nat, NEW n \in Nat, IsLhs(s, k, n)
  PROVE  k <= n
<1> DEFINE P == {x \in Nat : x + 1 <= k => x + 1 <= s[x + 1]}
<1>1. \A x \in 1 .. k : s[x] \in 1 .. n /\ s[x] \in Nat
  BY DEF IsLhs
<1>2. 0 \in P
  BY <1>1
<1>3. ASSUME NEW x \in Nat, x \in P PROVE x + 1 \in P
  <2> SUFFICES ASSUME x + 2 <= k PROVE x + 2 <= s[x + 2]
    OBVIOUS
  <2>1. x + 1 \in 1 .. k /\ x + 2 \in 1 .. k /\ x + 1 < x + 2
    OBVIOUS
  <2>2. s[x + 1] < s[x + 2]
    BY <2>1 DEF IsLhs
  <2>3. x + 1 <= s[x + 1]
    BY <1>3, <2>1
  <2> QED BY <1>1, <2>1, <2>2, <2>3
<1>4. \A x \in Nat : x \in P
  <2> HIDE DEF P
  <2> QED BY <1>2, <1>3, CountingUp
<1>5. CASE k = 0
  BY <1>5
<1>6. CASE k # 0
  <2>1. k - 1 \in Nat /\ (k - 1) + 1 = k /\ k \in 1 .. k
    BY <1>6
  <2>2. k - 1 \in P
    <3> HIDE DEF P
    <3> QED BY <1>4, <2>1
  <2>3. k <= s[k]
    BY <2>1, <2>2
  <2> QED BY <1>1, <2>1, <2>3
<1> QED BY <1>5, <1>6

(* The candidates of the definition are those of two or more columns.      *)
LEMMA WideIs ==
  ASSUME NEW ts, AreTables(ts), NEW d
  PROVE  d \in WideInds(ts) <=> \E k \in Nat \ {0, 1} : Shaped(ts, d, k)
<1> DEFINE W(i) == Len(ts[i][1])
<1>1. \A i \in DOMAIN ts : W(i) \in Nat
  BY WidthsAre
<1> HIDE DEF W
<1>2. ASSUME NEW n \in Nat, NEW s
      PROVE  s \in AscendingSeqs(n) <=> \E k \in Nat \ {0, 1} : IsLhs(s, k, n)
  <2>1. ASSUME s \in AscendingSeqs(n) PROVE \E k \in Nat \ {0, 1} : IsLhs(s, k, n)
    <3>1. PICK k \in 2 .. n : s \in [1 .. k -> 1 .. n] /\ \A i, j \in DOMAIN s : i < j => s[i] < s[j]
      BY <2>1 DEF AscendingSeqs
    <3>2. k \in Nat \ {0, 1} /\ s \in Seq(Nat) /\ Len(s) = k /\ DOMAIN s = 1 .. k
      BY <3>1
    <3>3. \A x \in 1 .. k : s[x] \in 1 .. n
      BY <3>1
    <3> QED BY <3>1, <3>2, <3>3 DEF IsLhs
  <2>2. ASSUME NEW k \in Nat \ {0, 1}, IsLhs(s, k, n) PROVE s \in AscendingSeqs(n)
    <3>1. k <= n /\ k \in 2 .. n
      BY <2>2, LhsIsBounded
    <3>2. s \in Seq(Nat) /\ Len(s) = k /\ \A x \in 1 .. k : s[x] \in 1 .. n
      BY <2>2 DEF IsLhs
    <3>3. s \in [1 .. k -> 1 .. n] /\ DOMAIN s = 1 .. k
      BY <3>2
    <3>4. \A i, j \in DOMAIN s : i < j => s[i] < s[j]
      BY <2>2, <3>3 DEF IsLhs
    <3> QED BY <3>1, <3>3, <3>4 DEF AscendingSeqs
  <2> QED BY <2>1, <2>2
<1>3. ASSUME NEW n \in Nat, NEW k \in Nat, NEW u
      PROVE  u \in InjectiveSeqs(n, k) <=> IsRhs(u, k, n)
  <2>1. ASSUME u \in InjectiveSeqs(n, k) PROVE IsRhs(u, k, n)
    <3>1. u \in [1 .. k -> 1 .. n] /\ \A x, y \in DOMAIN u : u[x] = u[y] => x = y
      BY <2>1 DEF InjectiveSeqs, IsInjective
    <3>2. u \in Seq(Nat) /\ Len(u) = k /\ DOMAIN u = 1 .. k
      BY <3>1
    <3> QED BY <3>1, <3>2 DEF IsRhs
  <2>2. ASSUME IsRhs(u, k, n) PROVE u \in InjectiveSeqs(n, k)
    <3>1. u \in Seq(Nat) /\ Len(u) = k /\ \A x \in 1 .. k : u[x] \in 1 .. n
      BY <2>2 DEF IsRhs
    <3>2. u \in [1 .. k -> 1 .. n] /\ DOMAIN u = 1 .. k
      BY <3>1
    <3> QED BY <2>2, <3>2 DEF IsRhs, InjectiveSeqs, IsInjective
  <2> QED BY <2>1, <2>2
<1>4. d \in WideInds(ts)
        <=> \E i, j \in DOMAIN ts : \E s \in AscendingSeqs(W(i)) : \E u \in InjectiveSeqs(W(j), Len(s)) :
              d = << <<i, s>>, <<j, u>> >>
  <2>1. d \in WideInds(ts)
          <=> \E i, j \in DOMAIN ts : \E lhs \in {i} \X AscendingSeqs(W(i)) : \E u \in InjectiveSeqs(W(j), Len(lhs[2])) :
                d = <<lhs, <<j, u>>>>
    <3> DEFINE In(i, j) == UNION {{<<lhs, <<j, u>>>> : u \in InjectiveSeqs(Len(ts[j][1]), Len(lhs[2]))}
                                    : lhs \in {i} \X AscendingSeqs(Len(ts[i][1]))}
    <3>1. WideInds(ts) = UNION {In(i, j) : i, j \in DOMAIN ts}
      BY DEF WideInds
    <3>2. ASSUME NEW i \in DOMAIN ts, NEW j \in DOMAIN ts
          PROVE  d \in In(i, j) <=> \E lhs \in {i} \X AscendingSeqs(W(i)) : \E u \in InjectiveSeqs(W(j), Len(lhs[2])) :
                                     d = <<lhs, <<j, u>>>>
      BY DEF W
    <3> HIDE DEF In
    <3> QED BY <3>1, <3>2
  <2>2. ASSUME NEW i \in DOMAIN ts, NEW j \in DOMAIN ts
        PROVE  (\E lhs \in {i} \X AscendingSeqs(W(i)) : \E u \in InjectiveSeqs(W(j), Len(lhs[2])) : d = <<lhs, <<j, u>>>>)
               <=> \E s \in AscendingSeqs(W(i)) : \E u \in InjectiveSeqs(W(j), Len(s)) : d = << <<i, s>>, <<j, u>> >>
    <3>1. ASSUME NEW lhs \in {i} \X AscendingSeqs(W(i)) PROVE lhs = <<i, lhs[2]>> /\ lhs[2] \in AscendingSeqs(W(i))
      OBVIOUS
    <3>2. ASSUME NEW s \in AscendingSeqs(W(i)) PROVE <<i, s>> \in {i} \X AscendingSeqs(W(i)) /\ <<i, s>>[2] = s
      OBVIOUS
    <3> QED BY <3>1, <3>2
  <2> QED BY <2>1, <2>2
<1>5. ASSUME d \in WideInds(ts) PROVE \E k \in Nat \ {0, 1} : Shaped(ts, d, k)
  <2>a. PICK i \in DOMAIN ts, j \in DOMAIN ts : \E s \in AscendingSeqs(W(i)) : \E u \in InjectiveSeqs(W(j), Len(s)) :
          d = << <<i, s>>, <<j, u>> >>
    BY <1>4, <1>5
  <2>b. PICK s \in AscendingSeqs(W(i)) : \E u \in InjectiveSeqs(W(j), Len(s)) : d = << <<i, s>>, <<j, u>> >>
    BY <2>a
  <2>1. PICK u \in InjectiveSeqs(W(j), Len(s)) : d = << <<i, s>>, <<j, u>> >>
    BY <2>b
  <2>2. PICK k \in Nat \ {0, 1} : IsLhs(s, k, W(i))
    BY <1>1, <1>2, <2>1
  <2>3. Len(s) = k
    BY <2>2 DEF IsLhs
  <2>4. IsRhs(u, k, W(j))
    BY <1>1, <1>3, <2>1, <2>3
  <2> QED BY <2>1, <2>2, <2>4 DEF Shaped, W
<1>6. ASSUME NEW k \in Nat \ {0, 1}, Shaped(ts, d, k) PROVE d \in WideInds(ts)
  <2> DEFINE i == d[1][1]
             j == d[2][1]
             s == d[1][2]
             u == d[2][2]
  <2>1. i \in DOMAIN ts /\ j \in DOMAIN ts /\ IsLhs(s, k, W(i)) /\ IsRhs(u, k, W(j)) /\ d = << <<i, s>>, <<j, u>> >>
    BY <1>6 DEF Shaped, W
  <2> HIDE DEF i, j, s, u
  <2>2. s \in AscendingSeqs(W(i)) /\ Len(s) = k
    BY <1>1, <1>2, <2>1 DEF IsLhs
  <2>3. u \in InjectiveSeqs(W(j), Len(s))
    BY <1>1, <1>3, <2>1, <2>2
  <2> QED BY <1>4, <2>1, <2>2, <2>3
<1> QED BY <1>5, <1>6

-----------------------------------------------------------------------------
(* As many classes of rows as there are values in them.                    *)
LEMMA ClassesAreValues ==
  ASSUME NEW V, IsFiniteSet(V), NEW f
  PROVE  Cardinality({{s \in V : f[s] = f[r]} : r \in V}) = Cardinality({f[r] : r \in V})
<1> DEFINE X == {f[r] : r \in V}
           C == {{s \in V : f[s] = f[r]} : r \in V}
           g == [x \in X |-> {s \in V : f[s] = x}]
<1>1. IsFiniteSet(X)
  BY ImageIsFinite
<1>2. g \in [X -> C]
  OBVIOUS
<1>3. \A x, y \in X : g[x] = g[y] => x = y
  <2> SUFFICES ASSUME NEW x \in X, NEW y \in X, g[x] = g[y] PROVE x = y
    OBVIOUS
  <2>1. PICK r \in V : f[r] = x
    OBVIOUS
  <2>2. r \in g[x]
    BY <2>1
  <2>3. r \in g[y]
    BY <2>2
  <2>4. f[r] = y
    BY <2>3
  <2> QED BY <2>1, <2>4
<1>4. \A c \in C : \E x \in X : g[x] = c
  <2> SUFFICES ASSUME NEW r \in V PROVE \E x \in X : g[x] = {s \in V : f[s] = f[r]}
    OBVIOUS
  <2>1. f[r] \in X
    OBVIOUS
  <2>2. g[f[r]] = {s \in V : f[s] = f[r]}
    BY <2>1
  <2> QED BY <2>1, <2>2
<1> HIDE DEF X, C, g
<1>5. g \in Bijection(X, C)
  BY <1>2, <1>3, <1>4 DEF Bijection, Injection, Surjection, IsInjective
<1>6. ExistsBijection(X, C)
  BY <1>5 DEF ExistsBijection
<1> QED BY <1>1, <1>6, FS_Bijection DEF X, C

(* The verifier finds the error that Mind tests.                           *)
LEMMA ErrorsAgree ==
  ASSUME NEW ts, AreTables(ts), NEW d, d[1][1] \in DOMAIN ts, NEW e1 \in Nat, NEW e2 \in Nat \ {0}
  PROVE  /\ Within(VerifiedError(ts, d), <<e1, e2>>) <=> Holds(ts, d, <<e1, e2>>)
         /\ Clusters(ts, d) = {} => Projection(ts[d[1][1]], d[1][2]) \subseteq Projection(ts[d[2][1]], d[2][2])
<1> DEFINE rows == DOMAIN ts[d[1][1]]
           f == [r \in rows |-> [i \in DOMAIN d[1][2] |-> ts[d[1][1]][r][d[1][2][i]]]]
           L == Projection(ts[d[1][1]], d[1][2])
           R == Projection(ts[d[2][1]], d[2][2])
           V == {r \in rows : f[r] \notin R}
           max_error == <<e1, e2>>
<1>1. IsFiniteSet(rows)
  <2>1. ts[d[1][1]] \in Seq(Seq(Nat))
    BY DEF AreTables
  <2>2. DOMAIN ts[d[1][1]] = 1 .. Len(ts[d[1][1]]) /\ Len(ts[d[1][1]]) \in Nat
    BY <2>1
  <2>3. \A n \in Nat : IsFiniteSet(1 .. n)
    BY FS_Interval
  <2> QED BY <2>2, <2>3
<1>2. L = {f[r] : r \in rows}
  BY DEF Projection
<1>3. Clusters(ts, d) = {{s \in V : f[s] = f[r]} : r \in V}
  <2> DEFINE row(r) == [i \in DOMAIN d[1][2] |-> ts[d[1][1]][r][d[1][2][i]]]
  <2>1. Clusters(ts, d) = {{s \in {q \in rows : row(q) \notin R} : row(s) = row(r)} : r \in {q \in rows : row(q) \notin R}}
    BY Zenon DEF Clusters
  <2>2. \A r \in rows : f[r] = row(r)
    OBVIOUS
  <2> HIDE DEF row, R, rows, f
  <2>3. V = {r \in rows : row(r) \notin R}
    BY <2>2
  <2>4. \A r \in V : r \in rows
    OBVIOUS
  <2> HIDE DEF V
  <2> QED BY <2>1, <2>2, <2>3, <2>4
<1>4. VerifiedError(ts, d) = <<Cardinality(Clusters(ts, d)), Cardinality(L)>>
  BY DEF VerifiedError
<1>5. Holds(ts, d, max_error) = TestCandidate(L, R, max_error)
  BY DEF Holds
<1> HIDE DEF rows, f, L, R, max_error
<1>6. IsFiniteSet(V) /\ IsFiniteSet(L) /\ {f[r] : r \in V} = L \ R
  BY <1>1, <1>2, FS_Subset, ImageIsFinite
<1> HIDE DEF V
<1>7. Cardinality(Clusters(ts, d)) = Cardinality(L \ R)
  BY <1>3, <1>6, ClassesAreValues
<1>8. IsFiniteSet(L \ R) /\ Cardinality(L \ R) \in Nat /\ Cardinality(L) \in Nat
  BY <1>6, FS_Subset, FS_CardinalityType
<1>9. Clusters(ts, d) = {} => L \subseteq R
  <2> SUFFICES ASSUME Clusters(ts, d) = {} PROVE L \ R = {}
    OBVIOUS
  <2>1. Cardinality(L \ R) = 0
    BY <1>7, FS_EmptySet
  <2> QED BY <1>8, <2>1, FS_EmptySet
<1>10. max_error[1] = e1 /\ max_error[2] = e2
  BY DEF max_error
<1>11. CASE e1 = 0
  <2> DEFINE n == Cardinality(L \ R)
             m == Cardinality(L)
  <2>1. Within(VerifiedError(ts, d), max_error) <=> n * e2 <= 0 * m
    BY <1>4, <1>7, <1>10, <1>11 DEF Within
  <2>2. n \in Nat /\ m \in Nat
    BY <1>8
  <2>3. n = 0 <=> L \subseteq R
    BY <1>8, FS_EmptySet
  <2>4. Holds(ts, d, max_error) <=> L \subseteq R
    BY <1>5, <1>10, <1>11 DEF TestCandidate
  <2> HIDE DEF n, m
  <2>5. n * e2 <= 0 * m <=> n = 0
    <3>1. n = 0 \/ n >= 1
      BY <2>2
    <3>2. n >= 1 => n * e2 >= 1
      BY <2>2
    <3>3. n * e2 \in Nat /\ 0 * m = 0
      BY <2>2
    <3> QED BY <2>2, <3>1, <3>2, <3>3
  <2>6. Within(VerifiedError(ts, d), max_error) <=> Holds(ts, d, max_error)
    BY <2>1, <2>3, <2>4, <2>5
  <2> QED BY <1>9, <2>6 DEF max_error, L, R
<1>12. CASE e1 # 0
  <2>1. Holds(ts, d, max_error) <=> Within(<<Cardinality(L \ R), Cardinality(L)>>, max_error)
    BY <1>5, <1>10, <1>12 DEF TestCandidate
  <2>2. Within(VerifiedError(ts, d), max_error) <=> Holds(ts, d, max_error)
    BY <1>4, <1>7, <2>1
  <2> QED BY <1>9, <2>2 DEF max_error, L, R
<1> QED BY <1>11, <1>12

(* The greatest of some numbers.                                           *)
LEMMA MaxIsGreatest ==
  ASSUME NEW S, IsFiniteSet(S), S # {}, S \subseteq Nat
  PROVE  Max(S) \in S /\ \A n \in S : n <= Max(S)
<1> DEFINE P == {T \in SUBSET S : T = {} \/ \E m \in T : \A n \in T : m >= n}
<1>1. ASSUME NEW T \in SUBSET S, \A x \in T : T \ {x} \in P PROVE T \in P
  <2>1. CASE T = {}
    BY <2>1
  <2>2. CASE T # {}
    <3>1. PICK x \in T : T \ {x} \in P
      BY <1>1, <2>2
    <3>2. CASE T \ {x} = {}
      <4>1. \A n \in T : n = x
        BY <3>2
      <4> QED BY <3>1, <4>1
    <3>3. CASE T \ {x} # {}
      <4>1. PICK m \in T \ {x} : \A n \in T \ {x} : m >= n
        BY <3>1, <3>3
      <4>2. CASE x <= m
        <5>1. \A n \in T : m >= n
          BY <4>1, <4>2, <3>1
        <5> QED BY <4>1, <5>1
      <4>3. CASE ~(x <= m)
        <5>1. \A n \in T : x >= n
          BY <4>1, <4>3, <3>1
        <5> QED BY <3>1, <5>1
      <4> QED BY <4>2, <4>3
    <3> QED BY <3>2, <3>3
  <2> QED BY <2>1, <2>2
<1>2. \A T \in SUBSET S : T \in P
  <2> HIDE DEF P
  <2> QED BY <1>1, BySubsets
<1>3. \E m \in S : \A n \in S : m >= n
  BY <1>2
<1>4. Max(S) \in S /\ \A n \in S : Max(S) >= n
  BY <1>3 DEF Max
<1> QED BY <1>4

-----------------------------------------------------------------------------
(* A dependency has one arity.                                             *)
LEMMA ArityIs ==
  ASSUME NEW ts, NEW d, NEW k, NEW j, Shaped(ts, d, k), Shaped(ts, d, j)
  PROVE  k = j /\ Len(d[1][2]) = k
BY DEF Shaped, IsLhs

(* Of the dependencies of at most k columns, those of one column that      *)
(* Spider found are held, and of the others those that hold and all of     *)
(* whose parts are.                                                        *)
UpTo(ts, inds, U, max_error, k) ==
  /\ inds \subseteq Deps(ts) /\ \A d \in inds : \E j \in 1 .. k : Shaped(ts, d, j)
  /\ \A d : Shaped(ts, d, 1) => (d \in inds <=> \E e \in U : d = AsDep(e))
  /\ \A j \in 2 .. k : \A d : Shaped(ts, d, j) =>
       (d \in inds <=> /\ ~HaveIndicesIntersection(d[1], d[2]) /\ Holds(ts, d, max_error)
                       /\ \A x \in 1 .. j : Part(d, x) \in inds)
MindInv(ts, m, U, max_error, k) ==
  /\ IsLevel(ts, m.level, k) /\ UpTo(ts, m.inds, U, max_error, k)
  /\ \A d : d \in ToSet(m.level) <=> d \in m.inds /\ Shaped(ts, d, k)
MindEnds(ts, m, U, max_error, max_arity) == m.level = <<>> /\ UpTo(ts, m.inds, U, max_error, max_arity)
MindStates(ts) == [level : Seq(Deps(ts)), inds : SUBSET Deps(ts)]

(* What is right up to k columns, with none of k, is right for all.        *)
LEMMA NothingWider ==
  ASSUME NEW ts, AreTables(ts), NEW inds, NEW U, NEW max_error, NEW k \in Nat \ {0}, NEW n \in Nat, k <= n,
         UpTo(ts, inds, U, max_error, k), \A d \in inds : ~Shaped(ts, d, k)
  PROVE  UpTo(ts, inds, U, max_error, n)
<1>1. \A d \in inds : \E j \in 1 .. n : Shaped(ts, d, j)
  BY DEF UpTo
<1>2. ASSUME NEW j \in 2 .. n, NEW d, Shaped(ts, d, j), j > k
      PROVE  d \notin inds /\ \E x \in 1 .. j : Part(d, x) \notin inds
  <2>1. d \notin inds
    <3> SUFFICES ASSUME d \in inds PROVE FALSE
      OBVIOUS
    <3>1. PICK l \in 1 .. k : Shaped(ts, d, l)
      BY DEF UpTo
    <3>2. l = j
      BY <1>2, <3>1, ArityIs
    <3> QED BY <1>2, <3>1, <3>2
  <2>2. 1 \in 1 .. j
    OBVIOUS
  <2>3. Part(d, 1) \notin inds
    <3> SUFFICES ASSUME Part(d, 1) \in inds PROVE FALSE
      OBVIOUS
    <3>1. j - 1 \in Nat /\ (j - 1) + 1 = j
      OBVIOUS
    <3>2. Shaped(ts, Part(d, 1), j - 1)
      <4> DEFINE i == j - 1
      <4>1. i \in Nat /\ i + 1 = j /\ 1 \in 1 .. i + 1 /\ Shaped(ts, d, i + 1)
        BY <1>2, <2>2, <3>1
      <4> HIDE DEF i
      <4>2. Shaped(ts, Part(d, 1), i)
        BY <4>1, PartIs
      <4> QED BY <4>2 DEF i
    <3>3. PICK l \in 1 .. k : Shaped(ts, Part(d, 1), l)
      BY DEF UpTo
    <3>4. l = j - 1
      BY <3>2, <3>3, ArityIs
    <3>5. l = k
      BY <1>2, <3>1, <3>3, <3>4
    <3> QED BY <3>3, <3>5
  <2> QED BY <2>1, <2>2, <2>3
<1>3. ASSUME NEW j \in 2 .. n, NEW d, Shaped(ts, d, j)
      PROVE  d \in inds <=> /\ ~HaveIndicesIntersection(d[1], d[2]) /\ Holds(ts, d, max_error)
                            /\ \A x \in 1 .. j : Part(d, x) \in inds
  <2>1. CASE j > k
    BY <1>2, <1>3, <2>1
  <2>2. CASE ~(j > k)
    <3>1. j \in 2 .. k
      BY <2>2
    <3> QED BY <1>3, <3>1 DEF UpTo
  <2> QED BY <2>1, <2>2
<1>4. /\ inds \subseteq Deps(ts)
      /\ \A d : Shaped(ts, d, 1) => (d \in inds <=> \E e \in U : d = AsDep(e))
  BY DEF UpTo
<1> QED BY <1>1, <1>3, <1>4 DEF UpTo

(* The last of a level has its arity.                                      *)
LEMMA LastIs ==
  ASSUME NEW ts, NEW k, NEW L, IsLevel(ts, L, k), L # <<>>
  PROVE  Last(L) \in ToSet(L) /\ Len(Last(L)[1][2]) = k
<1>1. L \in Seq(Deps(ts)) /\ \A d \in ToSet(L) : Shaped(ts, d, k)
  BY DEF IsLevel
<1>2. Len(L) \in DOMAIN L
  BY <1>1
<1>3. Last(L) \in ToSet(L)
  BY <1>2 DEF Last, ToSet
<1> QED BY <1>1, <1>3 DEF Shaped, IsLhs

(* A step of Mind goes up a level or ends.                                 *)
LEMMA NextLevelPasses ==
  ASSUME NEW ts, AreTables(ts), NEW U, NEW max_error, NEW max_arity \in Nat \ {0}, NEW m \in MindStates(ts), NEW n,
         n = NextLevel(ts, m, max_error, max_arity)
  PROVE  /\ MindEnds(ts, m, U, max_error, max_arity) => n = m
         /\ \A k \in 1 .. max_arity : MindInv(ts, m, U, max_error, k) =>
              /\ n \in MindStates(ts)
              /\ \/ MindEnds(ts, n, U, max_error, max_arity)
                 \/ k + 1 <= max_arity /\ MindInv(ts, n, U, max_error, k + 1)
<1>1. m = [level |-> m.level, inds |-> m.inds] /\ m.level \in Seq(Deps(ts)) /\ m.inds \in SUBSET Deps(ts)
  BY DEF MindStates
<1>2. ASSUME MindEnds(ts, m, U, max_error, max_arity) PROVE n = m
  <2>1. n = [m EXCEPT !.level = <<>>] /\ m.level = <<>>
    BY <1>2 DEF MindEnds, NextLevel
  <2> QED BY <1>1, <2>1
<1>3. ASSUME NEW k \in 1 .. max_arity, MindInv(ts, m, U, max_error, k), m.level = <<>> \/ k = max_arity
      PROVE  n \in MindStates(ts) /\ MindEnds(ts, n, U, max_error, max_arity)
  <2>1. n = [m EXCEPT !.level = <<>>]
    <3>1. m.level # <<>> => Len(Last(m.level)[1][2]) = k
      BY <1>3, LastIs DEF MindInv
    <3> QED BY <1>3, <3>1 DEF NextLevel
  <2>2. n.level = <<>> /\ n.inds = m.inds /\ n \in MindStates(ts)
    <3>1. n = [level |-> <<>>, inds |-> m.inds]
      BY <1>1, <2>1
    <3> QED BY <1>1, <3>1 DEF MindStates
  <2>3. UpTo(ts, m.inds, U, max_error, max_arity)
    <3>1. CASE k = max_arity
      BY <1>3, <3>1 DEF MindInv
    <3>2. CASE k # max_arity
      <4>1. ToSet(m.level) = {}
        BY <1>3, <3>2 DEF ToSet
      <4>2. \A d \in m.inds : ~Shaped(ts, d, k)
        BY <1>3, <4>1 DEF MindInv
      <4>3. UpTo(ts, m.inds, U, max_error, k) /\ k \in Nat \ {0} /\ k <= max_arity
        BY <1>3 DEF MindInv
      <4> QED BY <4>2, <4>3, NothingWider
    <3> QED BY <3>1, <3>2
  <2> QED BY <2>2, <2>3 DEF MindEnds
<1>4. ASSUME NEW k \in 1 .. max_arity, MindInv(ts, m, U, max_error, k), ~(m.level = <<>> \/ k = max_arity)
      PROVE  n \in MindStates(ts) /\ k + 1 <= max_arity /\ MindInv(ts, n, U, max_error, k + 1)
  <2> DEFINE H == Holding(ts, CandidatesOf(m.level), max_error)
  <2>1. Len(Last(m.level)[1][2]) = k
    BY <1>4, LastIs DEF MindInv
  <2>2. n = [level |-> H, inds |-> m.inds \cup ToSet(H)]
    BY <1>4, <2>1 DEF NextLevel
  <2>3. k \in Nat \ {0} /\ IsLevel(ts, m.level, k)
    BY <1>4 DEF MindInv
  <2>4. /\ IsLevel(ts, H, k + 1)
        /\ \A d : d \in ToSet(H) <=> IsCandidate(ts, d, m.level, k) /\ Holds(ts, d, max_error)
    <3> DEFINE L == m.level
               G == H
    <3>1. G = Holding(ts, CandidatesOf(L), max_error) /\ IsLevel(ts, L, k)
      BY <2>3
    <3> HIDE DEF L, G
    <3>2. /\ IsLevel(ts, G, k + 1)
          /\ \A d : d \in ToSet(G) <=> IsCandidate(ts, d, L, k) /\ Holds(ts, d, max_error)
      BY <2>3, <3>1, NextIsLevel
    <3> QED BY <3>2 DEF L, G
  <2> HIDE DEF H
  <2>5. n.level = H /\ n.inds = m.inds \cup ToSet(H)
    BY <2>2
  <2>6. /\ UpTo(ts, m.inds, U, max_error, k)
        /\ \A d : d \in ToSet(m.level) <=> d \in m.inds /\ Shaped(ts, d, k)
    BY <1>4 DEF MindInv
  <2>7. \A d \in ToSet(H) : Shaped(ts, d, k + 1) /\ d \in Deps(ts)
    BY <2>4, ShapedIsDep DEF IsCandidate
  <2>8. \A d \in m.inds : \E j \in 1 .. k : Shaped(ts, d, j)
    BY <2>6 DEF UpTo
  <2>9. \A d, j : Shaped(ts, d, j) /\ j \in 1 .. k => (d \in n.inds <=> d \in m.inds)
    <3> SUFFICES ASSUME NEW d, NEW j \in 1 .. k, Shaped(ts, d, j), d \in ToSet(H) PROVE FALSE
      BY <2>5
    <3>1. j = k + 1
      BY <2>7, ArityIs
    <3> QED BY <2>3, <3>1
  <2>10. \A d : Shaped(ts, d, k + 1) => (d \in n.inds <=> d \in ToSet(H))
    <3> SUFFICES ASSUME NEW d, Shaped(ts, d, k + 1), d \in m.inds PROVE FALSE
      BY <2>5
    <3>1. PICK j \in 1 .. k : Shaped(ts, d, j)
      BY <2>8
    <3>2. j = k + 1
      BY <3>1, ArityIs
    <3> QED BY <2>3, <3>2
  <2>11. \A d : d \in ToSet(n.level) <=> d \in n.inds /\ Shaped(ts, d, k + 1)
    BY <2>5, <2>7, <2>10
  <2>12. UpTo(ts, n.inds, U, max_error, k + 1)
    <3>1. n.inds \subseteq Deps(ts)
      BY <1>1, <2>5, <2>7
    <3>2. \A d \in n.inds : \E j \in 1 .. k + 1 : Shaped(ts, d, j)
      BY <2>3, <2>5, <2>7, <2>8
    <3>3. \A d : Shaped(ts, d, 1) => (d \in n.inds <=> \E e \in U : d = AsDep(e))
      <4>1. 1 \in 1 .. k
        BY <2>3
      <4>2. \A d : Shaped(ts, d, 1) => (d \in m.inds <=> \E e \in U : d = AsDep(e))
        BY <2>6 DEF UpTo
      <4> QED BY <2>9, <4>1, <4>2
    <3>4. ASSUME NEW j \in 2 .. k + 1, NEW d, Shaped(ts, d, j)
          PROVE  d \in n.inds <=> /\ ~HaveIndicesIntersection(d[1], d[2]) /\ Holds(ts, d, max_error)
                                  /\ \A x \in 1 .. j : Part(d, x) \in n.inds
      <4>1. \A x \in 1 .. j : Shaped(ts, Part(d, x), j - 1) /\ j - 1 \in 1 .. k
        <5> DEFINE i == j - 1
        <5>1. i \in Nat /\ i + 1 = j /\ Shaped(ts, d, i + 1) /\ i \in 1 .. k
          BY <2>3, <3>4
        <5> HIDE DEF i
        <5>2. \A x \in 1 .. i + 1 : Shaped(ts, Part(d, x), i)
          BY <5>1, PartIs
        <5>3. \A x \in 1 .. j : Shaped(ts, Part(d, x), i) /\ i \in 1 .. k
          BY <5>1, <5>2
        <5> QED BY <5>3 DEF i
      <4>2. \A x \in 1 .. j : Part(d, x) \in n.inds <=> Part(d, x) \in m.inds
        BY <2>9, <4>1
      <4>3. CASE j = k + 1
        <5>1. \A x \in 1 .. j : Part(d, x) \in m.inds <=> Part(d, x) \in ToSet(m.level)
          <6>1. j - 1 = k
            BY <2>3, <4>3
          <6> QED BY <2>6, <4>1, <6>1
        <5>2. d \in n.inds <=> IsCandidate(ts, d, m.level, k) /\ Holds(ts, d, max_error)
          BY <2>4, <2>10, <3>4, <4>3
        <5>3. IsCandidate(ts, d, m.level, k) <=> /\ ~HaveIndicesIntersection(d[1], d[2])
                                                 /\ \A x \in 1 .. j : Part(d, x) \in ToSet(m.level)
          BY <3>4, <4>3 DEF IsCandidate
        <5> QED BY <4>2, <5>1, <5>2, <5>3
      <4>4. CASE j # k + 1
        <5>1. j \in 2 .. k /\ j \in 1 .. k
          BY <2>3, <4>4
        <5>2. d \in n.inds <=> d \in m.inds
          BY <2>9, <3>4, <5>1
        <5>3. d \in m.inds <=> /\ ~HaveIndicesIntersection(d[1], d[2]) /\ Holds(ts, d, max_error)
                               /\ \A x \in 1 .. j : Part(d, x) \in m.inds
          BY <2>6, <3>4, <5>1 DEF UpTo
        <5> QED BY <4>2, <5>2, <5>3
      <4> QED BY <4>3, <4>4
    <3> QED BY <3>1, <3>2, <3>3, <3>4 DEF UpTo
  <2>13. k + 1 <= max_arity
    BY <1>4
  <2>14. n \in MindStates(ts)
    <3>1. n.inds \in SUBSET Deps(ts) /\ n.level \in Seq(Deps(ts))
      BY <2>4, <2>5, <2>12 DEF IsLevel, UpTo
    <3> QED BY <2>2, <3>1 DEF MindStates, H
  <2> QED BY <2>4, <2>5, <2>11, <2>12, <2>13, <2>14 DEF MindInv
<1> QED BY <1>2, <1>3, <1>4

Widths(ts) == {Len(ts[i][1]) : i \in DOMAIN ts}
MindStart(ts, nulls, max_error) == [level |-> Unary(Registered(Spider(ts, nulls, max_error))),
                                    inds |-> ToSet(Unary(Registered(Spider(ts, nulls, max_error))))]
Levels(ts) == 1 .. Max(Widths(ts))
IsClimb(F, ts, nulls, max_error, max_arity) ==
  F = [T \in SUBSET Levels(ts) |-> IF T = {} THEN MindStart(ts, nulls, max_error)
                                   ELSE NextLevel(ts, F[T \ {CHOOSE x \in T : TRUE}], max_error, max_arity)]

(* The fold that Mind is.                                                  *)
LEMMA MindIs ==
  ASSUME NEW ts, NEW nulls, NEW max_error, NEW max_arity, NEW F, IsClimb(F, ts, nulls, max_error, max_arity)
  PROVE  \E G : /\ IsClimb(G, ts, nulls, max_error, max_arity)
                /\ Mind(ts, nulls, max_error, max_arity) = G[Levels(ts)].inds
<1> DEFINE i == CHOOSE G : IsClimb(G, ts, nulls, max_error, max_arity)
<1>1. Mind(ts, nulls, max_error, max_arity) = i[Levels(ts)].inds
  BY Zenon DEF Mind, FoldSet, MapThenFoldSet, IsClimb, Levels, MindStart, Widths
<1>2. IsClimb(i, ts, nulls, max_error, max_arity)
  BY Zenon
<1> QED BY <1>1, <1>2

(* The widths of tables.                                                   *)
LEMMA WidthsAreNumbers ==
  ASSUME NEW ts, AreTables(ts)
  PROVE  /\ Max(Widths(ts)) \in Nat /\ IsFiniteSet(Levels(ts)) /\ Cardinality(Levels(ts)) = Max(Widths(ts))
         /\ \A d : \A k \in Nat : Shaped(ts, d, k) => k <= Max(Widths(ts))
<1> DEFINE w == [i \in DOMAIN ts |-> Len(ts[i][1])]
<1>1. ts \in Seq(Seq(Seq(Nat))) /\ ts # <<>>
  BY DEF AreTables
<1>2. DOMAIN ts = 1 .. Len(ts) /\ Len(ts) \in Nat \ {0}
  BY <1>1
<1>3. IsFiniteSet(DOMAIN ts)
  BY <1>2, FS_Interval
<1>4. Widths(ts) = {w[i] : i \in DOMAIN ts}
  BY DEF Widths
<1>5. IsFiniteSet(Widths(ts))
  <2> HIDE DEF w
  <2> QED BY <1>3, <1>4, ImageIsFinite
<1>6. Widths(ts) \subseteq Nat /\ Widths(ts) # {}
  <2>1. 1 \in DOMAIN ts
    BY <1>2
  <2> QED BY <2>1, WidthsAre DEF Widths
<1>7. Max(Widths(ts)) \in Nat /\ \A n \in Widths(ts) : n <= Max(Widths(ts))
  BY <1>5, <1>6, MaxIsGreatest
<1>8. IsFiniteSet(Levels(ts)) /\ Cardinality(Levels(ts)) = Max(Widths(ts))
  <2> DEFINE n == Max(Widths(ts))
  <2>1. n \in Nat /\ Levels(ts) = 1 .. n
    BY <1>7 DEF Levels
  <2> HIDE DEF n
  <2>2. IsFiniteSet(1 .. n) /\ Cardinality(1 .. n) = n
    BY <2>1, FS_Interval
  <2> QED BY <2>1, <2>2 DEF n
<1>9. ASSUME NEW d, NEW k \in Nat, Shaped(ts, d, k) PROVE k <= Max(Widths(ts))
  <2>1. d[1][1] \in DOMAIN ts /\ IsLhs(d[1][2], k, Len(ts[d[1][1]][1]))
    BY <1>9 DEF Shaped
  <2>2. Len(ts[d[1][1]][1]) \in Nat /\ Len(ts[d[1][1]][1]) \in Widths(ts)
    BY <2>1, WidthsAre DEF Widths
  <2>3. k <= Len(ts[d[1][1]][1])
    BY <2>1, <2>2, LhsIsBounded
  <2> QED BY <1>7, <2>2, <2>3
<1> QED BY <1>7, <1>8, <1>9

(* Mind finds, of the dependencies of one column, those that Spider finds  *)
(* and, of the wider ones up to the arity it may go to, those that hold    *)
(* and all of whose parts it finds.                                        *)
LEMMA MindClimbs ==
  ASSUME NEW ts, AreTables(ts), NEW nulls \in BOOLEAN, NEW e1 \in Nat, NEW e2 \in Nat \ {0}, NEW max_arity \in Nat \ {0}
  PROVE  UpTo(ts, Mind(ts, nulls, <<e1, e2>>, max_arity), UnaryInds(ts, nulls, <<e1, e2>>), <<e1, e2>>, max_arity)
<1> DEFINE max_error == <<e1, e2>>
           U == UnaryInds(ts, nulls, max_error)
           S == Levels(ts)
           N == Max(Widths(ts))
           base == MindStart(ts, nulls, max_error)
           Climbs(y) == MindEnds(ts, y, U, max_error, max_arity)
                          \/ \E k \in 1 .. max_arity : MindInv(ts, y, U, max_error, k)
           Y == {y \in MindStates(ts) : Climbs(y)}
           g == [y \in Y |-> NextLevel(ts, y, max_error, max_arity)]
<1>1. Spider(ts, nulls, max_error) = U
  BY SpiderFinds
<1>2. IsFiniteSet(U) /\ U \subseteq ColumnsOf(ts) \X ColumnsOf(ts)
  <2>1. IsFiniteSet(Attributes(ts)) /\ Attributes(ts) \subseteq ColumnsOf(ts)
    BY TablesHaveDomains DEF AreDomains, Attributes
  <2>2. IsFiniteSet(Attributes(ts) \X Attributes(ts))
    BY <2>1, FS_Product
  <2>3. U \subseteq Attributes(ts) \X Attributes(ts)
    BY DEF UnaryInds
  <2> HIDE DEF U
  <2> QED BY <2>1, <2>2, <2>3, FS_Subset
<1> HIDE DEF U, max_error
<1>3. base \in MindStates(ts) /\ MindInv(ts, base, U, max_error, 1)
  <2> DEFINE L == Unary(Registered(U))
  <2>1. base = [level |-> L, inds |-> ToSet(L)]
    BY <1>1 DEF MindStart
  <2>2. IsLevel(ts, L, 1) /\ ToSet(L) = {AsDep(e) : e \in U}
    BY <1>2, UnaryIsLevel
  <2> HIDE DEF L, base
  <2>3. base.level = L /\ base.inds = ToSet(L)
    BY <2>1
  <2>4. L \in Seq(Deps(ts)) /\ \A d \in ToSet(L) : Shaped(ts, d, 1) /\ d \in Deps(ts)
    BY <2>2, ShapedIsDep DEF IsLevel
  <2>5. UpTo(ts, base.inds, U, max_error, 1)
    <3>1. \A d \in base.inds : \E j \in 1 .. 1 : Shaped(ts, d, j)
      BY <2>3, <2>4
    <3>2. \A d : Shaped(ts, d, 1) => (d \in base.inds <=> \E e \in U : d = AsDep(e))
      BY <2>2, <2>3
    <3>3. \A j \in 2 .. 1 : FALSE
      OBVIOUS
    <3>4. base.inds \subseteq Deps(ts)
      BY <2>3, <2>4
    <3> QED BY <3>1, <3>2, <3>3, <3>4 DEF UpTo
  <2>6. base \in MindStates(ts)
    BY <2>1, <2>4 DEF MindStates
  <2> QED BY <2>2, <2>3, <2>4, <2>5, <2>6 DEF MindInv
<1>4. base \in Y
  BY <1>3
<1>5. N \in Nat /\ IsFiniteSet(S) /\ Cardinality(S) = N
  BY WidthsAreNumbers
<1> HIDE DEF base, S, N
<1>6. ASSUME NEW y \in Y PROVE NextLevel(ts, y, max_error, max_arity) \in Y
  <2> DEFINE n == NextLevel(ts, y, max_error, max_arity)
  <2>1. y \in MindStates(ts) /\ n = NextLevel(ts, y, max_error, max_arity)
    OBVIOUS
  <2> HIDE DEF n
  <2>2. CASE MindEnds(ts, y, U, max_error, max_arity)
    <3>1. n = y
      BY <2>1, <2>2, NextLevelPasses
    <3> QED BY <3>1 DEF n
  <2>3. CASE \E k \in 1 .. max_arity : MindInv(ts, y, U, max_error, k)
    <3>1. PICK k \in 1 .. max_arity : MindInv(ts, y, U, max_error, k)
      BY <2>3
    <3>2. /\ n \in MindStates(ts)
          /\ \/ MindEnds(ts, n, U, max_error, max_arity)
             \/ k + 1 <= max_arity /\ MindInv(ts, n, U, max_error, k + 1)
      BY <2>1, <3>1, NextLevelPasses
    <3>3. k + 1 <= max_arity => k + 1 \in 1 .. max_arity
      OBVIOUS
    <3>4. Climbs(n)
      BY <3>2, <3>3
    <3> QED BY <3>2, <3>4 DEF n
  <2> QED BY <2>2, <2>3
<1>7. g \in [Y -> Y]
  <2> HIDE DEF Y
  <2> QED BY <1>6
<1>8. PICK F \in [SUBSET S -> Y] : Repeats(F, S, base, g)
  <2> HIDE DEF Y, g
  <2> QED BY <1>4, <1>5, <1>7, RepetitionWorks
<1>9. \A T \in SUBSET S : F[T] = IF T = {} THEN base ELSE NextLevel(ts, F[T \ {CHOOSE x \in T : TRUE}], max_error, max_arity)
  <2>1. \A T \in SUBSET S : T \ {CHOOSE x \in T : TRUE} \in SUBSET S
    OBVIOUS
  <2>2. \A T \in SUBSET S : F[T] = IF T = {} THEN base ELSE g[F[T \ {CHOOSE x \in T : TRUE}]]
    <3> HIDE DEF g
    <3> QED BY <1>8 DEF Repeats
  <2>3. \A T \in SUBSET S : F[T \ {CHOOSE x \in T : TRUE}] \in Y
    <3> HIDE DEF Y, g
    <3> QED BY <1>8, <2>1
  <2>4. \A y \in Y : g[y] = NextLevel(ts, y, max_error, max_arity)
    <3> HIDE DEF Y
    <3> QED OBVIOUS
  <2> HIDE DEF Y, g
  <2> QED BY <2>2, <2>3, <2>4
<1>10. IsClimb(F, ts, nulls, max_error, max_arity)
  <2>1. F = [T \in SUBSET S |-> F[T]]
    <3> HIDE DEF Y
    <3> QED BY <1>8
  <2> HIDE DEF Y, g
  <2> QED BY <1>9, <2>1 DEF IsClimb, S, base
<1>11. PICK G : IsClimb(G, ts, nulls, max_error, max_arity) /\ Mind(ts, nulls, max_error, max_arity) = G[S].inds
  <2> HIDE DEF Y, g
  <2> QED BY <1>10, MindIs DEF S
<1> HIDE DEF g
<1>12. G[S] = F[S]
  <2> HIDE DEF Y
  <2>1. G[{}] = base
    BY <1>11 DEF IsClimb, base, S
  <2>2. \A T \in SUBSET S : T # {} => G[T] = NextLevel(ts, G[T \ {CHOOSE x \in T : TRUE}], max_error, max_arity)
    BY <1>11 DEF IsClimb, S
  <2>3. ASSUME NEW T \in SUBSET S, \A x \in T : G[T \ {x}] = F[T \ {x}] PROVE G[T] = F[T]
    <3>1. CASE T = {}
      BY <1>9, <2>1, <3>1
    <3>2. CASE T # {}
      <4>1. PICK x : x = (CHOOSE y \in T : TRUE) /\ x \in T
        BY <3>2
      <4> QED BY <1>9, <2>2, <2>3, <3>2, <4>1
    <3> QED BY <3>1, <3>2
  <2> QED BY <1>5, <2>3, RepetitionIsUnique
<1> DEFINE Up(T) == \/ MindEnds(ts, F[T], U, max_error, max_arity)
                    \/ Cardinality(T) + 1 \in 1 .. max_arity /\ MindInv(ts, F[T], U, max_error, Cardinality(T) + 1)
           P == {T \in SUBSET S : Up(T)}
<1>13. \A T \in SUBSET S : F[T] \in MindStates(ts) /\ IsFiniteSet(T) /\ Cardinality(T) \in Nat
  <2>1. \A T \in SUBSET S : F[T] \in Y
    <3> HIDE DEF Y
    <3> QED BY <1>8
  <2> QED BY <1>5, <2>1, FS_Subset, FS_CardinalityType
<1> HIDE DEF Y
<1>14. ASSUME NEW T \in SUBSET S, \A x \in T : T \ {x} \in P PROVE T \in P
  <2>1. CASE T = {}
    <3>1. F[T] = base /\ Cardinality(T) = 0
      BY <1>9, <2>1, FS_EmptySet
    <3>2. 0 + 1 = 1 /\ 1 \in 1 .. max_arity
      OBVIOUS
    <3> QED BY <1>3, <3>1, <3>2
  <2>2. CASE T # {}
    <3>1. PICK x : x = (CHOOSE y \in T : TRUE) /\ x \in T
      BY <2>2
    <3>2. F[T] = NextLevel(ts, F[T \ {x}], max_error, max_arity)
      BY <1>9, <2>2, <3>1
    <3>3. Up(T \ {x}) /\ T \ {x} \in SUBSET S
      BY <1>14, <3>1
    <3>4. Cardinality(T \ {x}) + 1 = Cardinality(T) /\ F[T \ {x}] \in MindStates(ts) /\ Cardinality(T) \in Nat
      <4>1. Cardinality(T \ {x}) = Cardinality(T) - 1
        BY <1>13, <3>1, FS_RemoveElement
      <4> QED BY <1>13, <3>3, <4>1
    <3>5. CASE MindEnds(ts, F[T \ {x}], U, max_error, max_arity)
      <4>1. F[T] = F[T \ {x}]
        BY <3>2, <3>4, <3>5, NextLevelPasses
      <4> QED BY <3>5, <4>1
    <3>6. CASE Cardinality(T) \in 1 .. max_arity /\ MindInv(ts, F[T \ {x}], U, max_error, Cardinality(T))
      <4>1. \/ MindEnds(ts, F[T], U, max_error, max_arity)
            \/ Cardinality(T) + 1 <= max_arity /\ MindInv(ts, F[T], U, max_error, Cardinality(T) + 1)
        BY <3>2, <3>4, <3>6, NextLevelPasses
      <4>2. Cardinality(T) + 1 <= max_arity => Cardinality(T) + 1 \in 1 .. max_arity
        BY <3>4
      <4> QED BY <4>1, <4>2
    <3> QED BY <3>3, <3>4, <3>5, <3>6
  <2> QED BY <2>1, <2>2
<1>15. Up(S)
  <2>1. \A T \in SUBSET S : T \in P
    <3> HIDE DEF P
    <3> QED BY <1>5, <1>14, BySubsets
  <2> QED BY <2>1
<1>16. UpTo(ts, F[S].inds, U, max_error, max_arity)
  <2>1. CASE MindEnds(ts, F[S], U, max_error, max_arity)
    BY <2>1 DEF MindEnds
  <2>2. CASE N + 1 \in 1 .. max_arity /\ MindInv(ts, F[S], U, max_error, N + 1)
    <3>1. UpTo(ts, F[S].inds, U, max_error, N + 1)
      BY <2>2 DEF MindInv
    <3>2. \A d \in F[S].inds : ~Shaped(ts, d, N + 1)
      <4>1. N + 1 \in Nat /\ ~(N + 1 <= N)
        BY <1>5
      <4> QED BY <4>1, WidthsAreNumbers DEF N
    <3>3. N + 1 \in Nat \ {0} /\ N + 1 <= max_arity
      BY <1>5, <2>2
    <3> QED BY <3>1, <3>2, <3>3, NothingWider
  <2> QED BY <1>5, <1>15, <2>1, <2>2
<1> QED BY <1>11, <1>12, <1>16 DEF U, max_error

(* Every row of the left table has one of the right table that agrees.     *)
Covered(ts, d, k) ==
  \A r \in DOMAIN ts[d[1][1]] : \E q \in DOMAIN ts[d[2][1]] :
    \A z \in 1 .. k : ts[d[1][1]][r][d[1][2][z]] = ts[d[2][1]][q][d[2][2][z]]

(* One projection holds another if every row of the one table has a row of *)
(* the other that agrees.                                                  *)
LEMMA CoveredIs ==
  ASSUME NEW ts, NEW k \in Nat, NEW d, Shaped(ts, d, k)
  PROVE  Projection(ts[d[1][1]], d[1][2]) \subseteq Projection(ts[d[2][1]], d[2][2]) <=> Covered(ts, d, k)
<1> DEFINE t == ts[d[1][1]]
           u == ts[d[2][1]]
           f(r) == [z \in 1 .. k |-> t[r][d[1][2][z]]]
           g(q) == [z \in 1 .. k |-> u[q][d[2][2][z]]]
<1>1. DOMAIN d[1][2] = 1 .. k /\ DOMAIN d[2][2] = 1 .. k
  BY DEF Shaped, IsLhs, IsRhs
<1>2. /\ Projection(t, d[1][2]) = {f(r) : r \in DOMAIN t}
      /\ Projection(u, d[2][2]) = {g(q) : q \in DOMAIN u}
  BY <1>1 DEF Projection
<1>3. \A r, q : f(r) = g(q) <=> \A z \in 1 .. k : t[r][d[1][2][z]] = u[q][d[2][2][z]]
  OBVIOUS
<1>4. Projection(t, d[1][2]) \subseteq Projection(u, d[2][2])
        <=> \A r \in DOMAIN t : \E q \in DOMAIN u : f(r) = g(q)
  <2> HIDE DEF f, g, t, u
  <2> QED BY <1>2
<1>5. Covered(ts, d, k) <=> \A r \in DOMAIN t : \E q \in DOMAIN u : \A z \in 1 .. k : t[r][d[1][2][z]] = u[q][d[2][2][z]]
  BY DEF Covered
<1>6. Covered(ts, d, k) <=> \A r \in DOMAIN t : \E q \in DOMAIN u : f(r) = g(q)
  <2> HIDE DEF f, g, t, u
  <2> QED BY <1>3, <1>5
<1> QED BY <1>4, <1>6

(* Without errors, nulls and common columns.                               *)
IsExact(ts, d, k) == Covered(ts, d, k) /\ WithoutNull(ts, d) /\ ~HaveIndicesIntersection(d[1], d[2])

(* The parts of such a dependency are such.                                *)
LEMMA ExactParts ==
  ASSUME NEW ts, AreTables(ts), NEW k \in Nat, NEW d, Shaped(ts, d, k + 1), IsExact(ts, d, k + 1), NEW i \in 1 .. k + 1
  PROVE  IsExact(ts, Part(d, i), k)
<1> DEFINE p == Part(d, i)
           from(x) == IF x < i THEN x ELSE x + 1
<1>1. Shaped(ts, p, k)
  BY PartIs
<1>2. /\ d[1][2] \in Seq(Nat) /\ Len(d[1][2]) = k + 1 /\ DOMAIN d[1][2] = 1 .. k + 1
      /\ d[2][2] \in Seq(Nat) /\ Len(d[2][2]) = k + 1 /\ DOMAIN d[2][2] = 1 .. k + 1
  BY DEF Shaped, IsLhs, IsRhs
<1>3. p[1] = <<d[1][1], RemoveAt(d[1][2], i)>> /\ p[2] = <<d[2][1], RemoveAt(d[2][2], i)>>
  BY DEF Part, WithoutIndex
<1>4. p[1][1] = d[1][1] /\ p[2][1] = d[2][1] /\ p[1][2] = RemoveAt(d[1][2], i) /\ p[2][2] = RemoveAt(d[2][2], i)
  BY <1>3
<1> HIDE DEF p
<1>5. DOMAIN p[1][2] = 1 .. k /\ DOMAIN p[2][2] = 1 .. k
  BY <1>1 DEF Shaped, IsLhs, IsRhs
<1>6. \A x \in 1 .. k : from(x) \in 1 .. k + 1
  OBVIOUS
<1>7. \A x \in 1 .. k : p[1][2][x] = d[1][2][from(x)] /\ p[2][2][x] = d[2][2][from(x)]
  <2>1. Len(d[1][2]) - 1 = k /\ Len(d[2][2]) - 1 = k /\ i \in 1 .. Len(d[1][2]) /\ i \in 1 .. Len(d[2][2])
    BY <1>2
  <2>2. \A x \in 1 .. k : RemoveAt(d[1][2], i)[x] = IF x < i THEN d[1][2][x] ELSE d[1][2][x + 1]
    BY <1>2, <2>1, RemoveAtIs
  <2>3. \A x \in 1 .. k : RemoveAt(d[2][2], i)[x] = IF x < i THEN d[2][2][x] ELSE d[2][2][x + 1]
    BY <1>2, <2>1, RemoveAtIs
  <2> QED BY <1>4, <2>2, <2>3
<1> HIDE DEF from
<1>8. Covered(ts, p, k)
  <2> SUFFICES ASSUME NEW r \in DOMAIN ts[d[1][1]]
               PROVE  \E q \in DOMAIN ts[d[2][1]] :
                        \A z \in 1 .. k : ts[d[1][1]][r][p[1][2][z]] = ts[d[2][1]][q][p[2][2][z]]
    BY <1>4 DEF Covered
  <2>1. PICK q \in DOMAIN ts[d[2][1]] :
          \A z \in 1 .. k + 1 : ts[d[1][1]][r][d[1][2][z]] = ts[d[2][1]][q][d[2][2][z]]
    BY DEF IsExact, Covered
  <2> QED BY <1>6, <1>7, <2>1
<1>9. WithoutNull(ts, p)
  <2>1. /\ \A z \in 1 .. k + 1 : EmptyCell \notin Domain(ts, <<d[1][1], d[1][2][z]>>)
        /\ \A z \in 1 .. k + 1 : EmptyCell \notin Domain(ts, <<d[2][1], d[2][2][z]>>)
    BY <1>2 DEF IsExact, WithoutNull
  <2>2. /\ \A z \in 1 .. k : EmptyCell \notin Domain(ts, <<p[1][1], p[1][2][z]>>)
        /\ \A z \in 1 .. k : EmptyCell \notin Domain(ts, <<p[2][1], p[2][2][z]>>)
    BY <1>4, <1>6, <1>7, <2>1
  <2> QED BY <1>5, <2>2 DEF WithoutNull
<1>10. ~HaveIndicesIntersection(p[1], p[2])
  <2>1. ToSet(p[1][2]) \subseteq ToSet(d[1][2]) /\ ToSet(p[2][2]) \subseteq ToSet(d[2][2])
    <3>1. /\ ToSet(p[1][2]) = {p[1][2][x] : x \in 1 .. k} /\ ToSet(p[2][2]) = {p[2][2][x] : x \in 1 .. k}
          /\ ToSet(d[1][2]) = {d[1][2][x] : x \in 1 .. k + 1} /\ ToSet(d[2][2]) = {d[2][2][x] : x \in 1 .. k + 1}
      BY <1>2, <1>5 DEF ToSet
    <3>2. \A x \in 1 .. k : p[1][2][x] \in ToSet(d[1][2]) /\ p[2][2][x] \in ToSet(d[2][2])
      BY <1>6, <1>7, <3>1
    <3> QED BY <3>1, <3>2
  <2> QED BY <1>4, <2>1 DEF IsExact, HaveIndicesIntersection
<1> QED BY <1>8, <1>9, <1>10 DEF IsExact, p

(* Of one column: Spider finds it.                                         *)
LEMMA ExactUnary ==
  ASSUME NEW ts, AreTables(ts), NEW d, Shaped(ts, d, 1), IsExact(ts, d, 1)
  PROVE  \E e \in UnaryInds(ts, FALSE, <<0, 1>>) : d = AsDep(e)
<1> DEFINE a == <<d[1][1], d[1][2][1]>>
           b == <<d[2][1], d[2][2][1]>>
           e == <<a, b>>
<1>1. /\ d[1][2] \in Seq(Nat) /\ Len(d[1][2]) = 1 /\ DOMAIN d[1][2] = 1 .. 1
      /\ d[2][2] \in Seq(Nat) /\ Len(d[2][2]) = 1 /\ DOMAIN d[2][2] = 1 .. 1
      /\ d[1][1] \in DOMAIN ts /\ d[2][1] \in DOMAIN ts
      /\ d[1][2][1] \in 1 .. Len(ts[d[1][1]][1]) /\ d[2][2][1] \in 1 .. Len(ts[d[2][1]][1])
      /\ d = << <<d[1][1], d[1][2]>>, <<d[2][1], d[2][2]>> >>
  BY DEF Shaped, IsLhs, IsRhs
<1>2. d[1][2] = <<d[1][2][1]>> /\ d[2][2] = <<d[2][2][1]>>
  BY <1>1
<1>3. d = AsDep(e)
  BY <1>1, <1>2 DEF AsDep
<1>4. a \in ColumnsOf(ts) /\ b \in ColumnsOf(ts)
  BY <1>1, ColumnsAre
<1>5. EmptyCell \notin Domain(ts, a) /\ EmptyCell \notin Domain(ts, b)
  <2>1. 1 \in DOMAIN d[1][2] /\ 1 \in DOMAIN d[2][2]
    BY <1>1
  <2> QED BY <2>1 DEF IsExact, WithoutNull
<1>6. a # b
  <2> SUFFICES ASSUME a = b PROVE FALSE
    OBVIOUS
  <2>1. d[1][1] = d[2][1] /\ d[1][2][1] = d[2][2][1]
    OBVIOUS
  <2>2. d[1][2][1] \in ToSet(d[1][2]) /\ d[2][2][1] \in ToSet(d[2][2])
    BY <1>1 DEF ToSet
  <2> QED BY <2>1, <2>2 DEF IsExact, HaveIndicesIntersection
<1>7. Domain(ts, a) \subseteq Domain(ts, b) \ {EmptyCell}
  <2>1. ASSUME NEW r \in DOMAIN ts[d[1][1]] PROVE ts[d[1][1]][r][d[1][2][1]] \in Domain(ts, b)
    <3>1. PICK q \in DOMAIN ts[d[2][1]] : ts[d[1][1]][r][d[1][2][1]] = ts[d[2][1]][q][d[2][2][1]]
      BY DEF IsExact, Covered
    <3> QED BY <3>1 DEF Domain
  <2>2. Domain(ts, a) \subseteq Domain(ts, b)
    BY <2>1 DEF Domain
  <2> HIDE DEF a, b
  <2> QED BY <1>5, <2>2
<1> HIDE DEF a, b
<1>8. a \in Attributes(ts) /\ b \in Attributes(ts)
  BY <1>4, <1>5 DEF Attributes
<1>9. IsFiniteSet(Domain(ts, a))
  BY <1>8, TablesHaveDomains DEF AreDomains, DomainsOf
<1>10. Within(<<Cardinality(Domain(ts, a) \ (Domain(ts, b) \ {EmptyCell})), Cardinality(Domain(ts, a))>>, <<0, 1>>)
  <2>1. Domain(ts, a) \ (Domain(ts, b) \ {EmptyCell}) = {}
    BY <1>7
  <2>2. Cardinality(Domain(ts, a) \ (Domain(ts, b) \ {EmptyCell})) = 0
    BY <2>1, FS_EmptySet
  <2>3. Cardinality(Domain(ts, a)) \in Nat
    BY <1>9, FS_CardinalityType
  <2> DEFINE n == Cardinality(Domain(ts, a))
  <2>4. n \in Nat
    BY <2>3
  <2> HIDE DEF n
  <2>5. 0 * 1 <= 0 * n
    BY <2>4
  <2> QED BY <2>2, <2>5 DEF Within, n
<1>11. e[1] = a /\ e[2] = b /\ e \in Attributes(ts) \X Attributes(ts)
  BY <1>8
<1> HIDE DEF e
<1>12. e \in UnaryInds(ts, FALSE, <<0, 1>>)
  BY <1>6, <1>10, <1>11 DEF UnaryInds
<1> QED BY <1>3, <1>12

(* Mind finds those without errors.                                        *)
LEMMA ExactIsFound ==
  ASSUME NEW ts, AreTables(ts), NEW max_arity \in Nat \ {0}, NEW k \in 1 .. max_arity, NEW d, Shaped(ts, d, k), IsExact(ts, d, k)
  PROVE  d \in Mind(ts, FALSE, <<0, 1>>, max_arity)
<1> DEFINE inds == Mind(ts, FALSE, <<0, 1>>, max_arity)
           U == UnaryInds(ts, FALSE, <<0, 1>>)
           P == {n \in Nat : n + 1 <= max_arity => \A c : Shaped(ts, c, n + 1) /\ IsExact(ts, c, n + 1) => c \in inds}
<1>1. UpTo(ts, inds, U, <<0, 1>>, max_arity)
  <2>1. FALSE \in BOOLEAN /\ 0 \in Nat /\ 1 \in Nat \ {0}
    OBVIOUS
  <2> QED BY <2>1, MindClimbs
<1> HIDE DEF inds
<1>2. 0 \in P
  <2> SUFFICES ASSUME NEW c, Shaped(ts, c, 1), IsExact(ts, c, 1) PROVE c \in inds
    OBVIOUS
  <2> QED BY <1>1, ExactUnary DEF UpTo
<1> HIDE DEF U
<1>3. ASSUME NEW n \in Nat, n \in P PROVE n + 1 \in P
  <2> DEFINE j == n + 1
  <2> SUFFICES ASSUME j + 1 <= max_arity, NEW c, Shaped(ts, c, j + 1), IsExact(ts, c, j + 1) PROVE c \in inds
    OBVIOUS
  <2>1. j \in Nat /\ j + 1 \in 2 .. max_arity /\ j <= max_arity
    OBVIOUS
  <2>2. \A x : Shaped(ts, x, j) /\ IsExact(ts, x, j) => x \in inds
    BY <1>3, <2>1
  <2> HIDE DEF j, P
  <2>3. \A x \in 1 .. j + 1 : Part(c, x) \in inds
    BY <2>1, <2>2, PartIs, ExactParts
  <2>4. ~HaveIndicesIntersection(c[1], c[2])
    BY DEF IsExact
  <2>5. Holds(ts, c, <<0, 1>>)
    <3>1. Projection(ts[c[1][1]], c[1][2]) \subseteq Projection(ts[c[2][1]], c[2][2])
      <4>1. j + 1 \in Nat /\ Covered(ts, c, j + 1)
        BY <2>1 DEF IsExact
      <4> DEFINE l == j + 1
      <4>2. l \in Nat /\ Covered(ts, c, l) /\ Shaped(ts, c, l)
        BY <4>1
      <4> HIDE DEF l
      <4> QED BY <4>2, CoveredIs
    <3> QED BY <3>1 DEF Holds, TestCandidate
  <2> QED BY <1>1, <2>1, <2>3, <2>4, <2>5 DEF UpTo
<1>4. \A n \in Nat : n \in P
  <2> HIDE DEF P
  <2> QED BY <1>2, <1>3, CountingUp
<1>5. k - 1 \in P /\ (k - 1) + 1 = k /\ k <= max_arity
  <2>1. k - 1 \in Nat
    OBVIOUS
  <2> HIDE DEF P
  <2> QED BY <1>4, <2>1
<1> QED BY <1>5 DEF inds

(* Mind finds, within any error, of the wider dependencies for which the   *)
(* verifier finds no larger one, those all of whose parts it finds: in any *)
(* tables of up to nine columns, the arity it is run with (mind.cpp,       *)
(* ind_verifier.cpp).                                                      *)
THEOREM MindFindsWide ==
  ASSUME NEW ts, AreTables(ts), \A i \in DOMAIN ts : Len(ts[i][1]) <= 9,
         NEW nulls \in BOOLEAN, NEW e1 \in Nat, NEW e2 \in Nat \ {0}
  PROVE  MindFinds(ts, <<e1, e2>>, Mind(ts, nulls, <<e1, e2>>, 9), WideInds(ts))
<1> DEFINE max_error == <<e1, e2>>
           found == Mind(ts, nulls, max_error, 9)
           U == UnaryInds(ts, nulls, max_error)
           wide == WideInds(ts)
           Fine(d) == /\ ~HaveIndicesIntersection(d[1], d[2]) /\ Within(VerifiedError(ts, d), max_error)
                      /\ Parts(d) \subseteq found
<1>1. UpTo(ts, found, U, max_error, 9)
  BY MindClimbs
<1>2. \A d : \A k \in Nat : Shaped(ts, d, k) => k <= 9
  <2> SUFFICES ASSUME NEW d, NEW k \in Nat, Shaped(ts, d, k) PROVE k <= 9
    OBVIOUS
  <2>1. d[1][1] \in DOMAIN ts /\ IsLhs(d[1][2], k, Len(ts[d[1][1]][1])) /\ Len(ts[d[1][1]][1]) \in Nat
    BY WidthsAre DEF Shaped
  <2>2. k <= Len(ts[d[1][1]][1])
    BY <2>1, LhsIsBounded
  <2> QED BY <2>1, <2>2
<1>3. \A d : d \in wide <=> \E k \in Nat \ {0, 1} : Shaped(ts, d, k)
  BY WideIs
<1>4. \A d : d[1][1] \in DOMAIN ts => (Within(VerifiedError(ts, d), max_error) <=> Holds(ts, d, max_error))
  BY ErrorsAgree
<1> HIDE DEF max_error, found, U, wide
<1>5. ASSUME NEW j \in 2 .. 9, NEW d, Shaped(ts, d, j) PROVE d \in found <=> Fine(d)
  <2>1. DOMAIN d[1][2] = 1 .. j /\ d[1][1] \in DOMAIN ts
    BY <1>5 DEF Shaped, IsLhs
  <2>2. Parts(d) \subseteq found <=> \A x \in 1 .. j : Part(d, x) \in found
    BY <2>1 DEF Parts, Part
  <2>3. d \in found <=> /\ ~HaveIndicesIntersection(d[1], d[2]) /\ Holds(ts, d, max_error)
                        /\ \A x \in 1 .. j : Part(d, x) \in found
    BY <1>1, <1>5 DEF UpTo
  <2> QED BY <1>4, <2>1, <2>2, <2>3
<1> HIDE DEF Fine
<1>6. ASSUME NEW d \in found, Len(d[1][2]) > 1 PROVE d \in wide /\ Fine(d)
  <2>1. PICK j \in 1 .. 9 : Shaped(ts, d, j)
    BY <1>1 DEF UpTo
  <2>2. Len(d[1][2]) = j
    BY <2>1, ArityIs
  <2>3. j \in 2 .. 9 /\ j \in Nat \ {0, 1}
    BY <1>6, <2>2
  <2> QED BY <1>3, <1>5, <2>1, <2>3
<1>7. ASSUME NEW d \in wide, Fine(d) PROVE d \in found /\ Len(d[1][2]) > 1
  <2>1. PICK k \in Nat \ {0, 1} : Shaped(ts, d, k)
    BY <1>3
  <2>2. k \in 2 .. 9 /\ Len(d[1][2]) = k
    BY <1>2, <2>1, ArityIs
  <2> QED BY <1>5, <1>7, <2>1, <2>2
<1>8. {d \in found : Len(d[1][2]) > 1} = {d \in wide : Fine(d)}
  BY <1>6, <1>7
<1> QED BY <1>8 DEF MindFinds, Fine, max_error, found, wide

(* And with no error it finds all that hold between different columns, if  *)
(* none of them has an empty string, although it goes on only from what    *)
(* the level before has left (mind.cpp).                                   *)
THEOREM MindIsAlwaysRight ==
  ASSUME NEW ts, AreTables(ts), \A i \in DOMAIN ts : Len(ts[i][1]) <= 9
  PROVE  MindIsRight(ts)
<1>1. ASSUME NEW nulls \in BOOLEAN, NEW max_error \in {<<0, 1>>, <<1, 2>>}
      PROVE  MindFinds(ts, max_error, Mind(ts, nulls, max_error, 9), WideInds(ts))
  <2>1. PICK e1 \in Nat, e2 \in Nat \ {0} : max_error = <<e1, e2>>
    OBVIOUS
  <2> QED BY <2>1, MindFindsWide
<1>2. ASSUME NEW d \in WideInds(ts), WithoutNull(ts, d), Clusters(ts, d) = {}, ~HaveIndicesIntersection(d[1], d[2])
      PROVE  d \in Mind(ts, FALSE, <<0, 1>>, 9)
  <2>1. PICK k \in Nat \ {0, 1} : Shaped(ts, d, k)
    BY WideIs
  <2>2. d[1][1] \in DOMAIN ts /\ IsLhs(d[1][2], k, Len(ts[d[1][1]][1])) /\ Len(ts[d[1][1]][1]) \in Nat
    BY <2>1, WidthsAre DEF Shaped
  <2>3. k <= Len(ts[d[1][1]][1])
    BY <2>2, LhsIsBounded
  <2>4. k \in 1 .. 9 /\ 9 \in Nat \ {0} /\ k \in Nat
    BY <2>2, <2>3
  <2>5. Projection(ts[d[1][1]], d[1][2]) \subseteq Projection(ts[d[2][1]], d[2][2])
    <3>1. 0 \in Nat /\ 1 \in Nat \ {0}
      OBVIOUS
    <3> QED BY <1>2, <2>2, <3>1, ErrorsAgree
  <2>6. IsExact(ts, d, k)
    BY <1>2, <2>1, <2>4, <2>5, CoveredIs DEF IsExact
  <2> QED BY <2>1, <2>4, <2>6, ExactIsFound
<1> QED BY <1>1, <1>2 DEF MindIsRight
=============================================================================
