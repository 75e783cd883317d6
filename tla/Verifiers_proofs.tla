--------------------------- MODULE Verifiers_proofs -------------------------
(***************************************************************************)
(* Proofs that the verifiers of functional, unique, probabilistic,         *)
(* numerical, differential and conditional dependencies and of association *)
(* rules say of any table what is so; and of the properties that           *)
(* DiscoveryTables states of the tables read for these verifiers and for   *)
(* the miners of inclusion dependencies.                                   *)
(***************************************************************************)
EXTENDS Discovery_proofs, DiscoveryTables

-----------------------------------------------------------------------------
(* Sums over classes of rows that have nothing in common.                  *)

(* The operators of Verifiers are those of the same names here.            *)
LEMMA SameSizes == \A S : VE!Cardinality(S) = Cardinality(S)
BY DEF VE!Cardinality, Cardinality

(* Any sum over a finite set that a fold computes.                         *)
IsSumUp(S, w, F) ==
  F = [s \in SUBSET S |-> IF s = {} THEN 0 ELSE F[s \ {CHOOSE x \in s : TRUE}] + w[CHOOSE x \in s : TRUE]]

(* Finite sets that have nothing in common: the sum of their sizes is the  *)
(* size of their union, in whatever order they are taken.                  *)
AreApart(S, A, w) ==
  /\ IsFiniteSet(S)
  /\ \A v \in S : IsFiniteSet(A[v]) /\ w[v] = Cardinality(A[v])
  /\ \A u, v \in S : u # v => A[u] \cap A[v] = {}

(* The sum is that size, and a recursion that computes it has a solution.  *)
LEMMA SumsUp ==
  ASSUME NEW S, NEW A, NEW w, AreApart(S, A, w)
  PROVE  /\ IsFiniteSet(UNION {A[v] : v \in S})
         /\ \E F : IsSumUp(S, w, F)
         /\ \A F : IsSumUp(S, w, F) => F[S] = Cardinality(UNION {A[v] : v \in S})
<1> DEFINE All(s) == UNION {A[v] : v \in s}
           G == [s \in SUBSET S |-> Cardinality(All(s))]
           next(s) == s \ {CHOOSE x \in s : TRUE}
<1>0. /\ IsFiniteSet(S) /\ \A v \in S : IsFiniteSet(A[v]) /\ w[v] = Cardinality(A[v])
      /\ \A u, v \in S : u # v => A[u] \cap A[v] = {}
  BY DEF AreApart
<1>1. ASSUME NEW s \in SUBSET S PROVE IsFiniteSet(All(s))
  <2>1. IsFiniteSet(s)
    BY <1>0, FS_Subset
  <2>2. IsFiniteSet({A[v] : v \in s})
    BY <2>1, ImageIsFinite
  <2>3. \A T \in {A[v] : v \in s} : IsFiniteSet(T)
    BY <1>0
  <2> QED BY <2>2, <2>3, FS_UNION
<1>2. ASSUME NEW s \in SUBSET S, s # {}
      PROVE  /\ next(s) \in SUBSET S /\ (CHOOSE x \in s : TRUE) \in s
             /\ G[s] = G[next(s)] + w[CHOOSE x \in s : TRUE]
             /\ G[next(s)] \in Nat /\ w[CHOOSE x \in s : TRUE] \in Nat
  <2> DEFINE x == CHOOSE x \in s : TRUE
             r == s \ {x}
  <2>1. x \in s
    BY <1>2
  <2> HIDE DEF x
  <2>2. r \in SUBSET S /\ x \in S
    BY <2>1
  <2>3. IsFiniteSet(All(r)) /\ IsFiniteSet(A[x])
    BY <1>0, <1>1, <2>2
  <2>4. All(s) = All(r) \cup A[x]
    BY <2>1
  <2>5. All(r) \cap A[x] = {}
    <3> SUFFICES ASSUME NEW e \in All(r), e \in A[x] PROVE FALSE
      OBVIOUS
    <3>1. PICK v \in r : e \in A[v]
      OBVIOUS
    <3>2. v \in S /\ v # x
      OBVIOUS
    <3> QED BY <1>0, <2>2, <3>1, <3>2
  <2> HIDE DEF All, r
  <2>6. Cardinality(All(s)) = Cardinality(All(r)) + Cardinality(A[x])
    BY <2>3, <2>4, <2>5, UnionIsSum
  <2>7. Cardinality(All(r)) \in Nat /\ Cardinality(A[x]) \in Nat
    BY <2>3, FS_CardinalityType
  <2>8. G[s] = G[r] + w[x] /\ G[r] \in Nat /\ w[x] \in Nat
    BY <1>0, <2>2, <2>6, <2>7
  <2> QED BY <2>1, <2>2, <2>8 DEF x, r
<1>3. G[{}] = 0
  <2>1. All({}) = {}
    OBVIOUS
  <2> QED BY <2>1, FS_EmptySet
<1>4. G = [s \in SUBSET S |-> G[s]] /\ G[S] = Cardinality(All(S))
  OBVIOUS
<1>5. IsFiniteSet(All(S))
  BY <1>1
<1> HIDE DEF G, All
<1>6. IsSumUp(S, w, G)
  <2>1. \A s \in SUBSET S : G[s] = IF s = {} THEN 0 ELSE G[next(s)] + w[CHOOSE x \in s : TRUE]
    BY <1>2, <1>3
  <2> QED BY <1>4, <2>1, Zenon DEF IsSumUp
<1>7. ASSUME NEW F, IsSumUp(S, w, F) PROVE F[S] = G[S]
  <2> DEFINE P == {s \in SUBSET S : F[s] = G[s]}
  <2>1. \A s \in SUBSET S : F[s] = IF s = {} THEN 0 ELSE F[next(s)] + w[CHOOSE x \in s : TRUE]
    BY <1>7, Zenon DEF IsSumUp
  <2>2. ASSUME NEW s \in SUBSET S, \A x \in s : s \ {x} \in P PROVE s \in P
    <3>1. CASE s = {}
      BY <1>3, <2>1, <3>1
    <3>2. CASE s # {}
      <4>1. F[next(s)] = G[next(s)]
        BY <1>2, <2>2, <3>2
      <4> HIDE DEF next
      <4> QED BY <1>2, <2>1, <3>2, <4>1
    <3> QED BY <3>1, <3>2
  <2> HIDE DEF P
  <2>3. \A s \in SUBSET S : s \in P
    BY <1>0, <2>2, BySubsets
  <2> QED BY <2>3 DEF P
<1> QED BY <1>4, <1>5, <1>6, <1>7 DEF All

(* A fold takes the value of any function that solves its recursion.       *)
IsTotalSize(S, F) ==
  F = [s \in SUBSET S |-> IF s = {} THEN 0 ELSE F[s \ {CHOOSE x \in s : TRUE}] + VE!Cardinality(CHOOSE x \in s : TRUE)]
IsTotalOfPairs(S, F) ==
  F = [s \in SUBSET S |-> IF s = {} THEN 0
                          ELSE F[s \ {CHOOSE x \in s : TRUE}] + VE!OrderedPairs(VE!Cardinality(CHOOSE x \in s : TRUE))]
IsTotalOfConflicts(S, F) ==
  F = [s \in SUBSET S |-> IF s = {} THEN 0 ELSE F[s \ {CHOOSE x \in s : TRUE}] + (CHOOSE x \in s : TRUE).conflicts]

(* The folds of the module are solutions of the recursions above.          *)
LEMMA FoldsAre ==
  ASSUME NEW S
  PROVE  /\ VE!Total(S) = (CHOOSE F : IsTotalSize(S, F))[S]
         /\ VE!TotalPairs(S) = (CHOOSE F : IsTotalOfPairs(S, F))[S]
         /\ VE!FoldSet(LAMBDA h, n : n + h.conflicts, 0, S) = (CHOOSE F : IsTotalOfConflicts(S, F))[S]
<1>1. VE!Total(S) = (CHOOSE F : IsTotalSize(S, F))[S]
  BY Zenon DEF VE!Total, VE!FoldSet, VE!MapThenFoldSet, IsTotalSize
<1>2. VE!TotalPairs(S) = (CHOOSE F : IsTotalOfPairs(S, F))[S]
  BY Zenon DEF VE!TotalPairs, VE!FoldSet, VE!MapThenFoldSet, IsTotalOfPairs
<1>3. VE!FoldSet(LAMBDA h, n : n + h.conflicts, 0, S) = (CHOOSE F : IsTotalOfConflicts(S, F))[S]
  BY Zenon DEF VE!FoldSet, VE!MapThenFoldSet, IsTotalOfConflicts
<1> QED BY <1>1, <1>2, <1>3

(* The rows of finite classes that have none in common.                    *)
AreClasses(S) == IsFiniteSet(S) /\ (\A K \in S : IsFiniteSet(K)) /\ \A K, L \in S : K # L => K \cap L = {}

(* The sizes of classes that have nothing in common add up to the number   *)
(* of their rows.                                                          *)
LEMMA TotalIs ==
  ASSUME NEW S, AreClasses(S)
  PROVE  /\ IsFiniteSet(UNION S) /\ VE!Total(S) = Cardinality(UNION S) /\ Cardinality(UNION S) \in Nat
<1> DEFINE A == [K \in S |-> K]
           w == [K \in S |-> Cardinality(K)]
<1>1. AreApart(S, A, w)
  BY DEF AreClasses, AreApart
<1>2. UNION {A[K] : K \in S} = UNION S
  OBVIOUS
<1>3. \A F : IsTotalSize(S, F) <=> IsSumUp(S, w, F)
  <2> SUFFICES ASSUME NEW F PROVE IsTotalSize(S, F) <=> IsSumUp(S, w, F)
    OBVIOUS
  <2>1. \A s \in SUBSET S : s # {} => w[CHOOSE x \in s : TRUE] = VE!Cardinality(CHOOSE x \in s : TRUE)
    BY SameSizes
  <2> HIDE DEF w
  <2> QED BY <2>1, Zenon DEF IsTotalSize, IsSumUp
<1> HIDE DEF A, w
<1>4. /\ IsFiniteSet(UNION {A[K] : K \in S}) /\ \E F : IsSumUp(S, w, F)
      /\ \A F : IsSumUp(S, w, F) => F[S] = Cardinality(UNION {A[K] : K \in S})
  BY <1>1, SumsUp
<1>5. IsTotalSize(S, CHOOSE F : IsTotalSize(S, F))
  BY <1>3, <1>4, Zenon
<1> QED BY <1>2, <1>3, <1>4, <1>5, FoldsAre, FS_CardinalityType

(* The sums over sets of classes.                                          *)
LEMMA PairsSumUp ==
  ASSUME NEW S, NEW A, NEW w, AreApart(S, A, w), \A K \in S : w[K] = VE!OrderedPairs(Cardinality(K))
  PROVE  VE!TotalPairs(S) = Cardinality(UNION {A[K] : K \in S})
<1>1. /\ \E F : IsSumUp(S, w, F)
      /\ \A F : IsSumUp(S, w, F) => F[S] = Cardinality(UNION {A[K] : K \in S})
  BY SumsUp
<1>2. \A s \in SUBSET S : s # {} =>
        w[CHOOSE x \in s : TRUE] = VE!OrderedPairs(VE!Cardinality(CHOOSE x \in s : TRUE))
  <2> TAKE s \in SUBSET S
  <2> HAVE s # {}
  <2>1. (CHOOSE x \in s : TRUE) \in S
    OBVIOUS
  <2> QED BY <2>1, SameSizes
<1>3. \A F : IsTotalOfPairs(S, F) <=> IsSumUp(S, w, F)
  BY <1>2, Zenon DEF IsTotalOfPairs, IsSumUp
<1>4. IsTotalOfPairs(S, CHOOSE F : IsTotalOfPairs(S, F))
  BY <1>1, <1>3, Zenon
<1> QED BY <1>1, <1>3, <1>4, FoldsAre

ConflictsOf(S) == VE!FoldSet(LAMBDA h, n : n + h.conflicts, 0, S)

(* So do the conflicts that are counted per class.                         *)
LEMMA ConflictsSumUp ==
  ASSUME NEW S, NEW A, NEW w, AreApart(S, A, w), \A h \in S : w[h] = h.conflicts
  PROVE  ConflictsOf(S) = Cardinality(UNION {A[h] : h \in S})
<1>1. /\ \E F : IsSumUp(S, w, F)
      /\ \A F : IsSumUp(S, w, F) => F[S] = Cardinality(UNION {A[h] : h \in S})
  BY SumsUp
<1>2. \A s \in SUBSET S : s # {} => w[CHOOSE x \in s : TRUE] = (CHOOSE x \in s : TRUE).conflicts
  <2> TAKE s \in SUBSET S
  <2> HAVE s # {}
  <2>1. (CHOOSE x \in s : TRUE) \in S
    OBVIOUS
  <2> QED BY <2>1
<1>3. \A F : IsTotalOfConflicts(S, F) <=> IsSumUp(S, w, F)
  BY <1>2, Zenon DEF IsTotalOfConflicts, IsSumUp
<1>4. IsTotalOfConflicts(S, CHOOSE F : IsTotalOfConflicts(S, F))
  BY <1>1, <1>3, Zenon
<1>5. ConflictsOf(S) = (CHOOSE F : IsTotalOfConflicts(S, F))[S]
  BY FoldsAre DEF ConflictsOf
<1> QED BY <1>1, <1>3, <1>4, <1>5

(* The classes with several rows.                                          *)
Stripped(t, X) == {K \in VE!Classes(t, X) : VE!Cardinality(K) > 1}
IsARows(t) == \E V : t \in Seq(V)

(* A table has finitely many rows, as many as it is long.                  *)
LEMMA RowsAreFinite ==
  ASSUME NEW t, IsARows(t)
  PROVE  /\ IsFiniteSet(DOMAIN t) /\ Cardinality(DOMAIN t) = VE!Len(t) /\ VE!Len(t) \in Nat
<1>1. PICK V : t \in Seq(V)
  BY DEF IsARows
<1>2. VE!Len(t) = Len(t) /\ Len(t) \in Nat /\ DOMAIN t = 1 .. Len(t)
  BY <1>1
<1>3. IsFiniteSet(1 .. Len(t)) /\ Cardinality(1 .. Len(t)) = IF 1 > Len(t) THEN 0 ELSE Len(t) - 1 + 1
  BY <1>2, FS_Interval
<1>4. Cardinality(1 .. Len(t)) = Len(t)
  BY <1>2, <1>3
<1> QED BY <1>2, <1>3, <1>4

(* Classes are classes of all rows: each row is in one of them, with the   *)
(* rows that are equal to it.                                              *)
LEMMA ClassesPart ==
  ASSUME NEW t, IsARows(t), NEW X
  PROVE  /\ \A r \in DOMAIN t : r \in VE!Class(t, X, r) /\ VE!Class(t, X, r) \in VE!Classes(t, X)
         /\ \A K \in VE!Classes(t, X) : \A r \in K : r \in DOMAIN t /\ K = VE!Class(t, X, r)
         /\ \A K \in VE!Classes(t, X) : IsFiniteSet(K) /\ K # {}
         /\ AreClasses(VE!Classes(t, X)) /\ UNION VE!Classes(t, X) = DOMAIN t
<1>1. \A r \in DOMAIN t : r \in VE!Class(t, X, r) /\ VE!Class(t, X, r) \in VE!Classes(t, X)
  BY DEF VE!Class, VE!Classes, VE!Equal, VE!Rows
<1>2. \A K \in VE!Classes(t, X) : \A r \in K : r \in DOMAIN t /\ K = VE!Class(t, X, r)
  BY DEF VE!Class, VE!Classes, VE!Equal, VE!Rows
<1>3. \A K \in VE!Classes(t, X) : IsFiniteSet(K) /\ K # {}
  <2> TAKE K \in VE!Classes(t, X)
  <2>1. K \subseteq DOMAIN t
    BY <1>2
  <2>2. K # {}
    BY <1>1 DEF VE!Classes, VE!Rows
  <2> QED BY <2>1, <2>2, RowsAreFinite, FS_Subset
<1>4. IsFiniteSet(VE!Classes(t, X))
  <2> DEFINE f == [r \in DOMAIN t |-> VE!Class(t, X, r)]
  <2>1. IsFiniteSet({f[r] : r \in DOMAIN t})
    BY RowsAreFinite, ImageIsFinite
  <2>2. {f[r] : r \in DOMAIN t} = VE!Classes(t, X)
    BY DEF VE!Classes, VE!Rows
  <2> QED BY <2>1, <2>2
<1>5. \A K, L \in VE!Classes(t, X) : K # L => K \cap L = {}
  BY <1>2
<1>6. UNION VE!Classes(t, X) = DOMAIN t
  BY <1>1, <1>2
<1> QED BY <1>1, <1>2, <1>3, <1>4, <1>5, <1>6 DEF AreClasses

(* An index has the classes with two different rows.                       *)
LEMMA LargeClasses ==
  ASSUME NEW t, IsARows(t), NEW X, NEW K \in VE!Classes(t, X)
  PROVE  K \in Stripped(t, X) <=> \E r, s \in K : r # s
<1>1. IsFiniteSet(K)
  BY ClassesPart
<1>2. Cardinality(K) > 1 <=> \E r, s \in K : r # s
  BY <1>1, MoreThanOne
<1>3. VE!Cardinality(K) = Cardinality(K)
  BY SameSizes
<1> QED BY <1>2, <1>3 DEF Stripped

(* The intersection of two indexes is the index of both sets of columns.   *)
LEMMA IntersectIs ==
  ASSUME NEW t, IsARows(t), NEW X, NEW Y
  PROVE  VE!Intersect(Stripped(t, X), Stripped(t, Y)) = Stripped(t, X \cup Y)
<1> DEFINE P == Stripped(t, X)
           Q == Stripped(t, Y)
           Z == X \cup Y
<1>0. \A r \in DOMAIN t : VE!Class(t, Z, r) = VE!Class(t, X, r) \cap VE!Class(t, Y, r)
  BY DEF VE!Class, VE!Equal
<1>1. ASSUME NEW K \in VE!Intersect(P, Q) PROVE K \in Stripped(t, Z)
  <2>1. PICK a \in P, b \in Q : K = a \cap b /\ VE!Cardinality(K) > 1
    BY DEF VE!Intersect
  <2>2. a \in VE!Classes(t, X) /\ b \in VE!Classes(t, Y)
    BY DEF Stripped
  <2>3. K # {}
    <3>1. Cardinality({}) = 0
      BY FS_EmptySet
    <3> QED BY <2>1, <3>1, SameSizes
  <2>4. PICK r : r \in K
    BY <2>3
  <2>5. r \in DOMAIN t /\ a = VE!Class(t, X, r) /\ b = VE!Class(t, Y, r)
    BY <2>1, <2>2, <2>4, ClassesPart
  <2>6. K = VE!Class(t, Z, r) /\ K \in VE!Classes(t, Z)
    <3>1. VE!Class(t, Z, r) \in VE!Classes(t, Z)
      BY <2>5, ClassesPart
    <3> QED BY <1>0, <2>1, <2>5, <3>1
  <2> QED BY <2>1, <2>6 DEF Stripped
<1>2. ASSUME NEW K \in Stripped(t, Z) PROVE K \in VE!Intersect(P, Q)
  <2>1. K \in VE!Classes(t, Z) /\ VE!Cardinality(K) > 1
    BY DEF Stripped
  <2>2. PICK r, s \in K : r # s
    BY <2>1, LargeClasses
  <2>3. r \in DOMAIN t /\ K = VE!Class(t, Z, r)
    BY <2>1, ClassesPart
  <2>4. VE!Class(t, X, r) \in P /\ VE!Class(t, Y, r) \in Q
    <3>1. VE!Class(t, X, r) \in VE!Classes(t, X) /\ VE!Class(t, Y, r) \in VE!Classes(t, Y)
      BY <2>3, ClassesPart
    <3>2. {r, s} \subseteq VE!Class(t, X, r) /\ {r, s} \subseteq VE!Class(t, Y, r)
      BY <1>0, <2>3
    <3> QED BY <2>2, <3>1, <3>2, LargeClasses
  <2>5. K \in {a \cap b : a \in P, b \in Q}
    <3>1. K = VE!Class(t, X, r) \cap VE!Class(t, Y, r)
      BY <1>0, <2>3
    <3> HIDE DEF P, Q
    <3> QED BY <2>4, <3>1
  <2> HIDE DEF P, Q
  <2> QED BY <2>1, <2>5 DEF VE!Intersect
<1> QED BY <1>1, <1>2

(* The index of a set of columns: its classes with several rows.           *)
IsIndexing(t, c0, S, F) ==
  F = [s \in SUBSET S |-> IF s = {} THEN VE!CreateFor(t, c0)
                          ELSE VE!Intersect(F[s \ {CHOOSE x \in s : TRUE}], VE!CreateFor(t, CHOOSE x \in s : TRUE))]

(* However the indexes of single columns are intersected, the result has   *)
(* the classes of more than one row.                                       *)
LEMMA IndexIs ==
  ASSUME NEW t, IsARows(t), NEW X \in SUBSET Int, IsFiniteSet(X), X # {}
  PROVE  VE!IndexOf(t, X) = Stripped(t, X)
<1> DEFINE c0 == VE!Min(X)
           S == X \ {c0}
           G == [s \in SUBSET S |-> Stripped(t, {c0} \cup s)]
           next(s) == s \ {CHOOSE x \in s : TRUE}
<1>0. \A c : VE!CreateFor(t, c) = Stripped(t, {c})
  BY DEF VE!CreateFor, Stripped, VE!Classes, VE!Class, VE!Equal
<1>1. c0 \in X
  <2>1. \E x \in X : \A y \in X : x <= y
    <3> DEFINE Has == {T \in SUBSET X : T # {} => \E x \in T : \A y \in T : x <= y}
    <3>1. ASSUME NEW T \in SUBSET X, \A x \in T : T \ {x} \in Has PROVE T \in Has
      <4> SUFFICES ASSUME T # {} PROVE \E x \in T : \A y \in T : x <= y
        OBVIOUS
      <4>1. PICK z \in T : TRUE
        OBVIOUS
      <4>2. CASE T \ {z} = {}
        BY <4>1, <4>2
      <4>3. CASE T \ {z} # {}
        <5>1. PICK x \in T \ {z} : \A y \in T \ {z} : x <= y
          BY <3>1, <4>1, <4>3
        <5> QED BY <4>1, <5>1
      <4> QED BY <4>2, <4>3
    <3> HIDE DEF Has
    <3>2. X \in Has
      BY <3>1, BySubsets
    <3> QED BY <3>2 DEF Has
  <2> QED BY <2>1 DEF VE!Min
<1> HIDE DEF c0
<1>2. IsFiniteSet(S)
  BY FS_Subset
<1>3. ASSUME NEW s \in SUBSET S, s # {}
      PROVE  /\ next(s) \in SUBSET S /\ (CHOOSE x \in s : TRUE) \in s
             /\ G[s] = VE!Intersect(G[next(s)], VE!CreateFor(t, CHOOSE x \in s : TRUE))
  <2> DEFINE x == CHOOSE x \in s : TRUE
  <2>1. x \in s
    BY <1>3
  <2> HIDE DEF x
  <2>2. s \ {x} \in SUBSET S /\ ({c0} \cup (s \ {x})) \cup {x} = {c0} \cup s
    BY <2>1
  <2>3. G[s \ {x}] = Stripped(t, {c0} \cup (s \ {x})) /\ G[s] = Stripped(t, {c0} \cup s)
    BY <2>2
  <2>4. G[s] = VE!Intersect(G[s \ {x}], VE!CreateFor(t, x))
    <3>1. VE!Intersect(Stripped(t, {c0} \cup (s \ {x})), Stripped(t, {x})) = Stripped(t, ({c0} \cup (s \ {x})) \cup {x})
      BY IntersectIs
    <3> HIDE DEF G
    <3> QED BY <1>0, <2>2, <2>3, <3>1
  <2> QED BY <2>1, <2>2, <2>4 DEF x
<1>4. G[{}] = VE!CreateFor(t, c0)
  <2>1. G[{}] = Stripped(t, {c0} \cup {}) /\ {c0} \cup {} = {c0}
    OBVIOUS
  <2> QED BY <1>0, <2>1
<1>5. G = [s \in SUBSET S |-> G[s]] /\ G[S] = Stripped(t, X)
  <2>1. {c0} \cup S = X /\ S \in SUBSET S
    BY <1>1
  <2> QED BY <2>1
<1> HIDE DEF G
<1>6. IsIndexing(t, c0, S, G)
  <2>1. \A s \in SUBSET S : G[s] = IF s = {} THEN VE!CreateFor(t, c0)
          ELSE VE!Intersect(G[next(s)], VE!CreateFor(t, CHOOSE x \in s : TRUE))
    BY <1>3, <1>4
  <2> QED BY <1>5, <2>1, Zenon DEF IsIndexing
<1>7. ASSUME NEW F, IsIndexing(t, c0, S, F) PROVE F[S] = G[S]
  <2> DEFINE P == {s \in SUBSET S : F[s] = G[s]}
  <2>1. \A s \in SUBSET S : F[s] = IF s = {} THEN VE!CreateFor(t, c0)
          ELSE VE!Intersect(F[next(s)], VE!CreateFor(t, CHOOSE x \in s : TRUE))
    BY <1>7, Zenon DEF IsIndexing
  <2>2. ASSUME NEW s \in SUBSET S, \A x \in s : s \ {x} \in P PROVE s \in P
    <3>1. CASE s = {}
      BY <1>4, <2>1, <3>1
    <3>2. CASE s # {}
      <4>1. F[next(s)] = G[next(s)]
        BY <1>3, <2>2, <3>2
      <4> HIDE DEF next
      <4> QED BY <1>3, <2>1, <3>2, <4>1
    <3> QED BY <3>1, <3>2
  <2> HIDE DEF P
  <2>3. \A s \in SUBSET S : s \in P
    BY <1>2, <2>2, BySubsets
  <2> QED BY <2>3 DEF P
<1>8. VE!IndexOf(t, X) = (CHOOSE F : IsIndexing(t, c0, S, F))[S]
  BY Zenon DEF VE!IndexOf, VE!FoldSet, VE!MapThenFoldSet, IsIndexing, c0
<1>9. IsIndexing(t, c0, S, CHOOSE F : IsIndexing(t, c0, S, F))
  BY <1>6, Zenon
<1> QED BY <1>5, <1>7, <1>8, <1>9

(* A finite set of rows in parts, of which fs are some and the others      *)
(* single rows: how many parts there are follows from fs.                  *)
LEMMA CountParts ==
  ASSUME NEW P, AreClasses(P), NEW fs \in SUBSET P, \A K \in P : K # {}, \A K \in P \ fs : \A x, y \in K : x = y
  PROVE  /\ AreClasses(fs)
         /\ Cardinality(P) = Cardinality(fs) + Cardinality(UNION P) - VE!Total(fs)
         /\ IsFiniteSet(UNION P) /\ Cardinality(UNION P) \in Nat /\ Cardinality(P) \in Nat
<1> DEFINE R == (UNION P) \ UNION fs
           f == [r \in R |-> {r}]
<1>1. AreClasses(fs)
  BY FS_Subset DEF AreClasses
<1>2. IsFiniteSet(UNION P) /\ Cardinality(UNION P) \in Nat /\ IsFiniteSet(P)
  BY TotalIs DEF AreClasses
<1>3. IsFiniteSet(UNION fs) /\ VE!Total(fs) = Cardinality(UNION fs)
  BY <1>1, TotalIs
<1>4. IsFiniteSet(R) /\ R \cap UNION fs = {} /\ R \cup UNION fs = UNION P
  BY <1>2, FS_Subset
<1>5. Cardinality(UNION P) = Cardinality(R) + Cardinality(UNION fs)
  BY <1>3, <1>4, UnionIsSum
<1>6. \A K \in P \ fs : \E r \in R : K = {r}
  <2> TAKE K \in P \ fs
  <2>1. PICK r \in K : TRUE
    OBVIOUS
  <2>2. K = {r}
    BY <2>1
  <2>3. r \notin UNION fs
    BY <2>1 DEF AreClasses
  <2> QED BY <2>1, <2>2, <2>3
<1>7. \A r \in R : {r} \in P \ fs
  <2> TAKE r \in R
  <2>1. PICK K \in P : r \in K
    OBVIOUS
  <2>2. K \in P \ fs
    BY <2>1
  <2> QED BY <2>1, <2>2
<1>8. f \in Bijection(R, P \ fs)
  <2>1. /\ \A r \in R : f[r] \in P \ fs
        /\ \A r, s \in R : f[r] = f[s] => r = s
        /\ \A K \in P \ fs : \E r \in R : f[r] = K
    <3>1. \A r \in R : f[r] = {r}
      OBVIOUS
    <3>2. \A r \in R : f[r] \in P \ fs
      BY <1>7, <3>1
    <3>3. \A r, s \in R : f[r] = f[s] => r = s
      BY <3>1
    <3>4. \A K \in P \ fs : \E r \in R : f[r] = K
      BY <1>6, <3>1
    <3> QED BY <3>2, <3>3, <3>4
  <2>2. f = [r \in R |-> f[r]]
    OBVIOUS
  <2> HIDE DEF f, R
  <2>3. f \in [R -> P \ fs]
    BY <2>1, <2>2
  <2> QED BY <2>1, <2>3, Zenon DEF Bijection, Injection, Surjection, IsInjective
<1>9. IsFiniteSet(P \ fs) /\ Cardinality(P \ fs) = Cardinality(R)
  <2>1. ExistsBijection(R, P \ fs)
    BY <1>8 DEF ExistsBijection
  <2> QED BY <1>4, <2>1, FS_Bijection
<1>10. Cardinality(P) = Cardinality(fs) + Cardinality(P \ fs)
  <2>1. fs \cup (P \ fs) = P /\ fs \cap (P \ fs) = {} /\ IsFiniteSet(fs)
    BY <1>1 DEF AreClasses
  <2> QED BY <1>9, <2>1, UnionIsSum
<1>11. Cardinality(fs) \in Nat /\ Cardinality(R) \in Nat /\ Cardinality(UNION fs) \in Nat /\ Cardinality(P) \in Nat
  <2>1. IsFiniteSet(fs)
    BY <1>1 DEF AreClasses
  <2> QED BY <1>2, <1>3, <1>4, <2>1, FS_CardinalityType
<1> QED BY <1>1, <1>2, <1>3, <1>5, <1>9, <1>10, <1>11

(* As many clusters as classes.                                            *)
LEMMA NumClusterIs ==
  ASSUME NEW t, IsARows(t), NEW X
  PROVE  VE!NumCluster(t, Stripped(t, X)) = Cardinality(VE!Classes(t, X)) /\ Cardinality(VE!Classes(t, X)) \in Nat
<1> DEFINE P == VE!Classes(t, X)
           fs == Stripped(t, X)
<1>1. AreClasses(P) /\ (\A K \in P : K # {}) /\ UNION P = DOMAIN t
  BY ClassesPart
<1>2. fs \in SUBSET P
  BY DEF Stripped
<1>3. \A K \in P \ fs : \A x, y \in K : x = y
  BY LargeClasses
<1> HIDE DEF P, fs
<1>4. /\ Cardinality(P) = Cardinality(fs) + Cardinality(UNION P) - VE!Total(fs)
      /\ Cardinality(P) \in Nat
  BY <1>1, <1>2, <1>3, CountParts
<1>5. VE!NumCluster(t, fs) = Cardinality(fs) + VE!Len(t) - VE!Total(fs)
  BY SameSizes DEF VE!NumCluster
<1> QED BY <1>1, <1>4, <1>5, RowsAreFinite DEF P, fs

(* As many classes of X as of X and Y together: X determines Y.            *)
LEMMA NoneBroken ==
  ASSUME NEW t, IsARows(t), NEW X, NEW Y,
         Cardinality(VE!Classes(t, X)) = Cardinality(VE!Classes(t, X \cup Y)),
         NEW r \in DOMAIN t, NEW s \in DOMAIN t, VE!Equal(t, X, r, s)
  PROVE  VE!Equal(t, Y, r, s)
<1> DEFINE P == VE!Classes(t, X)
           Q == VE!Classes(t, X \cup Y)
           f == [K \in Q |-> VE!Class(t, X, CHOOSE x \in K : TRUE)]
           Of(Z, x) == VE!Class(t, Z, x)
<1>1. \A Z : \A x \in DOMAIN t : Of(Z, x) \in VE!Classes(t, Z) /\ x \in Of(Z, x)
  BY ClassesPart
<1>2. \A x \in DOMAIN t : f[Of(X \cup Y, x)] = Of(X, x)
  <2> TAKE x \in DOMAIN t
  <2> DEFINE K == Of(X \cup Y, x)
             y == CHOOSE z \in K : TRUE
  <2>1. K \in Q /\ y \in K
    BY <1>1
  <2>2. y \in Of(X, x)
    BY <2>1 DEF VE!Class, VE!Equal
  <2>3. Of(X, x) = VE!Class(t, X, y)
    BY <1>1, <2>2, ClassesPart
  <2> QED BY <2>1, <2>3
<1>3. \A Z : \A K \in VE!Classes(t, Z) : \E x \in DOMAIN t : K = Of(Z, x)
  BY DEF VE!Classes, VE!Rows
<1>4. f \in Surjection(Q, P)
  <2>0. /\ \A x \in DOMAIN t : Of(X, x) \in P /\ Of(X \cup Y, x) \in Q
        /\ \A K \in Q : \E x \in DOMAIN t : K = Of(X \cup Y, x)
        /\ \A K \in P : \E x \in DOMAIN t : K = Of(X, x)
    <3> HIDE DEF Of
    <3> QED BY <1>1, <1>3
  <2>1. \A K \in Q : f[K] \in P
    <3> HIDE DEF f, P, Q, Of
    <3> QED BY <1>2, <2>0
  <2>2. \A L \in P : \E K \in Q : f[K] = L
    <3> TAKE L \in P
    <3>1. PICK x \in DOMAIN t : L = Of(X, x)
      BY <2>0
    <3>2. Of(X \cup Y, x) \in Q /\ f[Of(X \cup Y, x)] = L
      <4> HIDE DEF f, P, Q, Of
      <4> QED BY <1>2, <2>0, <3>1
    <3> QED BY <3>2
  <2>3. f = [K \in Q |-> f[K]]
    OBVIOUS
  <2> HIDE DEF f, P, Q
  <2> QED BY <2>1, <2>2, <2>3 DEF Surjection
<1>5. IsFiniteSet(Q)
  BY ClassesPart DEF AreClasses
<1>6. f \in Injection(Q, P)
  <2> HIDE DEF f, P, Q
  <2>1. Cardinality(Q) = Cardinality(P)
    BY DEF P, Q
  <2> QED BY <1>4, <1>5, <2>1, FS_SurjSameCardinalityImpliesInj
<1>7. Of(X, r) = Of(X, s)
  <2>1. s \in Of(X, r)
    BY DEF VE!Class, VE!Rows
  <2> QED BY <1>1, <2>1, ClassesPart
<1>8. Of(X \cup Y, r) = Of(X \cup Y, s)
  <2>1. f[Of(X \cup Y, r)] = f[Of(X \cup Y, s)] /\ Of(X \cup Y, r) \in Q /\ Of(X \cup Y, s) \in Q
    BY <1>1, <1>2, <1>7
  <2> HIDE DEF f, P, Q, Of
  <2> QED BY <1>6, <2>1, Zenon DEF Injection, IsInjective
<1> QED BY <1>1, <1>8 DEF VE!Class, VE!Equal

(* Pairs of different members of classes that have nothing in common.      *)
LEMMA PairsAreSummed ==
  ASSUME NEW S, AreClasses(S)
  PROVE  /\ VE!TotalPairs(S) = Cardinality(UNION {OffDiagonal(K) : K \in S})
         /\ IsFiniteSet(UNION {OffDiagonal(K) : K \in S})
<1> DEFINE A == [K \in S |-> OffDiagonal(K)]
           w == [K \in S |-> VE!OrderedPairs(Cardinality(K))]
<1>1. \A K \in S : IsFiniteSet(A[K]) /\ w[K] = Cardinality(A[K])
  <2> TAKE K \in S
  <2>1. IsFiniteSet(K)
    BY DEF AreClasses
  <2> QED BY <2>1, PairsAreCounted DEF Pairs, VE!OrderedPairs
<1>2. \A K, L \in S : K # L => A[K] \cap A[L] = {}
  <2> TAKE K, L \in S
  <2> HAVE K # L
  <2>1. K \cap L = {}
    BY DEF AreClasses
  <2>2. \A x \in OffDiagonal(K) : x[1] \in K
    BY DEF OffDiagonal
  <2>3. \A x \in OffDiagonal(L) : x[1] \in L
    BY DEF OffDiagonal
  <2> QED BY <2>1, <2>2, <2>3
<1>3. UNION {A[K] : K \in S} = UNION {OffDiagonal(K) : K \in S}
  OBVIOUS
<1>4. \A K \in S : w[K] = VE!OrderedPairs(Cardinality(K))
  OBVIOUS
<1> HIDE DEF A, w
<1>5. AreApart(S, A, w)
  BY <1>1, <1>2 DEF AreApart, AreClasses
<1>6. VE!TotalPairs(S) = Cardinality(UNION {A[K] : K \in S})
  BY <1>4, <1>5, PairsSumUp
<1>7. IsFiniteSet(UNION {A[K] : K \in S})
  BY <1>5, SumsUp
<1> QED BY <1>3, <1>6, <1>7

(* The verifier of unique columns counts the pairs of equal rows, and its  *)
(* clusters hold the rows that are equal to another one.                   *)
THEOREM UccIsAlwaysRight ==
  ASSUME NEW t, IsARows(t), NEW X \in SUBSET Int, IsFiniteSet(X), X # {}
  PROVE  VE!UccIsRight(t, X)
<1> DEFINE S == Stripped(t, X)
           equal == {x \in VE!Rows(t) \X VE!Rows(t) : x[1] # x[2] /\ VE!Equal(t, X, x[1], x[2])}
<1>1. S \subseteq VE!Classes(t, X)
  BY DEF Stripped
<1>2. AreClasses(S)
  BY <1>1, ClassesPart, FS_Subset DEF AreClasses
<1>3. ASSUME NEW x \in equal PROVE \E K \in S : x \in OffDiagonal(K)
  <2> DEFINE K == VE!Class(t, X, x[1])
  <2>1. x[1] \in DOMAIN t /\ x[2] \in DOMAIN t /\ x = <<x[1], x[2]>> /\ x[1] # x[2]
    BY DEF VE!Rows
  <2>2. K \in VE!Classes(t, X) /\ x[1] \in K /\ x[2] \in K
    <3>1. K \in VE!Classes(t, X) /\ x[1] \in K
      BY <2>1, ClassesPart
    <3>2. VE!Equal(t, X, x[1], x[2])
      OBVIOUS
    <3> QED BY <2>1, <3>1, <3>2 DEF VE!Class, VE!Rows
  <2> HIDE DEF K
  <2>3. x \in OffDiagonal(K)
    BY <2>1, <2>2 DEF OffDiagonal
  <2>4. K \in S
    BY <2>1, <2>2, LargeClasses
  <2> QED BY <2>3, <2>4
<1>4. ASSUME NEW K \in S, NEW x \in OffDiagonal(K) PROVE x \in equal
  <2>1. x[1] \in K /\ x[2] \in K /\ x[1] # x[2] /\ x = <<x[1], x[2]>>
    BY DEF OffDiagonal
  <2>2. x[1] \in DOMAIN t /\ K = VE!Class(t, X, x[1]) /\ x[2] \in DOMAIN t
    <3>1. K \in VE!Classes(t, X)
      BY <1>1
    <3>2. \A r \in K : r \in DOMAIN t /\ K = VE!Class(t, X, r)
      BY <3>1, ClassesPart
    <3> QED BY <2>1, <3>2
  <2>3. VE!Equal(t, X, x[1], x[2])
    BY <2>1, <2>2 DEF VE!Class, VE!Equal
  <2> QED BY <2>1, <2>2, <2>3 DEF VE!Rows
<1>5. \A K \in S : \A r \in K : \E s \in K : r # s
  BY <1>1, LargeClasses
<1> HIDE DEF S, equal
<1>6. UNION {OffDiagonal(K) : K \in S} = equal
  BY <1>3, <1>4
<1>7. UNION S = {x[1] : x \in equal}
  <2>1. ASSUME NEW K \in S, NEW r \in K PROVE r \in {x[1] : x \in equal}
    <3>1. PICK s \in K : r # s
      BY <1>5
    <3>2. <<r, s>> \in OffDiagonal(K)
      BY <3>1 DEF OffDiagonal
    <3>3. <<r, s>> \in equal
      BY <1>4, <3>2
    <3> QED BY <3>3
  <2>2. ASSUME NEW x \in equal PROVE x[1] \in UNION S
    BY <1>3 DEF OffDiagonal
  <2> QED BY <2>1, <2>2
<1>8. VE!TotalPairs(S) = VE!Cardinality(equal)
  BY <1>2, <1>6, PairsAreSummed, SameSizes
<1>9. VE!UccStatistics(t, VE!IndexOf(t, X)).error[1] = VE!TotalPairs(S) /\ VE!UccStatistics(t, VE!IndexOf(t, X)).clusters = S
  BY IndexIs DEF VE!UccStatistics, S
<1> QED BY <1>7, <1>8, <1>9 DEF VE!UccIsRight, equal

(* A class of the left side, and what of it the right side parts.          *)
Split(t, K, Y) == {x \in K \X K : ~VE!Equal(t, Y, x[1], x[2])}

(* The parts of a class by the right side are sets of its rows, with       *)
(* nothing in common, that hold each of them.                              *)
LEMMA PartsArePart ==
  ASSUME NEW t, IsARows(t), NEW K \in SUBSET DOMAIN t, NEW Y
  PROVE  /\ AreClasses(VE!Parts(t, K, Y)) /\ (\A a \in VE!Parts(t, K, Y) : a # {}) /\ UNION VE!Parts(t, K, Y) = K
         /\ VE!Frequencies(K, Stripped(t, Y)) \in SUBSET VE!Parts(t, K, Y)
         /\ \A a \in VE!Parts(t, K, Y) \ VE!Frequencies(K, Stripped(t, Y)) : \A x, y \in a : x = y
<1> DEFINE P == VE!Parts(t, K, Y)
           fs == VE!Frequencies(K, Stripped(t, Y))
           Of(r) == VE!Class(t, Y, r)
<1>1. \A r \in K : r \in Of(r) /\ Of(r) \in VE!Classes(t, Y)
  BY ClassesPart
<1>2. \A a \in P : \E r \in K : a = Of(r) \cap K
  BY DEF VE!Parts
<1>3. \A r \in K : Of(r) \cap K \in P
  BY DEF VE!Parts
<1>4. \A a \in P : \A r \in a : r \in K /\ a = Of(r) \cap K
  <2> TAKE a \in P
  <2> TAKE r \in a
  <2>1. PICK s \in K : a = Of(s) \cap K
    BY <1>2
  <2>2. r \in K /\ r \in Of(s) /\ Of(s) \in VE!Classes(t, Y)
    BY <1>1, <2>1
  <2>3. Of(s) = Of(r)
    BY <2>2, ClassesPart
  <2> QED BY <2>1, <2>2, <2>3
<1>5. IsFiniteSet(K)
  BY RowsAreFinite, FS_Subset
<1>6. IsFiniteSet(P)
  <2> DEFINE f == [r \in K |-> Of(r) \cap K]
  <2>1. IsFiniteSet({f[r] : r \in K})
    BY <1>5, ImageIsFinite
  <2>2. {f[r] : r \in K} = P
    BY DEF VE!Parts
  <2> QED BY <2>1, <2>2
<1>7. \A a \in P : IsFiniteSet(a) /\ a # {}
  <2> TAKE a \in P
  <2>1. a \subseteq K
    BY <1>4
  <2> QED BY <1>1, <1>2, <1>5, <2>1, FS_Subset
<1>8. \A a, b \in P : a # b => a \cap b = {}
  BY <1>4
<1>9. UNION P = K
  <2>1. \A r \in K : r \in Of(r) \cap K /\ Of(r) \cap K \in P
    BY <1>1, <1>3
  <2>2. \A a \in P : \A r \in a : r \in K
    BY <1>4
  <2> HIDE DEF P
  <2> QED BY <2>1, <2>2
<1>10. ASSUME NEW a \in fs PROVE a \in P
  <2>1. PICK b \in Stripped(t, Y) : a = b \cap K /\ a # {}
    BY DEF VE!Frequencies
  <2>2. PICK r \in a : TRUE
    BY <2>1
  <2>3. b = Of(r)
    BY <2>1, <2>2, ClassesPart DEF Stripped
  <2> QED BY <1>3, <2>1, <2>2, <2>3
<1>11. ASSUME NEW a \in P \ fs, NEW x \in a, NEW y \in a, x # y PROVE FALSE
  <2>1. x \in K /\ a = Of(x) \cap K /\ Of(x) \in VE!Classes(t, Y)
    BY <1>1, <1>4
  <2>2. Of(x) \in Stripped(t, Y)
    BY <1>11, <2>1, LargeClasses
  <2>3. a \in fs
    BY <2>1, <2>2 DEF VE!Frequencies
  <2> QED BY <2>3
<1> QED BY <1>6, <1>7, <1>8, <1>9, <1>10, <1>11 DEF AreClasses

(* What a set has besides some of its numbers is ones: the greatest number *)
(* is among those.                                                         *)
LEMMA MaxSame ==
  ASSUME NEW S \in SUBSET Nat, NEW T \in SUBSET S, T # {}, \A x \in T : x >= 1, \A x \in S \ T : x = 1
  PROVE  VE!Max(T) = VE!Max(S)
<1>1. \A x : (x \in T /\ \A y \in T : x >= y) <=> (x \in S /\ \A y \in S : x >= y)
  <2> TAKE x
  <2>1. ASSUME x \in T, \A y \in T : x >= y PROVE \A y \in S : x >= y
    BY <2>1
  <2>2. ASSUME x \in S, \A y \in S : x >= y PROVE x \in T
    <3>1. PICK z \in T : TRUE
      OBVIOUS
    <3>2. CASE x \notin T
      <4>1. x = 1 /\ x >= z /\ z >= 1 /\ z \in Nat
        BY <2>2, <3>1, <3>2
      <4> QED BY <3>1, <4>1
    <3> QED BY <3>2
  <2> QED BY <2>1, <2>2
<1> QED BY <1>1, Zenon DEF VE!Max

(* What is said of one class of the left side is so.                       *)
LEMMA HighlightIs ==
  ASSUME NEW t, IsARows(t), NEW X, NEW K \in VE!Classes(t, X), NEW Y
  PROVE  /\ VE!HighlightOf(K, VE!Frequencies(K, Stripped(t, Y))) =
              [cluster |-> K, distinct |-> VE!Cardinality(VE!Parts(t, K, Y)), frequent |-> VE!Largest(VE!Parts(t, K, Y)),
               conflicts |-> Cardinality(Split(t, K, Y))]
         /\ IsFiniteSet(Split(t, K, Y)) /\ IsFiniteSet(VE!Parts(t, K, Y)) /\ VE!Parts(t, K, Y) # {}
         /\ (\E a, b \in VE!Parts(t, K, Y) : a # b) <=> Split(t, K, Y) # {}
<1> DEFINE P == VE!Parts(t, K, Y)
           fs == VE!Frequencies(K, Stripped(t, Y))
<1>1. K \in SUBSET DOMAIN t /\ IsFiniteSet(K) /\ K # {}
  BY ClassesPart
<1>2. /\ AreClasses(P) /\ (\A a \in P : a # {}) /\ UNION P = K /\ fs \in SUBSET P
      /\ \A a \in P \ fs : \A x, y \in a : x = y
  BY <1>1, PartsArePart
<1>3. ASSUME NEW x \in K, NEW y \in K
      PROVE  /\ VE!Class(t, Y, x) \cap K \in P /\ x \in VE!Class(t, Y, x) \cap K
             /\ y \in VE!Class(t, Y, x) \cap K <=> VE!Equal(t, Y, x, y)
  BY <1>1 DEF VE!Parts, VE!Class, VE!Equal, VE!Rows
<1>4. ASSUME NEW a \in P, NEW x \in a, NEW y \in K
      PROVE  x \in K /\ (y \in a <=> VE!Equal(t, Y, x, y))
  <2>1. x \in K
    BY <1>2
  <2>2. VE!Class(t, Y, x) \cap K \in P /\ x \in VE!Class(t, Y, x) \cap K
    BY <1>3, <2>1
  <2>3. a = VE!Class(t, Y, x) \cap K
    BY <1>2, <2>2 DEF AreClasses
  <2> QED BY <1>3, <2>1, <2>3
<1>5. \A x \in K : \E a \in P : x \in a
  BY <1>2
<1> HIDE DEF P, fs
<1>6. AreClasses(fs) /\ IsFiniteSet(fs) /\ fs \subseteq P
  BY <1>2, FS_Subset DEF AreClasses
<1>7. VE!NumDistinctRhsValues(K, fs) = VE!Cardinality(P)
  <2>1. Cardinality(P) = Cardinality(fs) + Cardinality(K) - VE!Total(fs)
    BY <1>2, CountParts
  <2> QED BY <2>1, SameSizes DEF VE!NumDistinctRhsValues
<1>8. VE!NumMostFrequentRhsValue(fs) = VE!Largest(P)
  <2> DEFINE T == {VE!Cardinality(a) : a \in fs}
             S == {VE!Cardinality(a) : a \in P}
  <2>1. ASSUME NEW a \in P PROVE VE!Cardinality(a) \in Nat /\ VE!Cardinality(a) >= 1
    <3>1. IsFiniteSet(a) /\ a # {}
      BY <1>2 DEF AreClasses
    <3> QED BY <3>1, FS_EmptySet, FS_CardinalityType, SameSizes
  <2>2. ASSUME NEW a \in P \ fs PROVE VE!Cardinality(a) = 1
    <3>1. PICK x \in a : a = {x}
      BY <1>2
    <3> QED BY <3>1, FS_Singleton, SameSizes
  <2>3. CASE fs = {}
    <3>1. PICK a \in P : TRUE
      BY <1>1, <1>5
    <3>2. S = {1}
      BY <2>2, <2>3, <3>1
    <3>3. VE!Max({1}) = 1
      BY DEF VE!Max
    <3> QED BY <2>3, <3>2, <3>3 DEF VE!NumMostFrequentRhsValue, VE!Largest
  <2>4. CASE fs # {}
    <3>1. S \in SUBSET Nat /\ T \in SUBSET S /\ T # {} /\ \A x \in T : x >= 1
      BY <1>6, <2>1, <2>4
    <3>2. \A x \in S \ T : x = 1
      BY <2>2
    <3>3. VE!Max(T) = VE!Max(S)
      <4> HIDE DEF S, T
      <4> QED BY <3>1, <3>2, MaxSame
    <3> QED BY <2>4, <3>3 DEF VE!NumMostFrequentRhsValue, VE!Largest
  <2> QED BY <2>3, <2>4
<1>9. VE!Conflicts(K, fs) = Cardinality(Split(t, K, Y)) /\ IsFiniteSet(Split(t, K, Y))
  <2> DEFINE U == UNION {OffDiagonal(a) : a \in fs}
             D == Split(t, K, Y)
  <2>1. VE!TotalPairs(fs) = Cardinality(U) /\ IsFiniteSet(U)
    BY <1>6, PairsAreSummed
  <2>2. IsFiniteSet(OffDiagonal(K)) /\ Cardinality(OffDiagonal(K)) = VE!OrderedPairs(Cardinality(K))
    BY <1>1, PairsAreCounted DEF Pairs, VE!OrderedPairs
  <2>3. D \subseteq OffDiagonal(K)
    BY DEF Split, OffDiagonal, VE!Equal
  <2>4. ASSUME NEW x \in U PROVE x \in OffDiagonal(K) /\ x \notin D
    <3>1. PICK a \in fs : x \in OffDiagonal(a)
      OBVIOUS
    <3>2. x[1] \in a /\ x[2] \in a /\ x[1] # x[2] /\ x = <<x[1], x[2]>> /\ a \in P
      BY <1>6, <3>1 DEF OffDiagonal
    <3>3. x[1] \in K /\ x[2] \in K
      BY <1>2, <3>2
    <3>4. VE!Equal(t, Y, x[1], x[2])
      BY <1>4, <3>2, <3>3
    <3> QED BY <3>4, <3>2, <3>3 DEF OffDiagonal, Split
  <2>5. ASSUME NEW x \in OffDiagonal(K), x \notin D PROVE x \in U
    <3>1. x[1] \in K /\ x[2] \in K /\ x[1] # x[2] /\ x = <<x[1], x[2]>>
      BY DEF OffDiagonal
    <3>2. VE!Equal(t, Y, x[1], x[2])
      BY <2>5, <3>1 DEF Split
    <3>3. PICK a \in P : x[1] \in a
      BY <1>5, <3>1
    <3>4. x[2] \in a
      BY <1>4, <3>1, <3>2, <3>3
    <3>5. a \in fs /\ x \in OffDiagonal(a)
      BY <1>2, <3>1, <3>3, <3>4 DEF OffDiagonal
    <3> QED BY <3>5
  <2> HIDE DEF D, U
  <2>6. D \cap U = {} /\ D \cup U = OffDiagonal(K) /\ IsFiniteSet(D)
    BY <2>2, <2>3, <2>4, <2>5, FS_Subset
  <2>7. Cardinality(OffDiagonal(K)) = Cardinality(D) + Cardinality(U)
    BY <2>1, <2>6, UnionIsSum
  <2>8. Cardinality(D) \in Nat /\ Cardinality(U) \in Nat
    BY <2>1, <2>6, FS_CardinalityType
  <2>9. VE!Conflicts(K, fs) = VE!OrderedPairs(Cardinality(K)) - VE!TotalPairs(fs)
    BY SameSizes DEF VE!Conflicts
  <2>10. VE!Conflicts(K, fs) = Cardinality(OffDiagonal(K)) - Cardinality(U)
    BY <2>1, <2>2, <2>9
  <2>11. VE!Conflicts(K, fs) = Cardinality(D)
    BY <2>7, <2>8, <2>10
  <2> QED BY <2>6, <2>11 DEF D
<1>10. (\E a, b \in P : a # b) <=> Split(t, K, Y) # {}
  <2>1. ASSUME NEW a \in P, NEW b \in P, a # b PROVE Split(t, K, Y) # {}
    <3>1. a # {} /\ b # {} /\ a \cap b = {}
      BY <1>2, <2>1 DEF AreClasses
    <3>2. PICK x \in a, y \in b : TRUE
      BY <3>1
    <3>3. x \in K /\ y \in K /\ ~VE!Equal(t, Y, x, y)
      BY <1>2, <1>4, <3>1, <3>2
    <3>4. <<x, y>> \in Split(t, K, Y)
      BY <3>3 DEF Split
    <3> QED BY <3>4
  <2>2. ASSUME NEW x \in Split(t, K, Y) PROVE \E a, b \in P : a # b
    <3>1. x[1] \in K /\ x[2] \in K /\ ~VE!Equal(t, Y, x[1], x[2])
      BY DEF Split
    <3>2. PICK a \in P, b \in P : x[1] \in a /\ x[2] \in b
      BY <1>5, <3>1
    <3> QED BY <1>4, <3>1, <3>2
  <2> QED BY <2>1, <2>2
<1>11. IsFiniteSet(P) /\ P # {}
  BY <1>1, <1>5, <1>2 DEF AreClasses
<1>12. VE!HighlightOf(K, fs) = [cluster |-> K, distinct |-> VE!Cardinality(P), frequent |-> VE!Largest(P),
                               conflicts |-> Cardinality(Split(t, K, Y))]
  BY <1>7, <1>8, <1>9 DEF VE!HighlightOf
<1> QED BY <1>9, <1>10, <1>11, <1>12 DEF P, fs

(* Whatever the table: the classes said to break a functional dependency   *)
(* are those that do, with the numbers of their values, and the error      *)
(* counts the pairs of rows that break it.                                 *)
THEOREM FdIsAlwaysRight ==
  ASSUME NEW t, IsARows(t),
         NEW X \in SUBSET Int, IsFiniteSet(X), X # {}, NEW Y \in SUBSET Int, IsFiniteSet(Y), Y # {}
  PROVE  VE!FdIsRight(t, X, Y)
<1> DEFINE p == Stripped(t, X)
           q == Stripped(t, Y)
           Of(K) == VE!HighlightOf(K, VE!Frequencies(K, q))
           H == {h \in {Of(K) : K \in p} : h.distinct # 1}
           parts(K) == VE!Parts(t, K, Y)
           broken == {K \in VE!Classes(t, X) : VE!Cardinality(parts(K)) > 1}
           breaking == VE!Breaking(t, X, Y)
<1>1. ASSUME NEW K \in VE!Classes(t, X)
      PROVE  /\ Of(K) = [cluster |-> K, distinct |-> VE!Cardinality(parts(K)), frequent |-> VE!Largest(parts(K)),
                         conflicts |-> Cardinality(Split(t, K, Y))]
             /\ IsFiniteSet(Split(t, K, Y))
             /\ K \in broken <=> Split(t, K, Y) # {}
             /\ VE!Cardinality(parts(K)) \in Nat /\ VE!Cardinality(parts(K)) # 0
  <2>1. /\ IsFiniteSet(parts(K)) /\ parts(K) # {} /\ IsFiniteSet(Split(t, K, Y))
        /\ (\E a, b \in parts(K) : a # b) <=> Split(t, K, Y) # {}
    BY HighlightIs
  <2>2. Of(K) = [cluster |-> K, distinct |-> VE!Cardinality(parts(K)), frequent |-> VE!Largest(parts(K)),
                 conflicts |-> Cardinality(Split(t, K, Y))]
    BY HighlightIs
  <2>3. Cardinality(parts(K)) > 1 <=> Split(t, K, Y) # {}
    BY <2>1, MoreThanOne
  <2>4. VE!Cardinality(parts(K)) = Cardinality(parts(K)) /\ Cardinality(parts(K)) \in Nat /\ Cardinality(parts(K)) # 0
    BY <2>1, FS_CardinalityType, FS_EmptySet, SameSizes
  <2> QED BY <2>1, <2>2, <2>3, <2>4
<1>2. p \in SUBSET VE!Classes(t, X)
  BY DEF Stripped
<1>3. \A K \in broken : K \in p
  <2> TAKE K \in broken
  <2>0. K \in VE!Classes(t, X)
    OBVIOUS
  <2>1. PICK x \in Split(t, K, Y) : TRUE
    BY <1>1, <2>0
  <2>2. x[1] \in K /\ x[2] \in K /\ ~VE!Equal(t, Y, x[1], x[2])
    BY <2>1 DEF Split
  <2>3. x[1] # x[2]
    BY <2>2 DEF VE!Equal
  <2> QED BY <2>0, <2>2, <2>3, LargeClasses
<1> HIDE DEF p, q, Of, broken
<1>4. H = {Of(K) : K \in broken}
  <2>1. \A K \in p : Of(K).distinct # 1 <=> K \in broken
    BY <1>1, <1>2 DEF broken
  <2> QED BY <1>3, <2>1
<1>5. \A K \in broken : /\ K \in VE!Classes(t, X) /\ Of(K).cluster = K /\ Of(K).conflicts = Cardinality(Split(t, K, Y))
                        /\ Of(K).distinct = VE!Cardinality(parts(K)) /\ Of(K).frequent = VE!Largest(parts(K))
                        /\ IsFiniteSet(Split(t, K, Y))
  BY <1>1 DEF broken
<1> HIDE DEF H
<1>6. \A x : x \in breaking <=> \E K \in broken : x \in Split(t, K, Y)
  <2>1. ASSUME NEW x \in breaking PROVE \E K \in broken : x \in Split(t, K, Y)
    <3> DEFINE K == VE!Class(t, X, x[1])
    <3>1. /\ x[1] \in DOMAIN t /\ x[2] \in DOMAIN t /\ x = <<x[1], x[2]>>
          /\ VE!Equal(t, X, x[1], x[2]) /\ ~VE!Equal(t, Y, x[1], x[2])
      BY DEF VE!Breaking, VE!Rows
    <3>2. K \in VE!Classes(t, X) /\ x[1] \in K
      BY <3>1, ClassesPart
    <3>3. x[2] \in K
      BY <3>1 DEF VE!Class, VE!Rows
    <3> HIDE DEF K
    <3>4. x \in Split(t, K, Y)
      BY <3>1, <3>2, <3>3 DEF Split
    <3> QED BY <1>1, <3>2, <3>4
  <2>2. ASSUME NEW K \in broken, NEW x \in Split(t, K, Y) PROVE x \in breaking
    <3>1. x[1] \in K /\ x[2] \in K /\ ~VE!Equal(t, Y, x[1], x[2]) /\ x = <<x[1], x[2]>>
      BY DEF Split
    <3>2. K \in VE!Classes(t, X)
      BY <1>5
    <3>3. \A r \in K : r \in DOMAIN t /\ K = VE!Class(t, X, r)
      BY <3>2, ClassesPart
    <3>4. VE!Equal(t, X, x[1], x[2])
      BY <3>1, <3>3 DEF VE!Class, VE!Equal
    <3> QED BY <3>1, <3>3, <3>4 DEF VE!Breaking, VE!Rows
  <2> QED BY <2>1, <2>2
<1>7. \A K, L \in broken : K # L => Split(t, K, Y) \cap Split(t, L, Y) = {}
  <2> TAKE K, L \in broken
  <2> HAVE K # L
  <2>1. K \cap L = {}
    BY <1>5, ClassesPart DEF AreClasses
  <2> QED BY <2>1 DEF Split
<1> HIDE DEF breaking
<1>8. ConflictsOf(H) = Cardinality(breaking)
  <2> DEFINE A == [h \in H |-> Split(t, h.cluster, Y)]
             w == [h \in H |-> h.conflicts]
             f == [K \in VE!Classes(t, X) |-> Of(K)]
  <2>1. IsFiniteSet(H)
    <3>0. IsFiniteSet(VE!Classes(t, X))
      BY ClassesPart DEF AreClasses
    <3>1. IsFiniteSet({f[K] : K \in VE!Classes(t, X)})
      BY <3>0, ImageIsFinite
    <3>2. H \subseteq {f[K] : K \in VE!Classes(t, X)}
      BY <1>4, <1>5
    <3> QED BY <3>1, <3>2, FS_Subset
  <2>2. \A h \in H : h.cluster \in broken /\ h = Of(h.cluster)
    BY <1>4, <1>5
  <2>3. \A h \in H : IsFiniteSet(A[h]) /\ w[h] = Cardinality(A[h]) /\ w[h] = h.conflicts
    BY <1>5, <2>2
  <2>4. \A g, h \in H : g # h => A[g] \cap A[h] = {}
    BY <1>7, <2>2
  <2>5. UNION {A[h] : h \in H} = breaking
    <3>1. ASSUME NEW x \in breaking PROVE \E h \in H : x \in A[h]
      <4>1. PICK K \in broken : x \in Split(t, K, Y)
        BY <1>6
      <4>2. Of(K) \in H /\ Of(K).cluster = K
        BY <1>4, <1>5
      <4> QED BY <4>1, <4>2
    <3>2. ASSUME NEW h \in H PROVE A[h] \subseteq breaking
      BY <1>6, <2>2
    <3> QED BY <3>1, <3>2
  <2> HIDE DEF A, w
  <2>6. AreApart(H, A, w)
    BY <2>1, <2>3, <2>4 DEF AreApart
  <2>7. \A h \in H : w[h] = h.conflicts
    BY <2>3
  <2>8. ConflictsOf(H) = Cardinality(UNION {A[h] : h \in H})
    BY <2>6, <2>7, ConflictsSumUp
  <2> QED BY <2>5, <2>8
<1>9. VE!Statistics(t, H) =
        [highlights |-> {[cluster |-> K, distinct |-> VE!Cardinality(parts(K)), frequent |-> VE!Largest(parts(K))] : K \in broken},
         rows |-> VE!Total(broken), error |-> <<Cardinality(breaking), VE!OrderedPairs(VE!Len(t))>>]
  <2>1. {h.cluster : h \in H} = broken
    BY <1>4, <1>5
  <2>2. {[cluster |-> h.cluster, distinct |-> h.distinct, frequent |-> h.frequent] : h \in H}
          = {[cluster |-> K, distinct |-> VE!Cardinality(parts(K)), frequent |-> VE!Largest(parts(K))] : K \in broken}
    BY <1>4, <1>5
  <2>3. VE!FoldSet(LAMBDA h, n : n + h.conflicts, 0, H) = Cardinality(breaking)
    BY <1>8 DEF ConflictsOf
  <2> QED BY <2>1, <2>2, <2>3 DEF VE!Statistics
<1>10. VE!VerifyFD(t, p, q) = VE!Statistics(t, H)
  <2>1. CASE VE!NumCluster(t, p) = VE!NumCluster(t, VE!Intersect(p, q))
    <3>1. Cardinality(VE!Classes(t, X)) = Cardinality(VE!Classes(t, X \cup Y))
      BY <2>1, IntersectIs, NumClusterIs DEF p, q
    <3>2. breaking = {}
      <4> SUFFICES ASSUME NEW x \in breaking PROVE FALSE
        OBVIOUS
      <4>1. x[1] \in DOMAIN t /\ x[2] \in DOMAIN t /\ VE!Equal(t, X, x[1], x[2]) /\ ~VE!Equal(t, Y, x[1], x[2])
        BY DEF breaking, VE!Breaking, VE!Rows
      <4> QED BY <3>1, <4>1, NoneBroken
    <3>3. broken = {}
      BY <1>1, <1>5, <1>6, <3>2
    <3>4. H = {}
      BY <1>4, <3>3
    <3> QED BY <2>1, <3>4 DEF VE!VerifyFD, VE!Satisfied
  <2>2. CASE VE!NumCluster(t, p) # VE!NumCluster(t, VE!Intersect(p, q))
    <3>1. VE!CalculateStatistics(t, p, q) = VE!Statistics(t, H)
      BY DEF VE!CalculateStatistics, H, Of
    <3> QED BY <2>2, <3>1 DEF VE!VerifyFD
  <2> QED BY <2>1, <2>2
<1>11. VE!IndexOf(t, X) = p /\ VE!IndexOf(t, Y) = q
  BY IndexIs DEF p, q
<1>12. VE!Cardinality(breaking) = Cardinality(breaking)
  BY SameSizes
<1> QED BY <1>9, <1>10, <1>11, <1>12 DEF VE!FdIsRight, broken, breaking

(* Bounds of distances that are not negative, on columns of numbers.       *)
AreBounds(t, ks) ==
  \A k \in VE!ToSet(ks) : k.low \in Nat /\ k.high \in Int /\ \A r \in DOMAIN t : t[r][k.column] \in Int

(* A differential dependency, whose distances are not negative: the pairs  *)
(* of rows near each other on the left side and not on the right one are   *)
(* those counted and highlighted.                                          *)
THEOREM DdIsAlwaysRight ==
  ASSUME NEW t, NEW lhs, NEW right, AreBounds(t, lhs), AreBounds(t, right)
  PROVE  VE!DdIsRight(t, lhs, right)
<1> DEFINE near(r, s, ks) == \A k \in VE!ToSet(ks) : t[r][k.column] - t[s][k.column] \in -k.high .. -k.low \cup k.low .. k.high
           wrong == {pair \in VE!PairsOf(t) : near(pair[1], pair[2], lhs) /\ ~near(pair[1], pair[2], right)}
           pairs == VE!GetRowsWhereLhsHolds(t, lhs)
           missing == {pair \in pairs : VE!Missed(t, pair, right) # {}}
           lights == UNION {{<<k.column, pair>> : k \in VE!Missed(t, pair, right)} : pair \in missing}
<1>1. ASSUME NEW pair \in VE!PairsOf(t), NEW ks, AreBounds(t, ks), NEW k \in VE!ToSet(ks)
      PROVE  VE!Within(k, VE!DistanceIn(t, pair, k))
               <=> t[pair[1]][k.column] - t[pair[2]][k.column] \in -k.high .. -k.low \cup k.low .. k.high
  <2>1. /\ t[pair[1]][k.column] \in Int /\ t[pair[2]][k.column] \in Int
        /\ k.low \in Nat /\ k.high \in Int
    BY <1>1 DEF AreBounds, VE!PairsOf, VE!Rows
  <2> QED BY <2>1 DEF VE!Within, VE!DistanceIn, VE!Dist
<1>2. ASSUME NEW pair \in VE!PairsOf(t)
      PROVE  /\ pair \in pairs <=> near(pair[1], pair[2], lhs)
             /\ VE!Missed(t, pair, right) # {} <=> ~near(pair[1], pair[2], right)
  <2>1. pair \in pairs <=> \A k \in VE!ToSet(lhs) : VE!Within(k, VE!DistanceIn(t, pair, k))
    BY DEF VE!GetRowsWhereLhsHolds
  <2>2. VE!Missed(t, pair, right) # {} <=> ~\A k \in VE!ToSet(right) : VE!Within(k, VE!DistanceIn(t, pair, k))
    BY DEF VE!Missed
  <2> QED BY <1>1, <2>1, <2>2
<1>3. pairs \subseteq VE!PairsOf(t)
  BY DEF VE!GetRowsWhereLhsHolds
<1> HIDE DEF near, pairs
<1>4. missing = wrong
  BY <1>2, <1>3
<1>5. {h[2] : h \in lights} = missing
  <2>1. ASSUME NEW pair \in missing PROVE \E h \in lights : pair = h[2]
    <3>1. PICK k \in VE!Missed(t, pair, right) : TRUE
      OBVIOUS
    <3>2. <<k.column, pair>> \in lights
      BY <3>1
    <3> QED BY <3>2
  <2>2. \A h \in lights : h[2] \in missing
    OBVIOUS
  <2> HIDE DEF lights, missing
  <2> QED BY <2>1, <2>2
<1>6. VE!VerifyDD(t, lhs, right).num_error_rhs = VE!Cardinality(missing) /\ VE!VerifyDD(t, lhs, right).highlights = lights
  BY DEF VE!VerifyDD, VE!CheckDFOnRhs, pairs
<1> QED BY <1>4, <1>5, <1>6 DEF VE!DdIsRight, near

(* An association rule, its left side not empty: its support, that of the  *)
(* left side, and the rows that hold some of it, but not all, in clusters  *)
(* that have none in common.                                               *)
THEOREM ArIsAlwaysRight ==
  ASSUME NEW t, NEW lhs, NEW right, lhs # {}
  PROVE  VE!ArIsRight(t, lhs, right)
<1> DEFINE items(r) == VE!ItemsOf(t[r])
           holding(part) == {r \in VE!Rows(t) : part \subseteq items(r)}
           touched == {r \in VE!Rows(t) : lhs \cap items(r) # {}}
           cs == VE!Coefficients(t, lhs, right)
           covered == VE!Covered(cs)
           result == VE!VerifyAR(cs)
<1>1. DOMAIN cs = VE!Rows(t)
  BY DEF VE!Coefficients
<1>2. ASSUME NEW r \in VE!Rows(t)
      PROVE  /\ cs[r].left = "full" <=> items(r) # {} /\ lhs \subseteq items(r)
             /\ cs[r].right = "full" <=> items(r) # {} /\ right \subseteq items(r)
             /\ cs[r].left # "none" <=> lhs \cap items(r) # {}
  <2>1. cs[r].left = VE!Coverage(items(r), lhs) /\ cs[r].right = VE!Coverage(items(r), right)
    BY DEF VE!Coefficients, VE!RuleCoverage
  <2> HIDE DEF items
  <2>2. ASSUME NEW part
        PROVE /\ VE!Coverage(items(r), part) = "full" <=> items(r) # {} /\ part \subseteq items(r)
              /\ part # {} => (VE!Coverage(items(r), part) # "none" <=> part \cap items(r) # {})
    <3>1. CASE items(r) = {}
      BY <3>1 DEF VE!Coverage
    <3>2. CASE items(r) # {} /\ part \subseteq items(r)
      BY <3>2 DEF VE!Coverage
    <3>3. CASE items(r) # {} /\ ~(part \subseteq items(r))
      BY <3>3 DEF VE!Coverage
    <3> QED BY <3>1, <3>2, <3>3
  <2> HIDE DEF cs
  <2> QED BY <2>1, <2>2
<1> HIDE DEF items, cs
<1>3. covered = touched
  BY <1>1, <1>2 DEF VE!Covered
<1>4. {r \in covered : VE!RuleFull(cs, r)} = holding(lhs \cup right)
  BY <1>1, <1>2 DEF VE!Covered, VE!RuleFull
<1>5. {r \in covered : cs[r].left = "full"} = holding(lhs)
  BY <1>1, <1>2 DEF VE!Covered
<1>6. result.support = VE!Cardinality(holding(lhs \cup right)) /\ result.left = VE!Cardinality(holding(lhs))
  BY <1>4, <1>5 DEF VE!VerifyAR
<1>7. result.clusters = {{r \in covered : cs[r] = c} : c \in {cs[r] : r \in {s \in covered : ~VE!RuleFull(cs, s)}}}
  BY DEF VE!VerifyAR
<1>8. UNION result.clusters = touched \ holding(lhs \cup right)
  <2>1. \A r, s \in covered : cs[r] = cs[s] => (VE!RuleFull(cs, r) <=> VE!RuleFull(cs, s))
    BY DEF VE!RuleFull
  <2> HIDE DEF covered, holding, result
  <2>2. \A r \in covered : r \in UNION result.clusters <=> ~VE!RuleFull(cs, r)
    BY <1>7, <2>1
  <2>3. UNION result.clusters \subseteq covered
    BY <1>7
  <2> QED BY <1>3, <1>4, <2>2, <2>3
<1>9. \A K, L \in result.clusters : K = L \/ K \cap L = {}
  <2> HIDE DEF covered, result
  <2> QED BY <1>7
<1> QED BY <1>6, <1>8, <1>9 DEF VE!ArIsRight, items, cs

(* The greatest and the least number of a finite set.                      *)
LEMMA Extremes ==
  ASSUME NEW S \in SUBSET Int, IsFiniteSet(S), S # {}
  PROVE  /\ VE!Max(S) \in S /\ \A x \in S : VE!Max(S) >= x
         /\ VE!Min(S) \in S /\ \A x \in S : VE!Min(S) <= x
<1> DEFINE Has == {T \in SUBSET S : T # {} => (\E x \in T : \A y \in T : x <= y) /\ \E x \in T : \A y \in T : x >= y}
<1>1. ASSUME NEW T \in SUBSET S, \A x \in T : T \ {x} \in Has PROVE T \in Has
  <2> SUFFICES ASSUME T # {} PROVE (\E x \in T : \A y \in T : x <= y) /\ \E x \in T : \A y \in T : x >= y
    OBVIOUS
  <2>1. PICK z \in T : TRUE
    OBVIOUS
  <2>2. CASE T \ {z} = {}
    BY <2>1, <2>2
  <2>3. CASE T \ {z} # {}
    <3>1. PICK x \in T \ {z} : \A y \in T \ {z} : x <= y
      BY <1>1, <2>1, <2>3
    <3>2. PICK x2 \in T \ {z} : \A y \in T \ {z} : x2 >= y
      BY <1>1, <2>1, <2>3
    <3>3. \E u \in T : \A y \in T : u <= y
      BY <2>1, <3>1
    <3>4. \E u \in T : \A y \in T : u >= y
      BY <2>1, <3>2
    <3> QED BY <3>3, <3>4
  <2> QED BY <2>2, <2>3
<1> HIDE DEF Has
<1>2. S \in Has
  BY <1>1, BySubsets
<1>3. (\E x \in S : \A y \in S : x <= y) /\ \E x \in S : \A y \in S : x >= y
  BY <1>2 DEF Has
<1> QED BY <1>3 DEF VE!Max, VE!Min

(* A part of a finite set is no larger than the set.                       *)
LEMMA PartIsSmaller ==
  ASSUME NEW S, IsFiniteSet(S), NEW T \in SUBSET S
  PROVE  /\ IsFiniteSet(T) /\ Cardinality(T) <= Cardinality(S) /\ Cardinality(S) \in Nat /\ Cardinality(T) \in Nat
         /\ Cardinality(S) = Cardinality(T) + Cardinality(S \ T) /\ Cardinality(S \ T) \in Nat
<1>1. IsFiniteSet(T) /\ IsFiniteSet(S \ T)
  BY FS_Subset
<1>2. T \cap (S \ T) = {} /\ T \cup (S \ T) = S
  OBVIOUS
<1>3. Cardinality(S) = Cardinality(T) + Cardinality(S \ T)
  BY <1>1, <1>2, UnionIsSum
<1>4. Cardinality(S) \in Nat /\ Cardinality(T) \in Nat /\ Cardinality(S \ T) \in Nat
  BY <1>1, FS_CardinalityType
<1> QED BY <1>1, <1>3, <1>4

(* Sets that are no larger, one by one, are no larger together.            *)
LEMMA SumsAreLess ==
  ASSUME NEW S, IsFiniteSet(S), NEW A, NEW B,
         \A v \in S : IsFiniteSet(A[v]) /\ IsFiniteSet(B[v]) /\ Cardinality(A[v]) <= Cardinality(B[v]),
         \A u, v \in S : u # v => A[u] \cap A[v] = {} /\ B[u] \cap B[v] = {}
  PROVE  Cardinality(UNION {A[v] : v \in S}) <= Cardinality(UNION {B[v] : v \in S})
<1> DEFINE All(C, T) == UNION {C[v] : v \in T}
           P == {T \in SUBSET S : /\ IsFiniteSet(All(A, T)) /\ IsFiniteSet(All(B, T))
                                  /\ Cardinality(All(A, T)) <= Cardinality(All(B, T))}
<1>1. ASSUME NEW T \in SUBSET S, \A v \in T : T \ {v} \in P PROVE T \in P
  <2>1. CASE T = {}
    <3>1. All(A, T) = {} /\ All(B, T) = {}
      BY <2>1
    <3>2. IsFiniteSet({}) /\ Cardinality({}) = 0
      BY FS_EmptySet
    <3> HIDE DEF All
    <3> QED BY <3>1, <3>2
  <2>2. CASE T # {}
    <3>1. PICK v \in T : TRUE
      BY <2>2
    <3> DEFINE R == T \ {v}
    <3>2. /\ IsFiniteSet(All(A, R)) /\ IsFiniteSet(All(B, R))
          /\ Cardinality(All(A, R)) <= Cardinality(All(B, R))
      BY <1>1, <3>1
    <3>3. All(A, T) = All(A, R) \cup A[v] /\ All(B, T) = All(B, R) \cup B[v]
      BY <3>1
    <3>4. All(A, R) \cap A[v] = {} /\ All(B, R) \cap B[v] = {}
      BY <3>1
    <3>5. IsFiniteSet(A[v]) /\ IsFiniteSet(B[v]) /\ Cardinality(A[v]) <= Cardinality(B[v])
      BY <3>1
    <3> HIDE DEF All, R
    <3>6. /\ IsFiniteSet(All(A, T)) /\ Cardinality(All(A, T)) = Cardinality(All(A, R)) + Cardinality(A[v])
          /\ IsFiniteSet(All(B, T)) /\ Cardinality(All(B, T)) = Cardinality(All(B, R)) + Cardinality(B[v])
      <4>1. /\ IsFiniteSet(All(A, R) \cup A[v])
            /\ Cardinality(All(A, R) \cup A[v]) = Cardinality(All(A, R)) + Cardinality(A[v])
        <5>1. IsFiniteSet(All(A, R)) /\ IsFiniteSet(A[v]) /\ All(A, R) \cap A[v] = {}
          BY <3>2, <3>4, <3>5
        <5> QED BY <5>1, UnionIsSum
      <4>2. /\ IsFiniteSet(All(B, R) \cup B[v])
            /\ Cardinality(All(B, R) \cup B[v]) = Cardinality(All(B, R)) + Cardinality(B[v])
        <5>1. IsFiniteSet(All(B, R)) /\ IsFiniteSet(B[v]) /\ All(B, R) \cap B[v] = {}
          BY <3>2, <3>4, <3>5
        <5> QED BY <5>1, UnionIsSum
      <4> QED BY <3>3, <4>1, <4>2
    <3>7. /\ Cardinality(All(A, R)) \in Nat /\ Cardinality(All(B, R)) \in Nat
          /\ Cardinality(A[v]) \in Nat /\ Cardinality(B[v]) \in Nat
      BY <3>2, <3>5, FS_CardinalityType
    <3>8. Cardinality(All(A, T)) <= Cardinality(All(B, T))
      BY <3>2, <3>5, <3>6, <3>7
    <3> QED BY <3>6, <3>8
  <2> QED BY <2>1, <2>2
<1> HIDE DEF P
<1>2. S \in P
  BY <1>1, BySubsets
<1> QED BY <1>2 DEF P

(* The value a group of rows should have on the right side: that of the    *)
(* rule, or one that most of its rows have.                                *)
RowsLike(t, K, c, u) == {x \in K : t[x][c] = t[u][c]}

(* If the rule leaves it open, it is the value of some row, and no other   *)
(* one is that of more rows.                                               *)
LEMMA ExpectedIs ==
  ASSUME NEW t, NEW K, IsFiniteSet(K), K # {}, NEW right, \A r \in K : t[r][right.column] \in Int,
         NEW choose, right.value = VE!Wildcard
  PROVE  \E s \in K : /\ VE!Expected(t, K, right, choose) = t[s][right.column]
                      /\ \A u \in K : Cardinality(RowsLike(t, K, right.column, u))
                                        <= Cardinality(RowsLike(t, K, right.column, s))
<1> DEFINE value(r) == t[r][right.column]
           count == [u \in K |-> Cardinality({x \in K : value(x) = value(u)})]
           tops == {s \in K : \A u \in K : count[u] <= count[s]}
           values == VE!MostFrequentRhs(t, K, right.column)
<1>1. values = {value(s) : s \in tops}
  BY SameSizes DEF VE!MostFrequentRhs
<1>2. \A u \in K : count[u] \in Nat
  <2> TAKE u \in K
  <2> DEFINE T == {x \in K : value(x) = value(u)}
  <2>1. T \in SUBSET K
    OBVIOUS
  <2> HIDE DEF T
  <2>2. Cardinality(T) \in Nat
    BY <2>1, PartIsSmaller
  <2> QED BY <2>2 DEF T
<1>3. tops # {}
  <2> DEFINE C == {count[u] : u \in K}
  <2>1. IsFiniteSet(C)
    <3> HIDE DEF count
    <3> QED BY ImageIsFinite
  <2>2. C \in SUBSET Int /\ C # {}
    <3> HIDE DEF count
    <3> QED BY <1>2
  <2> HIDE DEF C
  <2>3. VE!Max(C) \in C /\ \A x \in C : VE!Max(C) >= x
    BY <2>1, <2>2, Extremes
  <2> HIDE DEF count
  <2>4. PICK s \in K : count[s] = VE!Max(C)
    BY <2>3 DEF C
  <2>5. \A u \in K : count[u] <= count[s]
    BY <1>2, <2>3, <2>4 DEF C
  <2> QED BY <2>5
<1> HIDE DEF count
<1>4. IsFiniteSet(values) /\ values # {} /\ values \in SUBSET Int
  <2> DEFINE f == [r \in tops |-> value(r)]
  <2>1. IsFiniteSet(tops)
    BY FS_Subset
  <2> HIDE DEF tops
  <2>2. IsFiniteSet({f[r] : r \in tops})
    BY <2>1, ImageIsFinite
  <2>3. {f[r] : r \in tops} = values
    BY <1>1
  <2> QED BY <1>1, <1>3, <2>2, <2>3 DEF tops
<1> HIDE DEF values
<1>5. VE!Max(values) \in values /\ VE!Min(values) \in values
  BY <1>4, Extremes
<1>6. VE!Expected(t, K, right, choose) \in values
  BY <1>5 DEF VE!Expected, VE!Chosen, values
<1>7. PICK s \in tops : VE!Expected(t, K, right, choose) = value(s)
  BY <1>1, <1>6
<1> QED BY <1>7 DEF count, RowsLike

(* A conditional dependency: what is violating is enough to be left out,   *)
(* and no fewer rows are.                                                  *)
THEOREM CfdIsAlwaysRight ==
  ASSUME NEW t, IsARows(t), NEW lhs, NEW right, \A r \in DOMAIN t : t[r][right.column] \in Int
  PROVE  VE!CfdIsRight(t, lhs, right)
<1> SUFFICES ASSUME \A item \in lhs \cup {right} : VE!Known(t, item), NEW choose \in {"least", "greatest"}
             PROVE  LET result == VE!VerifyCFD(t, lhs, right, choose)
                        S == {r \in VE!Rows(t) : \A item \in lhs : VE!Matches(t[r], item)}
                        violating == UNION {h.violating : h \in result.highlights}
                    IN /\ result.support = VE!Cardinality(S) /\ result.violating = VE!Cardinality(violating)
                       /\ VE!Holds(t, S \ violating, lhs, right)
                       /\ \A R \in SUBSET S : VE!Holds(t, S \ R, lhs, right) => result.violating <= VE!Cardinality(R)
  BY DEF VE!CfdIsRight
<1> DEFINE S == VE!SupportMask(t, lhs)
           c == right.column
           G == VE!LhsToRowNums(t, S, lhs)
           E(K) == VE!Expected(t, K, right, choose)
           viol(K) == {r \in K : t[r][c] # E(K)}
           H == VE!CfdHighlights(t, G, right, choose)
           U == UNION {viol(K) : K \in G}
           same(r, s) == \A item \in lhs : t[r][item.column] = t[s][item.column]
<1>1. VE!VerifyCFD(t, lhs, right, choose) = VE!SupportAndConfidence(S, H)
  <2>1. {VE!GetItem(t, item) : item \in lhs} = lhs /\ VE!GetItem(t, right) = right
    BY DEF VE!Known
  <2> QED BY <2>1 DEF VE!VerifyCFD, VE!VerifyItems, VE!VerifyRule
<1>2. S \in SUBSET DOMAIN t /\ IsFiniteSet(S)
  <2>1. S \in SUBSET DOMAIN t
    BY DEF VE!SupportMask, VE!Rows
  <2> QED BY <2>1, RowsAreFinite, FS_Subset
<1> HIDE DEF S
<1>3. /\ \A s \in S : \E K \in G : s \in K
      /\ \A K \in G : K \in SUBSET S /\ K # {} /\ \A r \in K : \A s \in S : s \in K <=> same(r, s)
  <2> DEFINE GroupIn(s) == {r \in S : same(r, s)}
  <2>1. G = {GroupIn(s) : s \in S}
    BY DEF VE!LhsToRowNums
  <2>2. \A s \in S : s \in GroupIn(s) /\ GroupIn(s) \in G
    BY <2>1
  <2>3. ASSUME NEW K \in G PROVE K \in SUBSET S /\ K # {} /\ \A r \in K : \A s \in S : s \in K <=> same(r, s)
    <3>1. PICK u \in S : K = GroupIn(u)
      BY <2>1
    <3> HIDE DEF G
    <3> QED BY <2>2, <3>1
  <2> HIDE DEF G, GroupIn, same
  <2> QED BY <2>2, <2>3
<1>4. IsFiniteSet(G)
  <2> DEFINE f == [s \in S |-> {r \in S : same(r, s)}]
  <2>1. IsFiniteSet({f[s] : s \in S})
    <3> HIDE DEF f
    <3> QED BY <1>2, ImageIsFinite
  <2>2. G = {f[s] : s \in S}
    BY DEF VE!LhsToRowNums
  <2> QED BY <2>1, <2>2
<1> HIDE DEF G
<1>5. \A K, L \in G : K # L => K \cap L = {}
  <2> SUFFICES ASSUME NEW K \in G, NEW L \in G, NEW r \in K, r \in L PROVE K = L
    OBVIOUS
  <2>1. \A s \in S : s \in K <=> s \in L
    BY <1>3
  <2> QED BY <1>3, <2>1
<1>6. H = {[cluster |-> K, violating |-> viol(K)] : K \in {L \in G : viol(L) # {}}}
  BY DEF VE!CfdHighlights
<1>7. /\ {h.violating : h \in H} = {viol(K) : K \in {L \in G : viol(L) # {}}}
      /\ UNION {h.violating : h \in H} = U
  <2>1. {h.violating : h \in H} = {viol(K) : K \in {L \in G : viol(L) # {}}}
    <3> HIDE DEF H, viol
    <3>1. \A h \in H : \E K \in {L \in G : viol(L) # {}} : h.violating = viol(K)
      BY <1>6
    <3>2. ASSUME NEW K \in {L \in G : viol(L) # {}} PROVE \E h \in H : h.violating = viol(K)
      <4>1. [cluster |-> K, violating |-> viol(K)] \in H
        BY <1>6
      <4> QED BY <4>1
    <3> QED BY <3>1, <3>2
  <2> HIDE DEF viol, H
  <2> QED BY <2>1
<1>8. VE!Total({h.violating : h \in H}) = Cardinality(U)
  <2> DEFINE V == {h.violating : h \in H}
             f == [K \in G |-> viol(K)]
  <2>1. IsFiniteSet(V)
    <3>1. IsFiniteSet({f[K] : K \in G})
      <4> HIDE DEF f
      <4> QED BY <1>4, ImageIsFinite
    <3>2. V \in SUBSET {f[K] : K \in G}
      <4> HIDE DEF viol, H
      <4> QED BY <1>7
    <3> QED BY <3>1, <3>2, FS_Subset
  <2>2. \A v \in V : \E K \in G : v = viol(K)
    <3> HIDE DEF viol, H
    <3> QED BY <1>7
  <2>3. \A v \in V : IsFiniteSet(v)
    <3> TAKE v \in V
    <3>1. v \in SUBSET S
      BY <1>3, <2>2
    <3> QED BY <1>2, <3>1, FS_Subset
  <2>4. \A v, w \in V : v # w => v \cap w = {}
    <3> TAKE v, w \in V
    <3> HAVE v # w
    <3>1. PICK K \in G, L \in G : v = viol(K) /\ w = viol(L)
      BY <2>2
    <3>2. K \cap L = {}
      BY <1>5, <3>1
    <3> QED BY <3>1, <3>2
  <2> HIDE DEF V
  <2>5. VE!Total(V) = Cardinality(UNION V)
    BY <2>1, <2>3, <2>4, TotalIs DEF AreClasses
  <2> QED BY <1>7, <2>5 DEF V
<1>9. VE!Holds(t, S \ U, lhs, right)
  <2> SUFFICES ASSUME NEW r \in S \ U, NEW s \in S \ U
               PROVE  /\ VE!Matches(t[r], right)
                      /\ VE!Equal(t, {item.column : item \in lhs}, r, s) => t[r][c] = t[s][c]
    BY DEF VE!Holds
  <2>1. PICK K \in G : r \in K
    BY <1>3
  <2>2. t[r][c] = E(K)
    BY <2>1
  <2>3. VE!Matches(t[r], right)
    BY <2>2 DEF VE!Matches, VE!Expected
  <2>4. ASSUME VE!Equal(t, {item.column : item \in lhs}, r, s) PROVE t[r][c] = t[s][c]
    <3>1. same(r, s)
      BY <2>4 DEF VE!Equal
    <3>2. s \in K
      BY <1>3, <2>1, <3>1
    <3>3. t[s][c] = E(K)
      BY <3>2
    <3> QED BY <2>2, <3>3
  <2> QED BY <2>3, <2>4
<1>10. ASSUME NEW R \in SUBSET S, VE!Holds(t, S \ R, lhs, right) PROVE Cardinality(U) <= Cardinality(R)
  <2> DEFINE A == [K \in G |-> viol(K)]
             B == [K \in G |-> R \cap K]
  <2>1. ASSUME NEW K \in G
        PROVE  /\ IsFiniteSet(viol(K)) /\ IsFiniteSet(R \cap K) /\ Cardinality(viol(K)) <= Cardinality(R \cap K)
    <3>1. K \in SUBSET S /\ K # {} /\ IsFiniteSet(K)
      BY <1>2, <1>3, FS_Subset
    <3>2. viol(K) \in SUBSET K /\ R \cap K \in SUBSET K /\ K \ R \in SUBSET K
      OBVIOUS
    <3> HIDE DEF viol
    <3>3. IsFiniteSet(viol(K)) /\ IsFiniteSet(R \cap K)
      BY <3>1, <3>2, FS_Subset
    <3>4. CASE right.value # VE!Wildcard
      <4>1. viol(K) \in SUBSET (R \cap K)
        <5> SUFFICES ASSUME NEW r \in viol(K), r \notin R PROVE FALSE
          BY <3>2
        <5>1. r \in S \ R /\ t[r][c] # right.value
          BY <3>1, <3>4 DEF viol, VE!Expected
        <5>2. VE!Matches(t[r], right)
          BY <1>10, <5>1 DEF VE!Holds
        <5> QED BY <3>4, <5>1, <5>2 DEF VE!Matches
      <4> QED BY <3>3, <4>1, PartIsSmaller
    <3>5. CASE right.value = VE!Wildcard
      <4> DEFINE count(u) == RowsLike(t, K, c, u)
      <4>1. PICK s \in K : E(K) = t[s][c] /\ \A u \in K : Cardinality(count(u)) <= Cardinality(count(s))
        <5>1. \A r \in K : t[r][c] \in Int
          BY <1>2, <3>1
        <5> QED BY <3>1, <3>5, <5>1, ExpectedIs DEF count
      <4>2. K \ viol(K) = count(s)
        BY <4>1 DEF viol, RowsLike
      <4>3. Cardinality(K \ R) <= Cardinality(count(s))
        <5>1. CASE K \ R = {}
          <6>1. Cardinality(K \ R) = 0
            BY <5>1, FS_EmptySet
          <6>2. count(s) \in SUBSET K
            BY DEF RowsLike
          <6>3. Cardinality(count(s)) \in Nat
            BY <3>1, <6>2, PartIsSmaller
          <6> QED BY <6>1, <6>3
        <5>2. CASE K \ R # {}
          <6>1. PICK u \in K \ R : TRUE
            BY <5>2
          <6>2. K \ R \in SUBSET count(u)
            <7> SUFFICES ASSUME NEW x \in K \ R PROVE t[x][c] = t[u][c]
              BY DEF RowsLike
            <7>1. same(x, u) /\ x \in S \ R /\ u \in S \ R
              BY <1>3, <3>1
            <7>2. VE!Equal(t, {item.column : item \in lhs}, x, u)
              BY <7>1 DEF VE!Equal
            <7> QED BY <1>10, <7>1, <7>2 DEF VE!Holds
          <6>3. count(u) \in SUBSET K /\ count(s) \in SUBSET K
            BY DEF RowsLike
          <6>4. Cardinality(count(u)) <= Cardinality(count(s))
            BY <4>1
          <6> HIDE DEF count
          <6>5. IsFiniteSet(count(u)) /\ Cardinality(count(u)) \in Nat /\ Cardinality(count(s)) \in Nat
            BY <3>1, <6>3, PartIsSmaller
          <6>6. Cardinality(K \ R) <= Cardinality(count(u)) /\ Cardinality(K \ R) \in Nat
            BY <6>2, <6>5, PartIsSmaller
          <6> QED BY <6>4, <6>5, <6>6
        <5> QED BY <5>1, <5>2
      <4>4. K \ (R \cap K) = K \ R
        OBVIOUS
      <4>5. /\ Cardinality(K) = Cardinality(viol(K)) + Cardinality(K \ viol(K))
            /\ Cardinality(viol(K)) \in Nat /\ Cardinality(K \ viol(K)) \in Nat
        BY <3>1, <3>2, PartIsSmaller
      <4>6. /\ Cardinality(K) = Cardinality(R \cap K) + Cardinality(K \ (R \cap K))
            /\ Cardinality(R \cap K) \in Nat /\ Cardinality(K \ (R \cap K)) \in Nat
        BY <3>1, <3>2, PartIsSmaller
      <4>7. Cardinality(K \ (R \cap K)) <= Cardinality(K \ viol(K))
        BY <4>2, <4>3, <4>4
      <4>8. Cardinality(viol(K)) <= Cardinality(R \cap K)
        BY <4>5, <4>6, <4>7
      <4> QED BY <3>3, <4>8
    <3> QED BY <3>4, <3>5
  <2>2. \A K, L \in G : K # L => A[K] \cap A[L] = {} /\ B[K] \cap B[L] = {}
    <3> TAKE K, L \in G
    <3> HAVE K # L
    <3>1. K \cap L = {}
      BY <1>5
    <3> QED BY <3>1
  <2>3. UNION {A[K] : K \in G} = U /\ UNION {B[K] : K \in G} \in SUBSET R
    OBVIOUS
  <2>4. \A K \in G : IsFiniteSet(A[K]) /\ IsFiniteSet(B[K]) /\ Cardinality(A[K]) <= Cardinality(B[K])
    BY <2>1
  <2> HIDE DEF A, B, U
  <2>5. Cardinality(U) <= Cardinality(UNION {B[K] : K \in G})
    <3>1. Cardinality(UNION {A[K] : K \in G}) <= Cardinality(UNION {B[K] : K \in G})
      BY <1>4, <2>2, <2>4, SumsAreLess
    <3> QED BY <2>3, <3>1
  <2>6. Cardinality(UNION {B[K] : K \in G}) <= Cardinality(R)
        /\ Cardinality(UNION {B[K] : K \in G}) \in Nat /\ Cardinality(R) \in Nat
    <3>1. IsFiniteSet(R)
      BY <1>2, FS_Subset
    <3> QED BY <2>3, <3>1, PartIsSmaller
  <2>7. Cardinality(U) \in Nat
    <3>1. U \in SUBSET S
      BY <1>3 DEF U
    <3> QED BY <1>2, <3>1, PartIsSmaller
  <2> QED BY <2>5, <2>6, <2>7
<1> HIDE DEF U, H
<1>11. /\ VE!SupportAndConfidence(S, H).support = VE!Cardinality(S)
       /\ VE!SupportAndConfidence(S, H).violating = VE!Total({h.violating : h \in H})
       /\ VE!SupportAndConfidence(S, H).highlights = H
  BY DEF VE!SupportAndConfidence
<1>12. S = {r \in VE!Rows(t) : \A item \in lhs : VE!Matches(t[r], item)}
  BY DEF S, VE!SupportMask
<1> QED BY <1>1, <1>7, <1>8, <1>9, <1>10, <1>11, <1>12, SameSizes

(* A fold over the positions 1 .. n, as it is defined: from the greatest   *)
(* position of a set of them back.  There is a function that solves the    *)
(* recursion, whatever one step does.                                      *)
SolvesFrom(n, base, step, G, m) ==
  \A s \in SUBSET (1 .. n) : Cardinality(s) <= m =>
    G[s] = IF s = {} THEN base ELSE step[<<G[s \ {VE!Max(s)}], VE!Max(s)>>]

(* A set of positions without its greatest one is a smaller set of         *)
(* positions.                                                              *)
LEMMA SmallerSet ==
  ASSUME NEW n \in Nat, NEW s \in SUBSET (1 .. n)
  PROVE  /\ IsFiniteSet(s) /\ Cardinality(s) \in 0 .. n /\ (Cardinality(s) = 0 <=> s = {})
         /\ s # {} => /\ VE!Max(s) \in s /\ s \ {VE!Max(s)} \in SUBSET (1 .. n) /\ VE!Max(s) \in 1 .. n
                      /\ Cardinality(s \ {VE!Max(s)}) = Cardinality(s) - 1
<1>1. IsFiniteSet(1 .. n) /\ Cardinality(1 .. n) = n
  <2>1. IsFiniteSet(1 .. n) /\ Cardinality(1 .. n) = IF 1 > n THEN 0 ELSE n - 1 + 1
    BY FS_Interval
  <2> QED BY <2>1
<1>2. IsFiniteSet(s) /\ Cardinality(s) \in 0 .. n
  <2>1. IsFiniteSet(s) /\ Cardinality(s) <= Cardinality(1 .. n) /\ Cardinality(s) \in Nat
    BY <1>1, PartIsSmaller
  <2> QED BY <1>1, <2>1
<1>3. Cardinality(s) = 0 <=> s = {}
  BY <1>2, FS_EmptySet
<1>4. ASSUME s # {}
      PROVE  /\ VE!Max(s) \in s /\ s \ {VE!Max(s)} \in SUBSET (1 .. n) /\ VE!Max(s) \in 1 .. n
             /\ Cardinality(s \ {VE!Max(s)}) = Cardinality(s) - 1
  <2>1. s \in SUBSET Int
    OBVIOUS
  <2>2. VE!Max(s) \in s
    BY <1>2, <1>4, <2>1, Extremes
  <2> DEFINE x == VE!Max(s)
  <2> HIDE DEF x
  <2>3. Cardinality(s \ {x}) = Cardinality(s) - 1
    BY <1>2, <2>2, FS_RemoveElement DEF x
  <2> QED BY <2>2, <2>3 DEF x
<1> QED BY <1>2, <1>3, <1>4

IsFold(n, base, step, G) ==
  \A s \in SUBSET (1 .. n) : G[s] = IF s = {} THEN base ELSE step[<<G[s \ {VE!Max(s)}], VE!Max(s)>>]

(* Such a function exists.                                                 *)
LEMMA FoldExists ==
  ASSUME NEW n \in Nat, NEW St, NEW base \in St, NEW step \in [St \X (1 .. n) -> St]
  PROVE  \E G \in [SUBSET (1 .. n) -> St] : IsFold(n, base, step, G)
<1> DEFINE S == SUBSET (1 .. n)
           P == {m \in Nat : \E G \in [S -> St] : SolvesFrom(n, base, step, G, m)}
<1>1. 0 \in P
  <2> DEFINE G == [s \in S |-> base]
  <2>1. G \in [S -> St]
    OBVIOUS
  <2>2. \A s \in S : Cardinality(s) <= 0 => s = {}
    <3> TAKE s \in S
    <3> HAVE Cardinality(s) <= 0
    <3>1. Cardinality(s) \in 0 .. n /\ (Cardinality(s) = 0 <=> s = {})
      BY SmallerSet
    <3> QED BY <3>1
  <2>3. SolvesFrom(n, base, step, G, 0)
    BY <2>2 DEF SolvesFrom
  <2> QED BY <2>1, <2>3
<1>2. \A m \in Nat : m \in P => m + 1 \in P
  <2> TAKE m \in Nat
  <2> HAVE m \in P
  <2>1. PICK G \in [S -> St] : SolvesFrom(n, base, step, G, m)
    OBVIOUS
  <2> DEFINE next(s) == step[<<G[s \ {VE!Max(s)}], VE!Max(s)>>]
             F == [s \in S |-> IF Cardinality(s) <= m THEN G[s] ELSE next(s)]
  <2>2. \A s \in S : Cardinality(s) \in Nat /\ (s # {} => Cardinality(s) # 0)
    <3> TAKE s \in S
    <3>1. Cardinality(s) \in 0 .. n
      BY SmallerSet
    <3>2. Cardinality(s) = 0 <=> s = {}
      BY SmallerSet
    <3>3. Cardinality(s) \in Nat
      BY <3>1
    <3> QED BY <3>2, <3>3
  <2>3. \A s \in S : s # {} => /\ VE!Max(s) \in 1 .. n /\ s \ {VE!Max(s)} \in S
                               /\ Cardinality(s \ {VE!Max(s)}) = Cardinality(s) - 1
    BY SmallerSet
  <2>4. \A s \in S : s # {} => next(s) \in St
    BY <2>3
  <2>5. \A s \in S : ~(Cardinality(s) <= m) => s # {}
    <3>1. Cardinality({}) = 0 /\ 0 <= m
      BY FS_EmptySet
    <3> QED BY <3>1
  <2>6. F \in [S -> St]
    <3> HIDE DEF next
    <3> QED BY <2>4, <2>5
  <2>7. ASSUME NEW s \in S, Cardinality(s) <= m + 1
        PROVE  F[s] = IF s = {} THEN base ELSE step[<<F[s \ {VE!Max(s)}], VE!Max(s)>>]
    <3>1. CASE s = {}
      <4>1. Cardinality(s) = 0 /\ 0 <= m
        BY <3>1, FS_EmptySet
      <4>2. G[s] = base
        BY <2>1, <3>1, <4>1 DEF SolvesFrom
      <4> QED BY <3>1, <4>1, <4>2
    <3>2. CASE s # {}
      <4> DEFINE r == s \ {VE!Max(s)}
      <4>1. r \in S /\ Cardinality(r) <= m
        BY <2>2, <2>3, <2>7, <3>2
      <4>2. F[r] = G[r]
        BY <4>1
      <4>3. F[s] = next(s)
        <5>1. CASE Cardinality(s) <= m
          <6>1. G[s] = next(s)
            BY <2>1, <3>2, <5>1 DEF SolvesFrom
          <6> QED BY <5>1, <6>1
        <5>2. CASE ~(Cardinality(s) <= m)
          BY <5>2
        <5> QED BY <5>1, <5>2
      <4> HIDE DEF F
      <4> QED BY <3>2, <4>2, <4>3
    <3> QED BY <3>1, <3>2
  <2>8. SolvesFrom(n, base, step, F, m + 1)
    <3> HIDE DEF F
    <3> QED BY <2>7 DEF SolvesFrom
  <2> HIDE DEF F
  <2> QED BY <2>6, <2>8
<1> HIDE DEF P
<1>3. n \in P
  BY <1>1, <1>2, CountingUp
<1>4. PICK G \in [S -> St] : SolvesFrom(n, base, step, G, n)
  BY <1>3 DEF P
<1>5. \A s \in S : Cardinality(s) <= n
  <2> TAKE s \in S
  <2>1. Cardinality(s) \in 0 .. n
    BY SmallerSet
  <2> QED BY <2>1
<1> QED BY <1>4, <1>5 DEF SolvesFrom, IsFold

(* Folds that go on by Next(u, i) at position i, as functions.             *)
LEMMA PrefixOfFold ==
  ASSUME NEW n \in Nat, NEW k \in 1 .. n
  PROVE  /\ 1 .. k # {} /\ 1 .. k \in SUBSET (1 .. n) /\ VE!Max(1 .. k) = k
         /\ (1 .. k) \ {VE!Max(1 .. k)} = 1 .. k - 1
<1>1. 1 .. k # {} /\ 1 .. k \in SUBSET (1 .. n) /\ k \in 1 .. k
  OBVIOUS
<1>2. VE!Max(1 .. k) = k
  BY <1>1 DEF VE!Max
<1> QED BY <1>1, <1>2

(* The numbers that combinations of values get, as a function of the rows  *)
(* gone through.                                                           *)
IsCombining(t, cols, equal, F) ==
  F = [s \in SUBSET DOMAIN t |-> IF s = {} THEN [row |-> <<>>, values |-> <<>>]
                                 ELSE VE!AddVCToValues(F[s \ {VE!Max(s)}], VE!Projected(t[VE!Max(s)], cols), equal)]
Projections(t, cols) == {VE!Projected(t[r], cols) : r \in DOMAIN t}
Numberings(t, cols) == [row : Seq(Nat), values : Seq(Projections(t, cols))]
Unmatched(v, equal) == VE!HasNull(v) /\ ~equal
IsNumbered(u, v, equal, i, w) ==
  /\ i \in 1 .. Len(u.values) + 1
  /\ w = [row |-> Append(u.row, i), values |-> IF i > Len(u.values) THEN Append(u.values, v) ELSE u.values]
  /\ Unmatched(v, equal) \/ ~(\E j \in 1 .. Len(u.values) : u.values[j] = v) => i = Len(u.values) + 1
  /\ ~Unmatched(v, equal) /\ (\E j \in 1 .. Len(u.values) : u.values[j] = v) => i <= Len(u.values) /\ u.values[i] = v

(* Adding a combination of values keeps the kind of the state, and gives   *)
(* one of these numbers.                                                   *)
LEMMA AddingNumbers ==
  ASSUME NEW t, NEW cols, NEW equal \in BOOLEAN, NEW u \in Numberings(t, cols), NEW v \in Projections(t, cols)
  PROVE  /\ \E i : IsNumbered(u, v, equal, i, VE!AddVCToValues(u, v, equal))
         /\ VE!AddVCToValues(u, v, equal) \in Numberings(t, cols)
<1> DEFINE i == IF VE!HasNull(v) /\ ~equal THEN VE!Len(u.values) + 1 ELSE VE!IndexIn(u.values, v)
           J == {j \in DOMAIN u.values : u.values[j] = v}
<1>1. /\ u.row \in Seq(Nat) /\ u.values \in Seq(Projections(t, cols)) /\ Len(u.values) \in Nat
      /\ DOMAIN u.values = 1 .. Len(u.values) /\ VE!Len(u.values) = Len(u.values)
  BY DEF Numberings
<1>2. VE!AddVCToValues(u, v, equal)
        = [row |-> Append(u.row, i), values |-> IF i > Len(u.values) THEN Append(u.values, v) ELSE u.values]
  BY <1>1 DEF VE!AddVCToValues, VE!Numbered
<1>3. J # {} => VE!Min(J) \in J
  <2>1. IsFiniteSet(J) /\ J \in SUBSET Int
    <3>1. IsFiniteSet(1 .. Len(u.values))
      BY <1>1, FS_Interval
    <3>2. J \in SUBSET (1 .. Len(u.values))
      BY <1>1
    <3> QED BY <3>1, <3>2, FS_Subset
  <2> QED BY <2>1, Extremes
<1>4. VE!IndexIn(u.values, v) = IF J # {} THEN VE!Min(J) ELSE Len(u.values) + 1
  <2>1. (\E j \in DOMAIN u.values : u.values[j] = v) <=> J # {}
    OBVIOUS
  <2> QED BY <1>1, <2>1 DEF VE!IndexIn
<1>5. (\E j \in 1 .. Len(u.values) : u.values[j] = v) <=> J # {}
  BY <1>1
<1>6. /\ i \in 1 .. Len(u.values) + 1
      /\ Unmatched(v, equal) \/ J = {} => i = Len(u.values) + 1
      /\ ~Unmatched(v, equal) /\ J # {} => i <= Len(u.values) /\ u.values[i] = v
  <2>1. CASE Unmatched(v, equal)
    BY <1>1, <2>1 DEF Unmatched
  <2>2. CASE ~Unmatched(v, equal) /\ J = {}
    BY <1>1, <1>4, <2>2 DEF Unmatched
  <2>3. CASE ~Unmatched(v, equal) /\ J # {}
    <3>1. i = VE!Min(J) /\ VE!Min(J) \in J
      BY <1>3, <1>4, <2>3 DEF Unmatched
    <3>2. i \in 1 .. Len(u.values) /\ u.values[i] = v
      BY <1>1, <3>1
    <3> QED BY <1>1, <2>3, <3>2
  <2> QED BY <2>1, <2>2, <2>3
<1> HIDE DEF i, J
<1>7. IsNumbered(u, v, equal, i, VE!AddVCToValues(u, v, equal))
  BY <1>2, <1>5, <1>6 DEF IsNumbered
<1>8. VE!AddVCToValues(u, v, equal) \in Numberings(t, cols)
  <2>1. i \in Nat
    BY <1>1, <1>6
  <2>2. Append(u.row, i) \in Seq(Nat) /\ Append(u.values, v) \in Seq(Projections(t, cols))
    BY <1>1, <2>1
  <2> QED BY <1>1, <1>2, <2>2 DEF Numberings
<1> QED BY <1>7, <1>8

(* Going through all rows is adding one after the other.                   *)
LEMMA CombinedIs ==
  ASSUME NEW t, IsARows(t), NEW cols, NEW equal \in BOOLEAN
  PROVE  \E H \in [0 .. VE!Len(t) -> Numberings(t, cols)] :
           /\ H[0] = [row |-> <<>>, values |-> <<>>]
           /\ \A k \in 1 .. VE!Len(t) : \E i : IsNumbered(H[k - 1], VE!Projected(t[k], cols), equal, i, H[k])
           /\ VE!CombineValues(t, cols, equal) = H[VE!Len(t)]
<1> DEFINE n == VE!Len(t)
           St == Numberings(t, cols)
           base == [row |-> <<>>, values |-> <<>>]
           V(k) == VE!Projected(t[k], cols)
           step == [x \in St \X (1 .. n) |-> VE!AddVCToValues(x[1], V(x[2]), equal)]
<1>1. n \in Nat /\ DOMAIN t = 1 .. n
  BY DEF IsARows
<1>2. base \in St
  BY DEF Numberings
<1>3. \A k \in 1 .. n : V(k) \in Projections(t, cols)
  BY <1>1 DEF Projections
<1> HIDE DEF n, St, base, V
<1>4. \A u \in St, k \in 1 .. n : VE!AddVCToValues(u, V(k), equal) \in St
  BY <1>3, AddingNumbers DEF St
<1>5. step \in [St \X (1 .. n) -> St]
  BY <1>4
<1>6. \A u \in St, k \in 1 .. n : step[<<u, k>>] = VE!AddVCToValues(u, V(k), equal)
  OBVIOUS
<1> HIDE DEF step
<1>7. PICK G \in [SUBSET (1 .. n) -> St] : IsFold(n, base, step, G)
  BY <1>1, <1>2, <1>5, FoldExists
<1>8. IsCombining(t, cols, equal, G)
  <2>1. \A s \in SUBSET (1 .. n) : G[s] = IF s = {} THEN base ELSE VE!AddVCToValues(G[s \ {VE!Max(s)}], V(VE!Max(s)), equal)
    <3> TAKE s \in SUBSET (1 .. n)
    <3>1. CASE s = {}
      BY <1>7, <3>1 DEF IsFold
    <3>2. CASE s # {}
      <4>1. s \ {VE!Max(s)} \in SUBSET (1 .. n) /\ VE!Max(s) \in 1 .. n
        BY <1>1, <3>2, SmallerSet
      <4>2. G[s \ {VE!Max(s)}] \in St
        BY <4>1
      <4> QED BY <1>6, <1>7, <3>2, <4>1, <4>2 DEF IsFold
    <3> QED BY <3>1, <3>2
  <2>2. G = [s \in SUBSET (1 .. n) |-> G[s]]
    OBVIOUS
  <2> QED BY <1>1, <2>1, <2>2, Zenon DEF IsCombining, base, V
<1>9. VE!CombineValues(t, cols, equal) = (CHOOSE F : IsCombining(t, cols, equal, F))[DOMAIN t]
  BY Zenon DEF VE!CombineValues, VE!FoldLeft, VE!MapThenFoldSet, IsCombining
<1>10. PICK F : IsCombining(t, cols, equal, F) /\ VE!CombineValues(t, cols, equal) = F[DOMAIN t]
  BY <1>8, <1>9, Zenon
<1>11. \A s \in SUBSET (1 .. n) : F[s] = IF s = {} THEN base ELSE VE!AddVCToValues(F[s \ {VE!Max(s)}], V(VE!Max(s)), equal)
  BY <1>1, <1>10, Zenon DEF IsCombining, base, V
<1> DEFINE H == [k \in 0 .. n |-> F[1 .. k]]
<1>12. H[0] = base
  <2>1. 1 .. 0 = {} /\ 0 \in 0 .. n
    BY <1>1
  <2> QED BY <1>11, <2>1
<1>13. \A k \in 1 .. n : H[k] = VE!AddVCToValues(H[k - 1], V(k), equal)
  <2> TAKE k \in 1 .. n
  <2>1. /\ 1 .. k # {} /\ 1 .. k \in SUBSET (1 .. n) /\ VE!Max(1 .. k) = k
        /\ (1 .. k) \ {VE!Max(1 .. k)} = 1 .. k - 1
    BY <1>1, PrefixOfFold
  <2>2. F[1 .. k] = VE!AddVCToValues(F[1 .. k - 1], V(k), equal)
    BY <1>11, <2>1
  <2>3. k \in 0 .. n /\ k - 1 \in 0 .. n
    BY <1>1
  <2> QED BY <2>2, <2>3
<1>14. H[n] = VE!CombineValues(t, cols, equal)
  BY <1>1, <1>10
<1>15. H = [k \in 0 .. n |-> H[k]]
  OBVIOUS
<1> HIDE DEF H
<1>16. \A k \in Nat : k \in {j \in Nat : j <= n => H[j] \in St}
  <2> DEFINE P == {k \in Nat : k <= n => H[k] \in St}
  <2>1. 0 \in P
    BY <1>2, <1>12
  <2>2. \A k \in Nat : k \in P => k + 1 \in P
    <3> TAKE k \in Nat
    <3> HAVE k \in P
    <3>1. CASE k + 1 <= n
      <4>1. k + 1 \in 1 .. n /\ k + 1 - 1 = k /\ H[k] \in St
        BY <1>1, <3>1
      <4>2. H[k + 1] = VE!AddVCToValues(H[k], V(k + 1), equal)
        BY <1>13, <4>1
      <4> QED BY <1>4, <4>1, <4>2
    <3>2. CASE ~(k + 1 <= n)
      BY <3>2
    <3> QED BY <3>1, <3>2
  <2> HIDE DEF P
  <2>3. \A k \in Nat : k \in P
    BY <2>1, <2>2, CountingUp
  <2> QED BY <2>3 DEF P
<1>17. \A k \in 0 .. n : H[k] \in St
  BY <1>1, <1>16
<1>18. H \in [0 .. n -> St]
  BY <1>15, <1>17
<1>19. \A k \in 1 .. n : \E i : IsNumbered(H[k - 1], V(k), equal, i, H[k])
  <2> TAKE k \in 1 .. n
  <2>1. H[k - 1] \in Numberings(t, cols) /\ V(k) \in Projections(t, cols)
    BY <1>1, <1>3, <1>17 DEF St
  <2>2. \E i : IsNumbered(H[k - 1], V(k), equal, i, VE!AddVCToValues(H[k - 1], V(k), equal))
    BY <2>1, AddingNumbers
  <2> QED BY <1>13, <2>2
<1> QED BY <1>12, <1>14, <1>18, <1>19 DEF n, St, base, V

(* Rows get the same number exactly if they are the same on the columns,   *)
(* and every number is that of a row.                                      *)
Alike(t, cols, equal, r, q) ==
  r = q \/ (VE!Projected(t[r], cols) = VE!Projected(t[q], cols) /\ ~Unmatched(VE!Projected(t[r], cols), equal))
Numbers(t, cols, equal, k, u) ==
  /\ Len(u.row) = k
  /\ \A r \in 1 .. k : u.row[r] \in 1 .. Len(u.values) /\ u.values[u.row[r]] = VE!Projected(t[r], cols)
  /\ \A i \in 1 .. Len(u.values) : \E r \in 1 .. k : u.row[r] = i
  /\ \A r, q \in 1 .. k : u.row[r] = u.row[q] <=> Alike(t, cols, equal, r, q)

(* The numbers of the rows so far are right with one more row.             *)
LEMMA NextNumber ==
  ASSUME NEW t, NEW cols, NEW equal \in BOOLEAN, NEW k \in Nat, NEW u \in Numberings(t, cols), NEW w, NEW i,
         Numbers(t, cols, equal, k, u), IsNumbered(u, VE!Projected(t[k + 1], cols), equal, i, w)
  PROVE  Numbers(t, cols, equal, k + 1, w)
<1> DEFINE V(r) == VE!Projected(t[r], cols)
           m == Len(u.values)
           v == V(k + 1)
<1>1. u.row \in Seq(Nat) /\ u.values \in Seq(Projections(t, cols)) /\ m \in Nat
  BY DEF Numberings
<1>2. /\ Len(u.row) = k
      /\ \A r \in 1 .. k : u.row[r] \in 1 .. m /\ u.values[u.row[r]] = V(r)
      /\ \A j \in 1 .. m : \E r \in 1 .. k : u.row[r] = j
      /\ \A r, q \in 1 .. k : u.row[r] = u.row[q] <=> Alike(t, cols, equal, r, q)
  BY DEF Numbers
<1>3. /\ i \in 1 .. m + 1
      /\ w.row = Append(u.row, i) /\ w.values = IF i > m THEN Append(u.values, v) ELSE u.values
      /\ Unmatched(v, equal) \/ ~(\E j \in 1 .. m : u.values[j] = v) => i = m + 1
      /\ ~Unmatched(v, equal) /\ (\E j \in 1 .. m : u.values[j] = v) => i <= m /\ u.values[i] = v
  BY DEF IsNumbered
<1> HIDE DEF V
<1>4. /\ Len(w.row) = k + 1 /\ w.row[k + 1] = i /\ \A r \in 1 .. k : w.row[r] = u.row[r]
  <2>1. i \in Nat
    BY <1>1, <1>3
  <2> QED BY <1>1, <1>2, <1>3, <2>1
<1>5. /\ Len(w.values) = IF i > m THEN m + 1 ELSE m
      /\ \A j \in 1 .. m : w.values[j] = u.values[j]
      /\ i > m => w.values[m + 1] = v
  <2>1. CASE i > m
    <3>1. w.values = Append(u.values, v)
      BY <1>3, <2>1
    <3>2. Len(Append(u.values, v)) = m + 1 /\ Append(u.values, v)[m + 1] = v
      BY <1>1
    <3>3. \A j \in 1 .. m : Append(u.values, v)[j] = u.values[j]
      BY <1>1
    <3> QED BY <2>1, <3>1, <3>2, <3>3
  <2>2. CASE ~(i > m)
    BY <1>3, <2>2
  <2> QED BY <2>1, <2>2
<1>6. i \in 1 .. Len(w.values) /\ w.values[i] = v
  <2>1. CASE i > m
    <3>1. i = m + 1
      BY <1>1, <1>3, <2>1
    <3> QED BY <1>1, <1>5, <2>1, <3>1
  <2>2. CASE ~(i > m)
    <3>1. i # m + 1 /\ i \in 1 .. m
      BY <1>1, <1>3, <2>2
    <3>2. u.values[i] = v
      BY <1>3, <3>1
    <3> QED BY <1>5, <2>2, <3>1, <3>2
  <2> QED BY <2>1, <2>2
<1>7. \A r \in 1 .. k + 1 : w.row[r] \in 1 .. Len(w.values) /\ w.values[w.row[r]] = V(r)
  <2> TAKE r \in 1 .. k + 1
  <2>1. CASE r \in 1 .. k
    <3>1. u.row[r] \in 1 .. m /\ w.row[r] = u.row[r] /\ u.values[u.row[r]] = V(r)
      BY <1>2, <1>4, <2>1
    <3>2. w.values[u.row[r]] = u.values[u.row[r]]
      BY <1>5, <3>1
    <3>3. u.row[r] \in 1 .. Len(w.values)
      BY <1>1, <1>5, <3>1
    <3> QED BY <3>1, <3>2, <3>3
  <2>2. CASE r = k + 1
    BY <1>4, <1>6, <2>2
  <2> QED BY <2>1, <2>2
<1>8. \A j \in 1 .. Len(w.values) : \E r \in 1 .. k + 1 : w.row[r] = j
  <2> TAKE j \in 1 .. Len(w.values)
  <2>1. CASE j \in 1 .. m
    <3>1. PICK r \in 1 .. k : u.row[r] = j
      BY <1>2, <2>1
    <3>2. r \in 1 .. k + 1 /\ w.row[r] = j
      BY <1>4, <3>1
    <3> QED BY <3>2
  <2>2. CASE j \notin 1 .. m
    <3>1. j = i
      BY <1>1, <1>3, <1>5, <2>2
    <3>2. k + 1 \in 1 .. k + 1
      OBVIOUS
    <3> QED BY <1>4, <3>1, <3>2
  <2> QED BY <2>1, <2>2
<1>9. ASSUME NEW r \in 1 .. k PROVE u.row[r] = i <=> (V(r) = v /\ ~Unmatched(v, equal))
  <2>1. u.row[r] \in 1 .. m /\ u.values[u.row[r]] = V(r)
    BY <1>2
  <2>2. ASSUME u.row[r] = i PROVE V(r) = v /\ ~Unmatched(v, equal)
    <3>1. i # m + 1 /\ i \in 1 .. m
      BY <1>1, <2>1, <2>2
    <3>2. ~Unmatched(v, equal) /\ u.values[i] = v
      BY <1>3, <3>1
    <3> QED BY <2>1, <2>2, <3>2
  <2>3. ASSUME V(r) = v, ~Unmatched(v, equal) PROVE u.row[r] = i
    <3>1. i <= m /\ u.values[i] = v
      BY <1>3, <2>1, <2>3
    <3>2. i \in 1 .. m
      BY <1>1, <1>3, <3>1
    <3>3. PICK q \in 1 .. k : u.row[q] = i
      BY <1>2, <3>2
    <3>4. V(q) = v
      BY <1>2, <3>1, <3>3
    <3>5. Alike(t, cols, equal, r, q)
      BY <2>3, <3>4 DEF Alike, V
    <3> QED BY <1>2, <3>3, <3>5
  <2> QED BY <2>2, <2>3
<1>10. \A r \in 1 .. k : /\ Alike(t, cols, equal, r, k + 1) <=> V(r) = v /\ ~Unmatched(v, equal)
                         /\ Alike(t, cols, equal, k + 1, r) <=> V(r) = v /\ ~Unmatched(v, equal)
  <2> TAKE r \in 1 .. k
  <2>1. r # k + 1
    OBVIOUS
  <2> QED BY <2>1 DEF Alike, V
<1>11. \A r, q \in 1 .. k + 1 : w.row[r] = w.row[q] <=> Alike(t, cols, equal, r, q)
  <2> TAKE r, q \in 1 .. k + 1
  <2>1. CASE r \in 1 .. k /\ q \in 1 .. k
    BY <1>2, <1>4, <2>1
  <2>2. CASE r \in 1 .. k /\ q = k + 1
    BY <1>4, <1>9, <1>10, <2>2
  <2>3. CASE r = k + 1 /\ q \in 1 .. k
    BY <1>4, <1>9, <1>10, <2>3
  <2>4. CASE r = k + 1 /\ q = k + 1
    BY <2>4 DEF Alike
  <2> QED BY <2>1, <2>2, <2>3, <2>4
<1> QED BY <1>4, <1>7, <1>8, <1>11 DEF Numbers, V

(* And so after all rows.                                                  *)
LEMMA NumbersAre ==
  ASSUME NEW t, IsARows(t), NEW cols, NEW equal \in BOOLEAN
  PROVE  LET s == VE!CombineValues(t, cols, equal)
         IN /\ DOMAIN s.row = DOMAIN t
            /\ \A r \in DOMAIN t : s.row[r] \in DOMAIN s.values
            /\ \A i \in DOMAIN s.values : \E r \in DOMAIN t : s.row[r] = i
            /\ \A r, q \in DOMAIN t : s.row[r] = s.row[q] <=> VE!Same(t, VE!ToSet(cols), r, q, equal)
<1> DEFINE n == VE!Len(t)
           s == VE!CombineValues(t, cols, equal)
<1>1. n \in Nat /\ DOMAIN t = 1 .. n
  BY DEF IsARows
<1>2. PICK H \in [0 .. n -> Numberings(t, cols)] :
        /\ H[0] = [row |-> <<>>, values |-> <<>>]
        /\ \A k \in 1 .. n : \E i : IsNumbered(H[k - 1], VE!Projected(t[k], cols), equal, i, H[k])
        /\ s = H[n]
  BY CombinedIs
<1> HIDE DEF n, s
<1> DEFINE P == {k \in Nat : k <= n => Numbers(t, cols, equal, k, H[k])}
<1>3. 0 \in P
  BY <1>2 DEF Numbers
<1>4. \A k \in Nat : k \in P => k + 1 \in P
  <2> SUFFICES ASSUME NEW k \in Nat, k \in P, k + 1 <= n PROVE Numbers(t, cols, equal, k + 1, H[k + 1])
    OBVIOUS
  <2>1. k + 1 \in 1 .. n /\ k \in 0 .. n /\ k + 1 - 1 = k /\ Numbers(t, cols, equal, k, H[k])
    BY <1>1
  <2>2. \E i : IsNumbered(H[k + 1 - 1], VE!Projected(t[k + 1], cols), equal, i, H[k + 1])
    BY <1>2, <2>1
  <2>3. PICK i : IsNumbered(H[k], VE!Projected(t[k + 1], cols), equal, i, H[k + 1])
    BY <2>1, <2>2
  <2>4. H[k] \in Numberings(t, cols)
    BY <2>1
  <2> QED BY <2>1, <2>3, <2>4, NextNumber
<1> HIDE DEF P
<1>5. \A k \in Nat : k \in P
  BY <1>3, <1>4, CountingUp
<1>6. Numbers(t, cols, equal, n, s) /\ s \in Numberings(t, cols)
  <2>1. n \in 0 .. n /\ n <= n
    BY <1>1
  <2> QED BY <1>1, <1>2, <1>5, <2>1 DEF P
<1>7. DOMAIN s.row = 1 .. Len(s.row) /\ DOMAIN s.values = 1 .. Len(s.values)
  BY <1>6 DEF Numberings
<1>8. \A r, q \in DOMAIN t : Alike(t, cols, equal, r, q) <=> VE!Same(t, VE!ToSet(cols), r, q, equal)
  <2> TAKE r, q \in DOMAIN t
  <2>1. VE!Projected(t[r], cols) = VE!Projected(t[q], cols) <=> VE!Equal(t, VE!ToSet(cols), r, q)
    <3>1. VE!Projected(t[r], cols) = VE!Projected(t[q], cols) <=> \A i \in DOMAIN cols : t[r][cols[i]] = t[q][cols[i]]
      BY DEF VE!Projected
    <3>2. VE!ToSet(cols) = {cols[i] : i \in DOMAIN cols}
      BY DEF VE!ToSet
    <3> QED BY <3>1, <3>2 DEF VE!Equal
  <2>2. Unmatched(VE!Projected(t[r], cols), equal) <=> ~(equal \/ \A c \in VE!ToSet(cols) : t[r][c] # 0)
    <3>1. VE!HasNull(VE!Projected(t[r], cols)) <=> \E i \in DOMAIN cols : t[r][cols[i]] = 0
      BY DEF VE!HasNull, VE!Projected
    <3>2. VE!ToSet(cols) = {cols[i] : i \in DOMAIN cols}
      BY DEF VE!ToSet
    <3> QED BY <3>1, <3>2 DEF Unmatched
  <2> QED BY <2>1, <2>2 DEF Alike, VE!Same
<1> QED BY <1>1, <1>6, <1>7, <1>8 DEF Numbers, s

(* What tells the same members apart takes as many values.                 *)
LEMMA AsManyValues ==
  ASSUME NEW O, IsFiniteSet(O), NEW f, NEW g, \A x, y \in O : f[x] = f[y] <=> g[x] = g[y]
  PROVE  Cardinality({f[x] : x \in O}) = Cardinality({g[x] : x \in O})
<1> DEFINE A == {f[x] : x \in O}
           B == {g[x] : x \in O}
           h == [a \in A |-> g[CHOOSE x \in O : f[x] = a]]
<1>1. \A x \in O : f[x] \in A /\ g[x] \in B /\ h[f[x]] = g[x]
  <2> TAKE x \in O
  <2> DEFINE y == CHOOSE z \in O : f[z] = f[x]
  <2>1. y \in O /\ f[y] = f[x]
    OBVIOUS
  <2>2. h[f[x]] = g[y]
    OBVIOUS
  <2> HIDE DEF y
  <2>3. g[y] = g[x]
    BY <2>1
  <2> HIDE DEF h
  <2> QED BY <2>2, <2>3
<1>2. \A a \in A : \E x \in O : a = f[x]
  OBVIOUS
<1>3. \A b \in B : \E x \in O : b = g[x]
  OBVIOUS
<1>4. h = [a \in A |-> h[a]]
  OBVIOUS
<1>5. IsFiniteSet(A)
  BY ImageIsFinite
<1> HIDE DEF A, B, h
<1>6. \A a \in A : h[a] \in B
  BY <1>1, <1>2
<1>7. h \in [A -> B]
  BY <1>4, <1>6
<1>8. \A a, b \in A : h[a] = h[b] => a = b
  BY <1>1, <1>2
<1>9. \A b \in B : \E a \in A : h[a] = b
  BY <1>1, <1>3
<1>10. h \in Bijection(A, B)
  BY <1>7, <1>8, <1>9, Zenon DEF Bijection, Injection, Surjection, IsInjective
<1>11. ExistsBijection(A, B)
  BY <1>10 DEF ExistsBijection
<1> QED BY <1>5, <1>11, FS_Bijection DEF A, B

(* A numerical dependency: the most and the fewest different values on the *)
(* right side of rows that are the same on the left one, and the rows that *)
(* have the most.                                                          *)
THEOREM NdIsAlwaysRight ==
  ASSUME NEW t, IsARows(t), NEW X, NEW Y, NEW equal \in BOOLEAN
  PROVE  VE!NdIsRight(t, X, Y, equal)
<1> DEFINE lhs == VE!CombineValues(t, X, equal)
           rhs == VE!CombineValues(t, Y, equal)
           like(r) == VE!SameClass(t, VE!ToSet(X), r, equal)
           weight(r) == VE!Cardinality({VE!SameClass(t, VE!ToSet(Y), s, equal) : s \in like(r)})
           deps == VE!ValueDeps(lhs, rhs)
           weights == [code \in DOMAIN deps |-> VE!Cardinality(deps[code])]
           result == VE!VerifyND(t, X, Y, equal)
           rows == VE!Rows(t)
<1>1. /\ DOMAIN lhs.row = DOMAIN t
      /\ \A r \in DOMAIN t : lhs.row[r] \in DOMAIN lhs.values
      /\ \A i \in DOMAIN lhs.values : \E r \in DOMAIN t : lhs.row[r] = i
      /\ \A r, q \in DOMAIN t : lhs.row[r] = lhs.row[q] <=> VE!Same(t, VE!ToSet(X), r, q, equal)
  BY NumbersAre
<1>2. \A r, q \in DOMAIN t : rhs.row[r] = rhs.row[q] <=> VE!Same(t, VE!ToSet(Y), r, q, equal)
  BY NumbersAre
<1> HIDE DEF lhs, rhs
<1>3. \A r \in DOMAIN t : VE!Occurrences(lhs, lhs.row[r]) = like(r)
  <2> TAKE r \in DOMAIN t
  <2>1. \A s \in DOMAIN t : lhs.row[s] = lhs.row[r] <=> s \in like(r)
    BY <1>1 DEF VE!SameClass, VE!Rows
  <2>2. like(r) \in SUBSET DOMAIN t
    BY DEF VE!SameClass, VE!Rows
  <2> HIDE DEF like
  <2> QED BY <1>1, <2>1, <2>2 DEF VE!Occurrences
<1>4. DOMAIN weights = DOMAIN lhs.values
  BY DEF VE!ValueDeps
<1>5. \A r \in DOMAIN t : weights[lhs.row[r]] = weight(r)
  <2> TAKE r \in DOMAIN t
  <2> DEFINE O == like(r)
             f == [s \in O |-> rhs.row[s]]
             g == [s \in O |-> VE!SameClass(t, VE!ToSet(Y), s, equal)]
  <2>1. O \in SUBSET DOMAIN t /\ IsFiniteSet(O)
    <3>1. O \in SUBSET DOMAIN t
      BY DEF VE!SameClass, VE!Rows
    <3> QED BY <3>1, RowsAreFinite, FS_Subset
  <2> HIDE DEF O
  <2>2. \A s, q \in O : f[s] = f[q] <=> g[s] = g[q]
    <3> TAKE s, q \in O
    <3>1. s \in DOMAIN t /\ q \in DOMAIN t
      BY <2>1
    <3> DEFINE C(x) == VE!SameClass(t, VE!ToSet(Y), x, equal)
    <3>2. \A x, y \in DOMAIN t : y \in C(x) <=> rhs.row[x] = rhs.row[y]
      BY <1>2 DEF VE!SameClass, VE!Rows
    <3>3. \A x \in DOMAIN t : C(x) \in SUBSET DOMAIN t
      BY DEF VE!SameClass, VE!Rows
    <3> HIDE DEF C
    <3>4. C(s) = C(q) <=> rhs.row[s] = rhs.row[q]
      BY <3>1, <3>2, <3>3
    <3>5. f[s] = rhs.row[s] /\ f[q] = rhs.row[q] /\ g[s] = C(s) /\ g[q] = C(q)
      BY DEF C
    <3> QED BY <3>4, <3>5
  <2>3. {f[s] : s \in O} = deps[lhs.row[r]]
    <3>1. lhs.row[r] \in DOMAIN lhs.values
      BY <1>1
    <3>2. {s \in DOMAIN lhs.row : lhs.row[s] = lhs.row[r]} = O
      BY <1>3 DEF VE!Occurrences, O
    <3>3. deps[lhs.row[r]] = {rhs.row[s] : s \in O}
      BY <3>1, <3>2 DEF VE!ValueDeps
    <3> QED BY <3>3
  <2>4. {g[s] : s \in O} = {VE!SameClass(t, VE!ToSet(Y), s, equal) : s \in O}
    OBVIOUS
  <2> HIDE DEF f, g, deps
  <2>5. Cardinality({f[s] : s \in O}) = Cardinality({g[s] : s \in O})
    BY <2>1, <2>2, AsManyValues
  <2>6. weights[lhs.row[r]] = VE!Cardinality(deps[lhs.row[r]])
    BY <1>1, <1>4
  <2> QED BY <2>3, <2>4, <2>5, <2>6, SameSizes DEF O
<1> HIDE DEF weights, weight, like
<1>6. VE!Range(weights) = {weight(r) : r \in rows}
  <2>1. VE!Range(weights) = {weights[i] : i \in DOMAIN weights}
    BY DEF VE!Range
  <2>2. ASSUME NEW i \in DOMAIN weights PROVE \E r \in rows : weights[i] = weight(r)
    <3>1. PICK r \in DOMAIN t : lhs.row[r] = i
      BY <1>1, <1>4
    <3> QED BY <1>5, <3>1 DEF VE!Rows
  <2>3. ASSUME NEW r \in rows PROVE \E i \in DOMAIN weights : weights[i] = weight(r)
    BY <1>1, <1>4, <1>5 DEF VE!Rows
  <2> QED BY <2>1, <2>2, <2>3
<1>7. result = VE!Weights(lhs, weights)
  BY DEF VE!VerifyND, VE!NdStatistics, lhs, rhs, weights
<1>8. result.real = VE!Max({weight(r) : r \in rows}) /\ result.least = VE!Min({weight(r) : r \in rows})
  BY <1>6, <1>7 DEF VE!Weights
<1>9. result.highlights = {VE!Occurrences(lhs, code) : code \in {c \in DOMAIN weights : weights[c] = result.real}}
  BY <1>7 DEF VE!Weights
<1>10. result.highlights = {like(r) : r \in {s \in rows : weight(s) = result.real}}
  <2> HIDE DEF result
  <2>1. ASSUME NEW c \in DOMAIN weights, weights[c] = result.real
        PROVE  \E r \in rows : weight(r) = result.real /\ VE!Occurrences(lhs, c) = like(r)
    <3>1. PICK r \in DOMAIN t : lhs.row[r] = c
      BY <1>1, <1>4
    <3> QED BY <1>3, <1>5, <2>1, <3>1 DEF VE!Rows
  <2>2. ASSUME NEW r \in rows, weight(r) = result.real
        PROVE  \E c \in DOMAIN weights : weights[c] = result.real /\ VE!Occurrences(lhs, c) = like(r)
    BY <1>1, <1>3, <1>4, <1>5, <2>2 DEF VE!Rows
  <2> QED BY <1>9, <2>1, <2>2
<1> QED BY <1>8, <1>10 DEF VE!NdIsRight, weight, like

(* Sorting by the number of members before: a finite set in the order of a *)
(* relation that tells any two members apart.                              *)
IsOrder(S, R) ==
  /\ \A a, b \in S : <<a, b>> \in R => ~(<<b, a>> \in R)
  /\ \A a, b \in S : a # b => <<a, b>> \in R \/ <<b, a>> \in R
  /\ \A a, b, c \in S : <<a, b>> \in R /\ <<b, c>> \in R => <<a, c>> \in R
EarlierIn(S, R, a) == {b \in S : <<b, a>> \in R}
IsSortedBy(S, R, e) ==
  /\ e = [i \in 1 .. Cardinality(S) |-> e[i]]
  /\ \A i \in 1 .. Cardinality(S) : (\E a \in S : Cardinality(EarlierIn(S, R, a)) = i - 1)
       => e[i] \in S /\ Cardinality(EarlierIn(S, R, e[i])) = i - 1

(* The number of members before tells the members apart, and is less than  *)
(* their number.                                                           *)
LEMMA RanksAre ==
  ASSUME NEW S, IsFiniteSet(S), NEW R, IsOrder(S, R)
  PROVE  /\ Cardinality(S) \in Nat
         /\ \A a \in S : /\ Cardinality(EarlierIn(S, R, a)) \in 0 .. Cardinality(S) - 1
                         /\ IsFiniteSet(EarlierIn(S, R, a)) /\ a \notin EarlierIn(S, R, a)
         /\ \A a, b \in S : <<a, b>> \in R => Cardinality(EarlierIn(S, R, a)) < Cardinality(EarlierIn(S, R, b))
         /\ \A a, b \in S : Cardinality(EarlierIn(S, R, a)) = Cardinality(EarlierIn(S, R, b)) => a = b
<1>0. Cardinality(S) \in Nat
  BY FS_CardinalityType
<1>1. ASSUME NEW a \in S
      PROVE  /\ Cardinality(EarlierIn(S, R, a)) \in 0 .. Cardinality(S) - 1
             /\ IsFiniteSet(EarlierIn(S, R, a)) /\ a \notin EarlierIn(S, R, a)
  <2>1. EarlierIn(S, R, a) \in SUBSET S /\ a \notin EarlierIn(S, R, a)
    BY DEF EarlierIn, IsOrder
  <2>2. IsFiniteSet(EarlierIn(S, R, a)) /\ EarlierIn(S, R, a) \in SUBSET (S \ {a})
    BY <2>1, FS_Subset
  <2>3. IsFiniteSet(S \ {a}) /\ Cardinality(S \ {a}) = Cardinality(S) - 1
    BY FS_RemoveElement
  <2>4. Cardinality(EarlierIn(S, R, a)) <= Cardinality(S \ {a}) /\ Cardinality(EarlierIn(S, R, a)) \in Nat
    BY <2>2, <2>3, PartIsSmaller
  <2>5. Cardinality(EarlierIn(S, R, a)) \in 0 .. Cardinality(S) - 1
    BY <1>0, <2>3, <2>4
  <2> QED BY <2>1, <2>2, <2>5
<1>2. ASSUME NEW a \in S, NEW b \in S, <<a, b>> \in R
      PROVE  Cardinality(EarlierIn(S, R, a)) < Cardinality(EarlierIn(S, R, b))
  <2>1. EarlierIn(S, R, a) \in SUBSET (EarlierIn(S, R, b) \ {a}) /\ a \in EarlierIn(S, R, b)
    BY <1>2 DEF EarlierIn, IsOrder
  <2>2. IsFiniteSet(EarlierIn(S, R, b)) /\ Cardinality(EarlierIn(S, R, b)) \in Nat
    BY <1>1, FS_CardinalityType
  <2>3. IsFiniteSet(EarlierIn(S, R, b) \ {a}) /\ Cardinality(EarlierIn(S, R, b) \ {a}) = Cardinality(EarlierIn(S, R, b)) - 1
    BY <2>1, <2>2, FS_RemoveElement
  <2>4. Cardinality(EarlierIn(S, R, a)) <= Cardinality(EarlierIn(S, R, b) \ {a}) /\ Cardinality(EarlierIn(S, R, a)) \in Nat
    BY <2>1, <2>3, PartIsSmaller
  <2> QED BY <2>2, <2>3, <2>4
<1>3. ASSUME NEW a \in S, NEW b \in S, Cardinality(EarlierIn(S, R, a)) = Cardinality(EarlierIn(S, R, b)), a # b PROVE FALSE
  <2>1. <<a, b>> \in R \/ <<b, a>> \in R
    BY <1>3 DEF IsOrder
  <2>2. Cardinality(EarlierIn(S, R, a)) \in Nat
    BY <1>1, FS_CardinalityType
  <2>3. Cardinality(EarlierIn(S, R, a)) < Cardinality(EarlierIn(S, R, b)) \/ Cardinality(EarlierIn(S, R, b)) < Cardinality(EarlierIn(S, R, a))
    BY <1>2, <2>1
  <2> QED BY <1>3, <2>2, <2>3
<1> QED BY <1>0, <1>1, <1>2, <1>3

(* A sorted set has each member at one place, and places follow the order. *)
LEMMA SortedIs ==
  ASSUME NEW S, IsFiniteSet(S), NEW R, IsOrder(S, R), NEW e, IsSortedBy(S, R, e)
  PROVE  /\ e \in [1 .. Cardinality(S) -> S]
         /\ \A i \in 1 .. Cardinality(S) : Cardinality(EarlierIn(S, R, e[i])) = i - 1
         /\ \A a \in S : \E i \in 1 .. Cardinality(S) : e[i] = a
<1> DEFINE n == Cardinality(S)
           rank == [a \in S |-> Cardinality(EarlierIn(S, R, a))]
           T == 0 .. n - 1
<1>1. n \in Nat /\ (\A a \in S : rank[a] \in T) /\ (\A a, b \in S : rank[a] = rank[b] => a = b) /\ rank \in [S -> T]
  BY RanksAre
<1>2. IsFiniteSet(T) /\ Cardinality(T) = n
  <2>1. IsFiniteSet(0 .. n - 1) /\ Cardinality(0 .. n - 1) = IF 0 > n - 1 THEN 0 ELSE n - 1 - 0 + 1
    BY <1>1, FS_Interval
  <2> QED BY <1>1, <2>1
<1>3. rank \in Injection(S, T)
  <2> HIDE DEF rank, T
  <2> QED BY <1>1, Zenon DEF Injection, IsInjective
<1> HIDE DEF rank, T
<1>4. rank \in Surjection(S, T)
  BY <1>2, <1>3, FS_Injection DEF n
<1>5. \A k \in T : \E a \in S : rank[a] = k
  BY <1>4, Zenon DEF Surjection
<1>6. \A i \in 1 .. n : i - 1 \in T
  BY <1>1 DEF T
<1>7. \A i \in 1 .. n : e[i] \in S /\ rank[e[i]] = i - 1
  <2> TAKE i \in 1 .. n
  <2>1. \E a \in S : Cardinality(EarlierIn(S, R, a)) = i - 1
    BY <1>5, <1>6 DEF rank
  <2>2. e[i] \in S /\ Cardinality(EarlierIn(S, R, e[i])) = i - 1
    BY <2>1 DEF IsSortedBy
  <2> QED BY <2>2 DEF rank
<1>8. \A a \in S : \E i \in 1 .. n : e[i] = a
  <2> TAKE a \in S
  <2>0. rank[a] \in 0 .. n - 1
    BY <1>1 DEF T
  <2> HIDE DEF n
  <2>1. rank[a] + 1 \in 1 .. n /\ rank[a] + 1 - 1 = rank[a]
    BY <1>1, <2>0
  <2> DEFINE i == rank[a] + 1
  <2>2. i \in 1 .. n /\ i - 1 = rank[a]
    BY <1>1, <2>0
  <2> HIDE DEF i
  <2>3. rank[e[i]] = rank[a] /\ e[i] \in S
    BY <1>7, <2>2
  <2> QED BY <1>1, <2>2, <2>3
<1>9. e \in [1 .. n -> S]
  BY <1>7 DEF IsSortedBy
<1> QED BY <1>7, <1>8, <1>9 DEF rank

(* What comes after members that have all those before them.               *)
LEMMA NextSorted ==
  ASSUME NEW S, IsFiniteSet(S), NEW R, IsOrder(S, R), NEW e, IsSortedBy(S, R, e),
         NEW C \in SUBSET S, \A a \in C : \A b \in S : <<b, a>> \in R => b \in C
  PROVE  LET i == Cardinality(C) + 1
         IN /\ Cardinality(C) \in Nat /\ (C = S <=> i > Cardinality(S))
            /\ C # S => /\ i \in 1 .. Cardinality(S) /\ e[i] \in S \ C
                        /\ \A b \in S \ C : b = e[i] \/ <<e[i], b>> \in R
<1> DEFINE i == Cardinality(C) + 1
           n == Cardinality(S)
<1>1. IsFiniteSet(C) /\ Cardinality(C) <= n /\ Cardinality(C) \in Nat /\ n \in Nat
      /\ n = Cardinality(C) + Cardinality(S \ C) /\ Cardinality(S \ C) \in Nat
  BY PartIsSmaller
<1>2. C # S => i \in 1 .. n
  <2> HAVE C # S
  <2>1. IsFiniteSet(S \ C) /\ S \ C # {}
    BY FS_Subset
  <2>2. Cardinality(S \ C) # 0
    BY <2>1, FS_EmptySet
  <2> QED BY <1>1, <2>2
<1>3. C = S => i > n
  BY <1>1
<1>4. ASSUME C # S
      PROVE  e[i] \in S \ C /\ \A b \in S \ C : b = e[i] \/ <<e[i], b>> \in R
  <2> DEFINE a == e[i]
             B == EarlierIn(S, R, a)
  <2>1. a \in S /\ Cardinality(B) = Cardinality(C)
    <3>0. e \in [1 .. n -> S] /\ \A j \in 1 .. n : Cardinality(EarlierIn(S, R, e[j])) = j - 1
      BY SortedIs
    <3> HIDE DEF i, n
    <3>1. e[i] \in S /\ Cardinality(EarlierIn(S, R, e[i])) = i - 1
      BY <1>2, <1>4, <3>0
    <3> QED BY <1>1, <3>1 DEF i
  <2> HIDE DEF a
  <2>2. IsFiniteSet(B) /\ a \notin B /\ B \in SUBSET S
    BY <2>1, RanksAre DEF EarlierIn
  <2>3. a \notin C
    <3> SUFFICES ASSUME a \in C PROVE FALSE
      OBVIOUS
    <3>1. B \in SUBSET (C \ {a})
      BY <2>2 DEF EarlierIn
    <3> HIDE DEF B
    <3>2. IsFiniteSet(C \ {a}) /\ Cardinality(C \ {a}) = Cardinality(C) - 1
      BY <1>1, FS_RemoveElement
    <3>3. Cardinality(B) <= Cardinality(C \ {a})
      BY <3>1, <3>2, PartIsSmaller
    <3> QED BY <1>1, <2>1, <3>2, <3>3
  <2>4. C \in SUBSET B
    BY <2>1, <2>3 DEF EarlierIn, IsOrder
  <2> HIDE DEF B
  <2>5. C = B
    BY <2>1, <2>2, <2>4, FS_Subset
  <2>6. \A b \in S \ C : b = a \/ <<a, b>> \in R
    BY <2>1, <2>5 DEF B, EarlierIn, IsOrder
  <2> QED BY <2>1, <2>3, <2>6 DEF a
<1> QED BY <1>1, <1>2, <1>3, <1>4

(* Sets of rows that have none in common have different first rows.        *)
AreRowSets(S) == AreClasses(S) /\ \A K \in S : K # {} /\ K \in SUBSET Int

(* The first row of each is a row of it, and of no other one.              *)
LEMMA FirstRows ==
  ASSUME NEW S, AreRowSets(S)
  PROVE  /\ \A K \in S : VE!Min(K) \in K /\ VE!Min(K) \in Int /\ \A r \in K : VE!Min(K) <= r
         /\ \A K, L \in S : VE!Min(K) = VE!Min(L) => K = L
<1>1. ASSUME NEW K \in S PROVE VE!Min(K) \in K /\ VE!Min(K) \in Int /\ \A r \in K : VE!Min(K) <= r
  <2>1. IsFiniteSet(K) /\ K # {} /\ K \in SUBSET Int
    BY DEF AreRowSets, AreClasses
  <2> QED BY <2>1, Extremes
<1>2. \A K, L \in S : VE!Min(K) = VE!Min(L) => K = L
  BY <1>1 DEF AreRowSets, AreClasses
<1> QED BY <1>1, <1>2

(* The three orders, and the lists sorted by them.                         *)
RowOrder(K) == {x \in K \X K : x[1] < x[2]}
FirstOrder(S) == {x \in S \X S : VE!Min(x[1]) < VE!Min(x[2])}
PartOrder(ks, S) ==
  {x \in S \X S : \/ VE!ClassAt(ks, x[1]) < VE!ClassAt(ks, x[2])
                  \/ VE!ClassAt(ks, x[1]) = VE!ClassAt(ks, x[2]) /\ VE!Min(x[1]) < VE!Min(x[2])}
RowsInOrder(K) == VE!Sorted(K, LAMBDA q, x : q < x)

(* The rows of a class in ascending order.                                 *)
LEMMA RowsSorted ==
  ASSUME NEW K \in SUBSET Int, IsFiniteSet(K)
  PROVE  IsOrder(K, RowOrder(K)) /\ IsSortedBy(K, RowOrder(K), RowsInOrder(K))
<1>1. IsOrder(K, RowOrder(K))
  BY DEF IsOrder, RowOrder
<1>2. \A a \in K : EarlierIn(K, RowOrder(K), a) = {b \in K : b < a}
  BY DEF EarlierIn, RowOrder
<1> DEFINE e == RowsInOrder(K)
           N(a) == VE!Cardinality({b \in K : b < a})
<1>3. \A a \in K : Cardinality(EarlierIn(K, RowOrder(K), a)) = N(a)
  BY <1>2, SameSizes
<1>4. e = [i \in 1 .. VE!Cardinality(K) |-> CHOOSE a \in K : N(a) = i - 1]
  BY Zenon DEF RowsInOrder, VE!Sorted
<1> HIDE DEF e, N
<1>5. VE!Cardinality(K) = Cardinality(K)
  BY SameSizes
<1>6. e = [i \in 1 .. Cardinality(K) |-> e[i]]
  BY <1>4, <1>5
<1>7. ASSUME NEW i \in 1 .. Cardinality(K), \E a \in K : Cardinality(EarlierIn(K, RowOrder(K), a)) = i - 1
      PROVE  e[i] \in K /\ Cardinality(EarlierIn(K, RowOrder(K), e[i])) = i - 1
  <2>1. \E a \in K : N(a) = i - 1
    BY <1>3, <1>7
  <2>2. e[i] = CHOOSE a \in K : N(a) = i - 1
    BY <1>4, <1>5
  <2>3. e[i] \in K /\ N(e[i]) = i - 1
    BY <2>1, <2>2
  <2> QED BY <1>3, <2>3
<1> QED BY <1>1, <1>6, <1>7 DEF IsSortedBy, e

(* Classes in the order of their first rows.                               *)
LEMMA FirstSorted ==
  ASSUME NEW S, AreRowSets(S)
  PROVE  IsOrder(S, FirstOrder(S)) /\ IsSortedBy(S, FirstOrder(S), VE!ByFirst(S))
<1>0. \A a \in S : VE!Min(a) \in Int
  BY FirstRows
<1>1. IsOrder(S, FirstOrder(S))
  <2>1. \A a, b \in S : VE!Min(a) = VE!Min(b) => a = b
    BY FirstRows
  <2>2. \A a, b \in S : <<a, b>> \in FirstOrder(S) <=> VE!Min(a) < VE!Min(b)
    BY DEF FirstOrder
  <2> QED BY <1>0, <2>1, <2>2 DEF IsOrder
<1>2. \A a \in S : EarlierIn(S, FirstOrder(S), a) = {b \in S : VE!Min(b) < VE!Min(a)}
  BY DEF EarlierIn, FirstOrder
<1> DEFINE e == VE!ByFirst(S)
           N(a) == VE!Cardinality({b \in S : VE!Min(b) < VE!Min(a)})
<1>3. \A a \in S : Cardinality(EarlierIn(S, FirstOrder(S), a)) = N(a)
  BY <1>2, SameSizes
<1>4. e = [i \in 1 .. VE!Cardinality(S) |-> CHOOSE a \in S : N(a) = i - 1]
  BY Zenon DEF VE!ByFirst, VE!Sorted
<1> HIDE DEF e, N
<1>5. VE!Cardinality(S) = Cardinality(S)
  BY SameSizes
<1>6. e = [i \in 1 .. Cardinality(S) |-> e[i]]
  BY <1>4, <1>5
<1>7. ASSUME NEW i \in 1 .. Cardinality(S), \E a \in S : Cardinality(EarlierIn(S, FirstOrder(S), a)) = i - 1
      PROVE  e[i] \in S /\ Cardinality(EarlierIn(S, FirstOrder(S), e[i])) = i - 1
  <2>1. \E a \in S : N(a) = i - 1
    BY <1>3, <1>7
  <2>2. e[i] = CHOOSE a \in S : N(a) = i - 1
    BY <1>4, <1>5
  <2>3. e[i] \in S /\ N(e[i]) = i - 1
    BY <2>1, <2>2
  <2> QED BY <1>3, <2>3
<1> QED BY <1>1, <1>6, <1>7 DEF IsSortedBy, e

(* Parts in the order of the classes they are part of, then of their first *)
(* rows.                                                                   *)
LEMMA PartsSorted ==
  ASSUME NEW S, AreRowSets(S), NEW ks, \A a \in S : VE!ClassAt(ks, a) \in Int
  PROVE  IsOrder(S, PartOrder(ks, S)) /\ IsSortedBy(S, PartOrder(ks, S), VE!ByClass(ks, S))
<1> DEFINE R == PartOrder(ks, S)
           less(a, b) == \/ VE!ClassAt(ks, a) < VE!ClassAt(ks, b)
                         \/ VE!ClassAt(ks, a) = VE!ClassAt(ks, b) /\ VE!Min(a) < VE!Min(b)
<1>0. \A a \in S : VE!Min(a) \in Int /\ VE!ClassAt(ks, a) \in Int
  BY FirstRows
<1>1. IsOrder(S, R)
  <2>1. \A a, b \in S : VE!Min(a) = VE!Min(b) => a = b
    BY FirstRows
  <2>2. \A a, b \in S : <<a, b>> \in R <=> less(a, b)
    BY DEF PartOrder
  <2> HIDE DEF R
  <2> QED BY <1>0, <2>1, <2>2 DEF IsOrder
<1>2. \A a \in S : EarlierIn(S, R, a) = {b \in S : less(b, a)}
  BY DEF EarlierIn, PartOrder
<1> DEFINE e == VE!ByClass(ks, S)
           N(a) == VE!Cardinality({b \in S : less(b, a)})
<1>3. \A a \in S : Cardinality(EarlierIn(S, R, a)) = N(a)
  BY <1>2, SameSizes
<1>4. e = [i \in 1 .. VE!Cardinality(S) |-> CHOOSE a \in S : N(a) = i - 1]
  BY Zenon DEF VE!ByClass, VE!Sorted
<1> HIDE DEF e, N, R
<1>5. VE!Cardinality(S) = Cardinality(S)
  BY SameSizes
<1>6. e = [i \in 1 .. Cardinality(S) |-> e[i]]
  BY <1>4, <1>5
<1>7. ASSUME NEW i \in 1 .. Cardinality(S), \E a \in S : Cardinality(EarlierIn(S, R, a)) = i - 1
      PROVE  e[i] \in S /\ Cardinality(EarlierIn(S, R, e[i])) = i - 1
  <2>1. \E a \in S : N(a) = i - 1
    BY <1>3, <1>7
  <2>2. e[i] = CHOOSE a \in S : N(a) = i - 1
    BY <1>4, <1>5
  <2>3. e[i] \in S /\ N(e[i]) = i - 1
    BY <2>1, <2>2
  <2> QED BY <1>3, <2>3
<1> QED BY <1>1, <1>6, <1>7 DEF IsSortedBy, e, R

(* Where a set of rows of one of several listed classes is found.          *)
LEMMA ClassIs ==
  ASSUME NEW S, AreRowSets(S), NEW ks, IsSortedBy(S, FirstOrder(S), ks)
  PROVE  /\ Cardinality(S) \in Nat /\ ks \in [1 .. Cardinality(S) -> S]
         /\ \A K \in S : \E i \in 1 .. Cardinality(S) : ks[i] = K
         /\ \A i, j \in 1 .. Cardinality(S) : ks[i] = ks[j] => i = j
         /\ \A a : \A i \in 1 .. Cardinality(S) : a \in SUBSET ks[i] /\ a # {} => VE!ClassAt(ks, a) = i
<1> DEFINE n == Cardinality(S)
<1>0. IsFiniteSet(S) /\ IsOrder(S, FirstOrder(S))
  BY FirstSorted DEF AreRowSets, AreClasses
<1>1. /\ ks \in [1 .. n -> S]
      /\ \A i \in 1 .. n : Cardinality(EarlierIn(S, FirstOrder(S), ks[i])) = i - 1
      /\ \A K \in S : \E i \in 1 .. n : ks[i] = K
  BY <1>0, SortedIs
<1>2. n \in Nat
  BY <1>0, FS_CardinalityType
<1> HIDE DEF n
<1>3. \A i, j \in 1 .. n : ks[i] = ks[j] => i = j
  <2> TAKE i, j \in 1 .. n
  <2> HAVE ks[i] = ks[j]
  <2>1. i - 1 = j - 1
    BY <1>1
  <2> QED BY <1>2, <2>1
<1>4. \A a : \A i \in 1 .. n : a \in SUBSET ks[i] /\ a # {} => VE!ClassAt(ks, a) = i
  <2> TAKE a
  <2> TAKE i \in 1 .. n
  <2> HAVE a \in SUBSET ks[i] /\ a # {}
  <2>1. ks[i] \in S
    BY <1>1
  <2>2. IsFiniteSet(ks[i]) /\ ks[i] \in SUBSET Int
    BY <2>1 DEF AreRowSets, AreClasses
  <2>3. VE!Min(a) \in a
    <3>1. IsFiniteSet(a) /\ a \in SUBSET Int
      BY <2>2, FS_Subset
    <3> QED BY <3>1, Extremes
  <2>4. \A j \in 1 .. n : VE!Min(a) \in ks[j] <=> j = i
    <3> TAKE j \in 1 .. n
    <3>1. ks[j] \in S /\ VE!Min(a) \in ks[i]
      BY <1>1, <2>3
    <3> QED BY <1>3, <2>1, <3>1 DEF AreRowSets, AreClasses
  <2>5. VE!ClassAt(ks, a) = CHOOSE j \in 1 .. n : VE!Min(a) \in ks[j]
    BY <1>1 DEF VE!ClassAt
  <2> HIDE DEF n
  <2> QED BY <2>4, <2>5
<1> QED BY <1>1, <1>2, <1>3, <1>4 DEF n

(* The states of going through the indexes, and the next row.              *)
States(T) == [at : Nat \ {0}, max : Nat, violating : SUBSET T, rows : Int, maxima : Seq(Nat \X Nat)]
IsNext(T, s, m, parts, r, w) ==
  /\ w \in States(T) /\ w.violating = s.violating /\ w.rows = s.rows /\ w.maxima = s.maxima
  /\ s.at > m \/ r # VE!Min(parts[s.at]) => w = s
  /\ s.at <= m /\ r = VE!Min(parts[s.at]) =>
       /\ w.at = s.at + 1
       /\ w.max = IF s.max >= Cardinality(parts[s.at]) THEN s.max ELSE Cardinality(parts[s.at])

(* One number or two are finitely many.                                    *)
LEMMA FewNumbers ==
  ASSUME NEW x \in Int, NEW y \in Int
  PROVE  /\ {x} \in SUBSET Int /\ IsFiniteSet({x}) /\ {x} # {}
         /\ {x, y} \in SUBSET Int /\ IsFiniteSet({x, y}) /\ {x, y} # {}
<1>1. IsFiniteSet({x})
  BY FS_Singleton
<1>2. IsFiniteSet({x} \cup {y})
  BY <1>1, FS_AddElement
<1>3. {x, y} = {x} \cup {y}
  OBVIOUS
<1>4. IsFiniteSet({x, y})
  BY <1>2, <1>3, Zenon
<1> QED BY <1>1, <1>4

(* A row is the first one of the part that comes next, or nothing happens. *)
LEMMA NextRowIs ==
  ASSUME NEW T, NEW s \in States(T), NEW m \in Nat, NEW Q, \A a \in Q : IsFiniteSet(a),
         NEW parts \in [1 .. m -> Q], NEW r
  PROVE  IsNext(T, s, m, parts, r, VE!NextRow(s, r, parts))
<1> DEFINE w == VE!NextRow(s, r, parts)
           size == VE!Cardinality(parts[s.at])
<1>1. VE!Len(parts) = m /\ s.at \in Nat /\ s.at > 0 /\ s.max \in Nat
  BY DEF States
<1>2. CASE s.at > m \/ r # VE!Min(parts[s.at])
  <2>1. w = s
    BY <1>1, <1>2 DEF VE!NextRow
  <2>2. ~(s.at <= m /\ r = VE!Min(parts[s.at]))
    BY <1>1, <1>2
  <2> HIDE DEF w
  <2> QED BY <2>1, <2>2 DEF w, IsNext
<1>3. CASE ~(s.at > m \/ r # VE!Min(parts[s.at]))
  <2>1. s.at \in 1 .. m
    BY <1>1, <1>3
  <2>2. size = Cardinality(parts[s.at]) /\ size \in Nat
    BY <2>1, SameSizes, FS_CardinalityType
  <2> DEFINE M == {s.max, size}
  <2>3. VE!Max(M) = IF s.max >= size THEN s.max ELSE size
    <3>1. VE!Max(M) \in M /\ \A x \in M : VE!Max(M) >= x
      <4>1. M \in SUBSET Int /\ IsFiniteSet(M) /\ M # {}
        <5> DEFINE before == s.max
        <5>1. before \in Int /\ size \in Int
          BY <1>1, <2>2
        <5> HIDE DEF before, size
        <5>2. {before, size} \in SUBSET Int /\ IsFiniteSet({before, size}) /\ {before, size} # {}
          BY <5>1, FewNumbers, Zenon
        <5> QED BY <5>2 DEF before
      <4> HIDE DEF M
      <4> QED BY <4>1, Extremes
    <3> QED BY <1>1, <2>2, <3>1
  <2>4. w = [s EXCEPT !.at = s.at + 1, !.max = VE!Max(M)]
    BY <1>1, <1>3 DEF VE!NextRow
  <2> HIDE DEF M
  <2>8. w = [at |-> s.at + 1, max |-> VE!Max(M), violating |-> s.violating, rows |-> s.rows, maxima |-> s.maxima]
    <3> HIDE DEF w
    <3> QED BY <2>4 DEF States
  <2> HIDE DEF w
  <2>5. w.at = s.at + 1 /\ w.max = VE!Max(M) /\ w.violating = s.violating /\ w.rows = s.rows /\ w.maxima = s.maxima
    BY <2>8
  <2>6. VE!Max(M) \in Nat
    BY <1>1, <2>2, <2>3
  <2>7. w \in States(T)
    BY <1>1, <2>8, <2>6 DEF States
  <2> QED BY <1>3, <2>2, <2>3, <2>5, <2>7 DEF w, IsNext
<1> QED BY <1>2, <1>3

(* The greatest part among the rows of a cluster, row by row.              *)
IsGoing(s, K, parts, F) ==
  F = [x \in SUBSET DOMAIN RowsInOrder(K) |->
         IF x = {} THEN [s EXCEPT !.max = 1] ELSE VE!NextRow(F[x \ {VE!Max(x)}], RowsInOrder(K)[VE!Max(x)], parts)]
Goes(s, K, parts, c, H) ==
  /\ H[0] = [s EXCEPT !.max = 1]
  /\ \A k \in 1 .. Cardinality(K) : H[k] = VE!NextRow(H[k - 1], RowsInOrder(K)[k], parts)
  /\ c = H[Cardinality(K)]

(* The rows of a cluster are gone through one after the other.             *)
LEMMA ClusterMaxIs ==
  ASSUME NEW T, NEW s \in States(T), NEW m \in Nat, NEW Q, \A a \in Q : IsFiniteSet(a),
         NEW parts \in [1 .. m -> Q], NEW K \in SUBSET Int, IsFiniteSet(K)
  PROVE  \E H : Goes(s, K, parts, VE!ClusterMax(s, K, parts), H)
<1> DEFINE n == Cardinality(K)
           St == States(T)
           base == [s EXCEPT !.max = 1]
           V(k) == RowsInOrder(K)[k]
           step == [x \in St \X (1 .. n) |-> VE!NextRow(x[1], V(x[2]), parts)]
<1>1. n \in Nat /\ DOMAIN RowsInOrder(K) = 1 .. n
  <2>1. RowsInOrder(K) \in [1 .. n -> K]
    BY RowsSorted, SortedIs
  <2> QED BY <2>1, FS_CardinalityType
<1>2. base \in St
  BY DEF States
<1> HIDE DEF n, base, V
<1>4. \A u \in St : \A k \in 1 .. n : VE!NextRow(u, V(k), parts) \in St
  BY NextRowIs DEF IsNext
<1> HIDE DEF St
<1>5. step \in [St \X (1 .. n) -> St]
  BY <1>4
<1>6. \A u \in St, k \in 1 .. n : step[<<u, k>>] = VE!NextRow(u, V(k), parts)
  OBVIOUS
<1> HIDE DEF step
<1>7. PICK G \in [SUBSET (1 .. n) -> St] : IsFold(n, base, step, G)
  BY <1>1, <1>2, <1>5, FoldExists
<1>8. IsGoing(s, K, parts, G)
  <2>1. \A x \in SUBSET (1 .. n) : G[x] = IF x = {} THEN base ELSE VE!NextRow(G[x \ {VE!Max(x)}], V(VE!Max(x)), parts)
    <3> TAKE x \in SUBSET (1 .. n)
    <3>1. CASE x = {}
      BY <1>7, <3>1 DEF IsFold
    <3>2. CASE x # {}
      <4>1. x \ {VE!Max(x)} \in SUBSET (1 .. n) /\ VE!Max(x) \in 1 .. n
        BY <1>1, <3>2, SmallerSet
      <4>2. G[x \ {VE!Max(x)}] \in St
        BY <4>1
      <4> QED BY <1>6, <1>7, <3>2, <4>1, <4>2 DEF IsFold
    <3> QED BY <3>1, <3>2
  <2>2. G = [x \in SUBSET (1 .. n) |-> G[x]]
    OBVIOUS
  <2> QED BY <1>1, <2>1, <2>2, Zenon DEF IsGoing, base, V
<1>9. VE!ClusterMax(s, K, parts) = (CHOOSE F : IsGoing(s, K, parts, F))[DOMAIN RowsInOrder(K)]
  BY Zenon DEF VE!ClusterMax, VE!FoldLeft, VE!MapThenFoldSet, IsGoing, RowsInOrder
<1>10. PICK F : IsGoing(s, K, parts, F) /\ VE!ClusterMax(s, K, parts) = F[DOMAIN RowsInOrder(K)]
  BY <1>8, <1>9, Zenon
<1>11. \A x \in SUBSET (1 .. n) : F[x] = IF x = {} THEN base ELSE VE!NextRow(F[x \ {VE!Max(x)}], V(VE!Max(x)), parts)
  BY <1>1, <1>10, Zenon DEF IsGoing, base, V
<1> DEFINE H == [k \in 0 .. n |-> F[1 .. k]]
<1>12. H[0] = base
  <2>1. 1 .. 0 = {} /\ 0 \in 0 .. n
    BY <1>1
  <2> QED BY <1>11, <2>1
<1>13. \A k \in 1 .. n : H[k] = VE!NextRow(H[k - 1], V(k), parts)
  <2> TAKE k \in 1 .. n
  <2>1. /\ 1 .. k # {} /\ 1 .. k \in SUBSET (1 .. n) /\ VE!Max(1 .. k) = k
        /\ (1 .. k) \ {VE!Max(1 .. k)} = 1 .. k - 1
    BY <1>1, PrefixOfFold
  <2>2. F[1 .. k] = VE!NextRow(F[1 .. k - 1], V(k), parts)
    BY <1>11, <2>1
  <2>3. k \in 0 .. n /\ k - 1 \in 0 .. n
    BY <1>1
  <2> QED BY <2>2, <2>3
<1>14. H[n] = VE!ClusterMax(s, K, parts)
  BY <1>1, <1>10
<1> HIDE DEF H
<1> QED BY <1>12, <1>13, <1>14 DEF Goes, n, base, V

(* All clusters, one after the other.                                      *)
IsThrough(ks, parts, F) ==
  F = [x \in SUBSET DOMAIN ks |->
         IF x = {} THEN [at |-> 1, max |-> 1, violating |-> {}, rows |-> 0, maxima |-> <<>>]
         ELSE VE!WithCluster(VE!ClusterMax(F[x \ {VE!Max(x)}], ks[VE!Max(x)], parts), ks[VE!Max(x)])]
GoesThrough(ks, parts, n, u, H) ==
  /\ H[0] = [at |-> 1, max |-> 1, violating |-> {}, rows |-> 0, maxima |-> <<>>]
  /\ \A k \in 1 .. n : H[k] = VE!WithCluster(VE!ClusterMax(H[k - 1], ks[k], parts), ks[k])
  /\ u = H[n]

(* And so are the clusters.                                                *)
LEMMA PfdStepsAre ==
  ASSUME NEW m \in Nat, NEW Q, \A a \in Q : IsFiniteSet(a), NEW parts \in [1 .. m -> Q],
         NEW n \in Nat, NEW P, \A K \in P : IsFiniteSet(K) /\ K \in SUBSET Int, NEW ks \in [1 .. n -> P]
  PROVE  \E H : GoesThrough(ks, parts, n, VE!PfdSteps(ks, parts), H)
<1> DEFINE St == States(P)
           base == [at |-> 1, max |-> 1, violating |-> {}, rows |-> 0, maxima |-> <<>>]
           V(k) == ks[k]
           next(u, k) == VE!WithCluster(VE!ClusterMax(u, V(k), parts), V(k))
           step == [x \in St \X (1 .. n) |-> next(x[1], x[2])]
<1>1. DOMAIN ks = 1 .. n
  OBVIOUS
<1>2. base \in St
  BY DEF States
<1>4. \A u \in St : \A k \in 1 .. n : next(u, k) \in St
  <2> TAKE u \in St
  <2> TAKE k \in 1 .. n
  <2> DEFINE K == ks[k]
             c == VE!ClusterMax(u, K, parts)
  <2>1. K \in P /\ IsFiniteSet(K) /\ K \in SUBSET Int
    OBVIOUS
  <2>2. c \in St
    <3>0. u \in States(P)
      OBVIOUS
    <3> HIDE DEF K, c
    <3>1. PICK H : Goes(u, K, parts, c, H)
      BY <2>1, <3>0, ClusterMaxIs DEF c
    <3>6. /\ H[0] = [u EXCEPT !.max = 1] /\ c = H[Cardinality(K)]
          /\ \A j \in 1 .. Cardinality(K) : H[j] = VE!NextRow(H[j - 1], RowsInOrder(K)[j], parts)
      BY <3>1 DEF Goes
    <3>2. Cardinality(K) \in Nat
      BY <2>1, FS_CardinalityType
    <3> DEFINE D == {j \in Nat : j <= Cardinality(K) => H[j] \in St}
    <3>3. 0 \in D
      BY <3>6 DEF States
    <3>4. \A j \in Nat : j \in D => j + 1 \in D
      <4> TAKE j \in Nat
      <4> HAVE j \in D
      <4>1. SUFFICES ASSUME j + 1 <= Cardinality(K) PROVE H[j + 1] \in St
        OBVIOUS
      <4>2. j + 1 \in 1 .. Cardinality(K) /\ j + 1 - 1 = j /\ H[j] \in St
        BY <3>2, <4>1
      <4>3. H[j + 1] = VE!NextRow(H[j], RowsInOrder(K)[j + 1], parts)
        BY <3>6, <4>2
      <4>4. VE!NextRow(H[j], RowsInOrder(K)[j + 1], parts) \in States(P)
        BY <4>2, NextRowIs DEF IsNext
      <4> QED BY <4>3, <4>4
    <3> HIDE DEF D, St
    <3>5. \A j \in Nat : j \in D
      BY <3>3, <3>4, CountingUp
    <3> QED BY <3>2, <3>5, <3>6 DEF D
  <2> HIDE DEF c, K
  <2>3. VE!Cardinality(K) \in Nat
    BY <2>1, SameSizes, FS_CardinalityType
  <2>4. Append(c.maxima, <<c.max, VE!Cardinality(K)>>) \in Seq(Nat \X Nat)
    BY <2>2, <2>3 DEF States
  <2>5. next(u, k) = [at |-> c.at, max |-> c.max, rows |-> c.rows + VE!Cardinality(K) - c.max,
                      violating |-> c.violating \cup (IF c.max # VE!Cardinality(K) THEN {K} ELSE {}),
                      maxima |-> Append(c.maxima, <<c.max, VE!Cardinality(K)>>)]
    BY DEF VE!WithCluster, c, K
  <2>6. c.violating \cup (IF c.max # VE!Cardinality(K) THEN {K} ELSE {}) \in SUBSET P
    BY <2>1, <2>2 DEF States
  <2>7. c.at \in Nat \ {0} /\ c.max \in Nat /\ c.rows + VE!Cardinality(K) - c.max \in Int
    BY <2>2, <2>3 DEF States
  <2> HIDE DEF next
  <2> QED BY <2>4, <2>5, <2>6, <2>7 DEF States
<1> HIDE DEF base, V, St
<1>5. step \in [St \X (1 .. n) -> St]
  <2> HIDE DEF next
  <2> QED BY <1>4
<1>6. \A u \in St, k \in 1 .. n : step[<<u, k>>] = VE!WithCluster(VE!ClusterMax(u, V(k), parts), V(k))
  OBVIOUS
<1> HIDE DEF step
<1>7. PICK G \in [SUBSET (1 .. n) -> St] : IsFold(n, base, step, G)
  BY <1>2, <1>5, FoldExists
<1>8. IsThrough(ks, parts, G)
  <2>1. \A x \in SUBSET (1 .. n) : G[x] = IF x = {} THEN base
                 ELSE VE!WithCluster(VE!ClusterMax(G[x \ {VE!Max(x)}], V(VE!Max(x)), parts), V(VE!Max(x)))
    <3> TAKE x \in SUBSET (1 .. n)
    <3>1. CASE x = {}
      BY <1>7, <3>1 DEF IsFold
    <3>2. CASE x # {}
      <4>1. x \ {VE!Max(x)} \in SUBSET (1 .. n) /\ VE!Max(x) \in 1 .. n
        BY <3>2, SmallerSet
      <4>2. G[x \ {VE!Max(x)}] \in St
        BY <4>1
      <4> QED BY <1>6, <1>7, <3>2, <4>1, <4>2 DEF IsFold
    <3> QED BY <3>1, <3>2
  <2>2. G = [x \in SUBSET (1 .. n) |-> G[x]]
    OBVIOUS
  <2> QED BY <1>1, <2>1, <2>2, Zenon DEF IsThrough, base, V
<1>9. VE!PfdSteps(ks, parts) = (CHOOSE F : IsThrough(ks, parts, F))[DOMAIN ks]
  BY Zenon DEF VE!PfdSteps, VE!FoldLeft, VE!MapThenFoldSet, IsThrough
<1>10. PICK F : IsThrough(ks, parts, F) /\ VE!PfdSteps(ks, parts) = F[DOMAIN ks]
  BY <1>8, <1>9, Zenon
<1>11. \A x \in SUBSET (1 .. n) : F[x] = IF x = {} THEN base
                 ELSE VE!WithCluster(VE!ClusterMax(F[x \ {VE!Max(x)}], V(VE!Max(x)), parts), V(VE!Max(x)))
  BY <1>1, <1>10, Zenon DEF IsThrough, base, V
<1> DEFINE H == [k \in 0 .. n |-> F[1 .. k]]
<1>12. H[0] = base
  <2>1. 1 .. 0 = {} /\ 0 \in 0 .. n
    OBVIOUS
  <2> QED BY <1>11, <2>1
<1>13. \A k \in 1 .. n : H[k] = VE!WithCluster(VE!ClusterMax(H[k - 1], V(k), parts), V(k))
  <2> TAKE k \in 1 .. n
  <2>1. /\ 1 .. k # {} /\ 1 .. k \in SUBSET (1 .. n) /\ VE!Max(1 .. k) = k
        /\ (1 .. k) \ {VE!Max(1 .. k)} = 1 .. k - 1
    BY PrefixOfFold
  <2>2. F[1 .. k] = VE!WithCluster(VE!ClusterMax(F[1 .. k - 1], V(k), parts), V(k))
    BY <1>11, <2>1
  <2>3. k \in 0 .. n /\ k - 1 \in 0 .. n
    OBVIOUS
  <2> QED BY <2>2, <2>3
<1>14. H[n] = VE!PfdSteps(ks, parts)
  BY <1>1, <1>10
<1> HIDE DEF H
<1> QED BY <1>12, <1>13, <1>14 DEF GoesThrough, base, V

(* The rows of a cluster, from the first to the last.                      *)
LEMMA RowsAre ==
  ASSUME NEW K \in SUBSET Int, IsFiniteSet(K)
  PROVE  /\ Cardinality(K) \in Nat /\ RowsInOrder(K) \in [1 .. Cardinality(K) -> K]
         /\ \A r \in K : \E j \in 1 .. Cardinality(K) : RowsInOrder(K)[j] = r
         /\ \A j, k \in 1 .. Cardinality(K) : RowsInOrder(K)[j] < RowsInOrder(K)[k] => j < k
<1> DEFINE e == RowsInOrder(K)
           R == RowOrder(K)
           n == Cardinality(K)
<1>1. IsOrder(K, R) /\ IsSortedBy(K, R, e)
  BY RowsSorted
<1>2. \A a, b \in K : a < b => <<a, b>> \in R
  BY DEF RowOrder
<1> HIDE DEF e, R
<1>3. /\ e \in [1 .. n -> K] /\ \A j \in 1 .. n : Cardinality(EarlierIn(K, R, e[j])) = j - 1
      /\ \A a \in K : \E j \in 1 .. n : e[j] = a
  BY <1>1, SortedIs
<1>4. \A a, b \in K : <<a, b>> \in R => Cardinality(EarlierIn(K, R, a)) < Cardinality(EarlierIn(K, R, b))
  BY <1>1, RanksAre
<1>5. n \in Nat
  BY FS_CardinalityType
<1> HIDE DEF n
<1>6. ASSUME NEW j \in 1 .. n, NEW k \in 1 .. n, e[j] < e[k] PROVE j < k
  <2>1. <<e[j], e[k]>> \in R
    BY <1>2, <1>3, <1>6
  <2>2. Cardinality(EarlierIn(K, R, e[j])) < Cardinality(EarlierIn(K, R, e[k]))
    BY <1>3, <1>4, <2>1
  <2>3. j - 1 < k - 1
    BY <1>3, <2>2
  <2> QED BY <2>3
<1> QED BY <1>3, <1>5, <1>6 DEF e, n

(* The parts of the first clusters, and those of a cluster whose first row *)
(* is among its first ones.                                                *)
Done(ks, S, i) == {a \in S : VE!ClassAt(ks, a) <= i}
NewParts(ks, S, i, k) == {a \in S : VE!ClassAt(ks, a) = i /\ \E j \in 1 .. k : VE!Min(a) = RowsInOrder(ks[i])[j]}
IsGreatest(max, A) ==
  /\ max \in Nat /\ max >= 1 /\ \A a \in A : Cardinality(a) <= max
  /\ max = 1 \/ \E a \in A : Cardinality(a) = max
Taken(T, ks, S, i, k, s, u) ==
  /\ u \in States(T) /\ u.violating = s.violating /\ u.rows = s.rows /\ u.maxima = s.maxima
  /\ u.at = Cardinality(Done(ks, S, i - 1) \cup NewParts(ks, S, i, k)) + 1
  /\ IsGreatest(u.max, NewParts(ks, S, i, k))
IsListed(P, S, ks, parts) ==
  /\ AreRowSets(P) /\ IsSortedBy(P, FirstOrder(P), ks) /\ \A a \in S : \E K \in P : a \in SUBSET K
  /\ AreRowSets(S) /\ IsSortedBy(S, PartOrder(ks, S), parts)

(* What is listed so has places, and each part the place of its cluster.   *)
LEMMA ListedIs ==
  ASSUME NEW P, NEW S, NEW ks, NEW parts, IsListed(P, S, ks, parts)
  PROVE  /\ Cardinality(P) \in Nat /\ ks \in [1 .. Cardinality(P) -> P]
         /\ Cardinality(S) \in Nat /\ parts \in [1 .. Cardinality(S) -> S]
         /\ IsOrder(S, PartOrder(ks, S))
         /\ \A a \in S : /\ VE!ClassAt(ks, a) \in 1 .. Cardinality(P)
                         /\ \A i \in 1 .. Cardinality(P) : VE!ClassAt(ks, a) = i <=> a \in SUBSET ks[i]
<1> DEFINE n == Cardinality(P)
<1>0. /\ AreRowSets(P) /\ IsSortedBy(P, FirstOrder(P), ks) /\ (\A a \in S : \E K \in P : a \in SUBSET K)
      /\ AreRowSets(S) /\ IsSortedBy(S, PartOrder(ks, S), parts)
  BY DEF IsListed
<1>1. /\ n \in Nat /\ ks \in [1 .. n -> P]
      /\ \A K \in P : \E i \in 1 .. n : ks[i] = K
      /\ \A a : \A i \in 1 .. n : a \in SUBSET ks[i] /\ a # {} => VE!ClassAt(ks, a) = i
  BY <1>0, ClassIs
<1> HIDE DEF n
<1>2. ASSUME NEW a \in S
      PROVE  VE!ClassAt(ks, a) \in 1 .. n /\ \A i \in 1 .. n : VE!ClassAt(ks, a) = i <=> a \in SUBSET ks[i]
  <2>1. PICK K \in P : a \in SUBSET K
    BY <1>0
  <2>2. PICK j \in 1 .. n : ks[j] = K
    BY <1>1
  <2>3. a # {}
    BY <1>0 DEF AreRowSets
  <2>4. VE!ClassAt(ks, a) = j
    BY <1>1, <2>1, <2>2, <2>3
  <2> QED BY <1>1, <2>1, <2>2, <2>3, <2>4
<1>3. IsOrder(S, PartOrder(ks, S))
  <2>1. \A a \in S : VE!ClassAt(ks, a) \in Int
    BY <1>1, <1>2
  <2> QED BY <1>0, <2>1, PartsSorted
<1>4. IsFiniteSet(S)
  BY <1>0 DEF AreRowSets, AreClasses
<1>5. Cardinality(S) \in Nat /\ parts \in [1 .. Cardinality(S) -> S]
  BY <1>0, <1>3, <1>4, SortedIs, FS_CardinalityType
<1> QED BY <1>1, <1>2, <1>3, <1>5 DEF n

(* One more row: the part that starts with it is the next one, if any.     *)
LEMMA NextIsTaken ==
  ASSUME NEW P, NEW S, NEW ks, NEW parts, IsListed(P, S, ks, parts), NEW i \in 1 .. Cardinality(P),
         NEW T, NEW s, NEW k \in Nat, k < Cardinality(ks[i]), NEW u, Taken(T, ks, S, i, k, s, u)
  PROVE  Taken(T, ks, S, i, k + 1, s, VE!NextRow(u, RowsInOrder(ks[i])[k + 1], parts))
<1> DEFINE K == ks[i]
           n == Cardinality(K)
           rows == RowsInOrder(K)
           r == rows[k + 1]
           m == Cardinality(S)
           A == NewParts(ks, S, i, k)
           D == Done(ks, S, i - 1)
           C == D \cup A
           R == PartOrder(ks, S)
           w == VE!NextRow(u, r, parts)
           place(a) == VE!ClassAt(ks, a)
           first(a) == VE!Min(a)
<1>0. /\ AreRowSets(P) /\ AreRowSets(S) /\ IsSortedBy(S, R, parts) /\ IsFiniteSet(S)
  BY DEF IsListed, AreRowSets, AreClasses
<1>1. /\ K \in P /\ m \in Nat /\ parts \in [1 .. m -> S] /\ IsOrder(S, R)
      /\ \A a \in S : place(a) \in Int /\ (place(a) = i <=> a \in SUBSET K)
  <2>1. /\ Cardinality(P) \in Nat /\ ks \in [1 .. Cardinality(P) -> P]
        /\ Cardinality(S) \in Nat /\ parts \in [1 .. Cardinality(S) -> S]
        /\ IsOrder(S, PartOrder(ks, S))
        /\ \A a \in S : /\ VE!ClassAt(ks, a) \in 1 .. Cardinality(P)
                        /\ \A j \in 1 .. Cardinality(P) : VE!ClassAt(ks, a) = j <=> a \in SUBSET ks[j]
    BY ListedIs
  <2> QED BY <2>1
<1>2. /\ n \in Nat /\ rows \in [1 .. n -> K] /\ (\A x \in K : \E j \in 1 .. n : rows[j] = x)
      /\ (\A j, l \in 1 .. n : rows[j] < rows[l] => j < l) /\ K \in SUBSET Int
  <2>1. K \in SUBSET Int /\ IsFiniteSet(K)
    BY <1>0, <1>1 DEF AreRowSets, AreClasses
  <2> HIDE DEF K
  <2> QED BY <2>1, RowsAre
<1>3. /\ \A a \in S : first(a) \in a /\ first(a) \in Int
      /\ \A a, b \in S : first(a) = first(b) => a = b
  BY <1>0, FirstRows
<1>4. A = {a \in S : place(a) = i /\ \E j \in 1 .. k : first(a) = rows[j]}
  BY Zenon DEF NewParts
<1>13. NewParts(ks, S, i, k + 1) = {a \in S : place(a) = i /\ \E j \in 1 .. k + 1 : first(a) = rows[j]}
  BY Zenon DEF NewParts
<1>14. D = {a \in S : place(a) <= i - 1}
  BY DEF Done
<1>5. \A a, b \in S : <<a, b>> \in R <=> (place(a) < place(b) \/ (place(a) = place(b) /\ first(a) < first(b)))
  BY DEF PartOrder
<1>6. /\ u \in States(T) /\ u.violating = s.violating /\ u.rows = s.rows /\ u.maxima = s.maxima
      /\ u.at = Cardinality(C) + 1 /\ IsGreatest(u.max, A)
  BY DEF Taken
<1>7. k + 1 \in 1 .. n /\ i \in Int
  BY <1>2
<1> HIDE DEF K, n, rows, m, A, D, R, place, first
<1>8. C \in SUBSET S /\ \A a \in C : \A b \in S : <<b, a>> \in R => b \in C
  <2>1. C \in SUBSET S
    BY <1>4, <1>13, <1>14
  <2>2. ASSUME NEW a \in C, NEW b \in S, <<b, a>> \in R PROVE b \in C
    <3>1. a \in S /\ place(a) \in Int /\ place(b) \in Int /\ (place(b) < place(a) \/ (place(b) = place(a) /\ first(b) < first(a)))
      BY <1>1, <1>5, <2>1, <2>2
    <3>2. CASE a \in D \/ place(b) < place(a)
      BY <1>4, <1>13, <1>14, <1>7, <3>1, <3>2
    <3>3. CASE a \in A /\ place(b) = place(a) /\ first(b) < first(a)
      <4>1. PICK j \in 1 .. k : first(a) = rows[j]
        BY <1>4, <1>13, <1>14, <3>3
      <4>2. place(b) = i /\ first(b) \in K
        BY <1>1, <1>3, <1>4, <1>13, <1>14, <3>3
      <4>3. PICK l \in 1 .. n : rows[l] = first(b)
        BY <1>2, <4>2
      <4>4. j \in 1 .. n /\ l < j
        BY <1>2, <1>7, <3>3, <4>1, <4>3
      <4>5. l \in 1 .. k
        BY <4>4
      <4> QED BY <1>4, <1>13, <1>14, <4>2, <4>3, <4>5
    <3> QED BY <3>1, <3>2, <3>3
  <2> QED BY <2>1, <2>2
<1> HIDE DEF C
<1>9. /\ Cardinality(C) \in Nat /\ (C = S <=> u.at > m)
      /\ C # S => /\ u.at \in 1 .. m /\ parts[u.at] \in S \ C
                  /\ \A b \in S \ C : b = parts[u.at] \/ <<parts[u.at], b>> \in R
  <2>1. LET j == Cardinality(C) + 1
        IN /\ Cardinality(C) \in Nat /\ (C = S <=> j > Cardinality(S))
           /\ C # S => /\ j \in 1 .. Cardinality(S) /\ parts[j] \in S \ C
                       /\ \A b \in S \ C : b = parts[j] \/ <<parts[j], b>> \in R
    BY <1>0, <1>1, <1>8, NextSorted
  <2> QED BY <1>6, <2>1 DEF m
<1>10. /\ w \in States(T) /\ w.violating = u.violating /\ w.rows = u.rows /\ w.maxima = u.maxima
       /\ u.at > m \/ r # VE!Min(parts[u.at]) => w = u
       /\ u.at <= m /\ r = VE!Min(parts[u.at]) =>
            /\ w.at = u.at + 1
            /\ w.max = IF u.max >= Cardinality(parts[u.at]) THEN u.max ELSE Cardinality(parts[u.at])
  <2>1. \A a \in S : IsFiniteSet(a)
    BY <1>0 DEF AreRowSets, AreClasses
  <2> HIDE DEF r, w
  <2>2. u \in States(T) /\ m \in Nat /\ parts \in [1 .. m -> S]
    BY <1>1, <1>6
  <2>3. IsNext(T, u, m, parts, r, w)
    BY <2>1, <2>2, NextRowIs DEF w
  <2> QED BY <2>3 DEF IsNext
<1> DEFINE a0 == parts[u.at]
           B == NewParts(ks, S, i, k + 1)
<1>11. CASE C # S /\ first(a0) = r
  <2>0. a0 \in S \ C /\ u.at \in 1 .. m
    BY <1>9, <1>11
  <2>1. place(a0) = i
    <3>1. r \in K /\ r \in a0
      BY <1>2, <1>3, <1>7, <1>11, <2>0
    <3>2. \E L \in P : a0 \in SUBSET L
      BY <2>0 DEF IsListed
    <3>3. a0 \in SUBSET K
      <4>1. PICK L \in P : a0 \in SUBSET L
        BY <3>2
      <4>2. r \in K \cap L
        BY <3>1, <4>1
      <4>3. K = L
        BY <1>0, <1>1, <4>2 DEF AreRowSets, AreClasses
      <4> QED BY <4>1, <4>3
    <3> QED BY <1>1, <2>0, <3>3
  <2>2. B = A \cup {a0}
    <3>1. \A j \in 1 .. k + 1 : j \in 1 .. k \/ j = k + 1
      OBVIOUS
    <3>2. \A j \in 1 .. k : j \in 1 .. k + 1
      OBVIOUS
    <3>3. k + 1 \in 1 .. k + 1
      OBVIOUS
    <3> HIDE DEF a0
    <3> QED BY <1>3, <1>4, <1>13, <1>14, <1>11, <2>0, <2>1, <3>1, <3>2, <3>3
  <2> HIDE DEF B
  <2>3. Cardinality(D \cup B) = Cardinality(C) + 1
    <3>1. IsFiniteSet(C) /\ a0 \notin C /\ D \cup B = C \cup {a0}
      BY <1>0, <1>8, <2>0, <2>2, FS_Subset DEF C
    <3> QED BY <3>1, FS_AddElement
  <2>4. /\ w.at = u.at + 1
        /\ w.max = IF u.max >= Cardinality(a0) THEN u.max ELSE Cardinality(a0)
    BY <1>1, <1>10, <1>11, <2>0 DEF first
  <2>5. Cardinality(a0) \in Nat
    BY <1>0, <2>0, FS_CardinalityType DEF AreRowSets, AreClasses
  <2>6. IsGreatest(w.max, B)
    <3>1. /\ u.max \in Nat /\ u.max >= 1 /\ \A a \in A : Cardinality(a) <= u.max
          /\ u.max = 1 \/ \E a \in A : Cardinality(a) = u.max
      BY <1>6 DEF IsGreatest
    <3>2. \A a \in A : Cardinality(a) \in Nat
      BY <1>0, <1>4, <1>13, <1>14, FS_CardinalityType DEF AreRowSets, AreClasses
    <3> HIDE DEF a0, w
    <3>3. CASE u.max >= Cardinality(a0)
      BY <2>2, <2>4, <2>5, <3>1, <3>3 DEF IsGreatest
    <3>4. CASE ~(u.max >= Cardinality(a0))
      <4>1. w.max = Cardinality(a0) /\ w.max > u.max
        BY <2>4, <2>5, <3>1, <3>4
      <4>2. \A a \in A : Cardinality(a) <= w.max
        BY <2>5, <3>1, <3>2, <4>1
      <4> QED BY <2>2, <2>5, <3>1, <4>1, <4>2 DEF IsGreatest
    <3> QED BY <3>3, <3>4
  <2> HIDE DEF w
  <2>7. Taken(T, ks, S, i, k + 1, s, w)
    BY <1>6, <1>10, <2>3, <2>4, <2>6 DEF Taken, B, D
  <2> QED BY <2>7 DEF w, r, rows, K
<1>12. CASE ~(C # S /\ first(a0) = r)
  <2>1. w = u
    <3>1. C = S => u.at > m
      BY <1>9
    <3>2. C # S => r # VE!Min(parts[u.at])
      BY <1>12 DEF first
    <3> HIDE DEF w, r
    <3> QED BY <1>10, <3>1, <3>2
  <2>2. B = A
    <3>1. A \in SUBSET B
      <4>1. \A j \in 1 .. k : j \in 1 .. k + 1
        OBVIOUS
      <4> QED BY <1>4, <1>13, <1>14, <4>1
    <3>2. ASSUME NEW b \in B, b \notin A PROVE FALSE
      <4>1. b \in S /\ place(b) = i /\ first(b) = r
        <5>1. \A j \in 1 .. k + 1 : j \in 1 .. k \/ j = k + 1
          OBVIOUS
        <5> QED BY <1>4, <1>13, <1>14, <3>2, <5>1
      <4>2. b \notin C
        <5>1. b \notin D
          BY <1>4, <1>13, <1>14, <1>7, <4>1
        <5> QED BY <3>2, <5>1 DEF C
      <4>3. C # S /\ first(a0) # r
        BY <1>12, <4>1, <4>2
      <4>4. a0 \in S \ C /\ <<a0, b>> \in R
        BY <1>9, <4>1, <4>2, <4>3
      <4>5. place(a0) < i \/ (place(a0) = i /\ first(a0) < r)
        BY <1>5, <4>1, <4>4
      <4>6. CASE place(a0) < i
        BY <1>1, <1>4, <1>13, <1>14, <1>7, <4>4, <4>6 DEF C
      <4>7. CASE place(a0) = i /\ first(a0) < r
        <5>1. first(a0) \in K
          BY <1>1, <1>3, <4>4, <4>7
        <5>2. PICK j \in 1 .. n : rows[j] = first(a0)
          BY <1>2, <5>1
        <5>3. j < k + 1
          BY <1>2, <1>7, <4>7, <5>2
        <5>4. j \in 1 .. k
          BY <5>3
        <5> QED BY <1>4, <1>13, <1>14, <4>4, <4>7, <5>2, <5>4 DEF C
      <4> QED BY <4>5, <4>6, <4>7
    <3> QED BY <3>1, <3>2
  <2> HIDE DEF w, B
  <2>3. Taken(T, ks, S, i, k + 1, s, u)
    BY <1>6, <2>2 DEF Taken, B, C, A, D
  <2> QED BY <2>1, <2>3 DEF w, r, rows, K
<1> QED BY <1>11, <1>12

(* All rows of a cluster: its parts are done, the greatest is known.       *)
IsDone(T, S, ks, i, s, c) ==
  /\ c \in States(T) /\ c.violating = s.violating /\ c.rows = s.rows /\ c.maxima = s.maxima
  /\ c.at = Cardinality(Done(ks, S, i)) + 1
  /\ IsGreatest(c.max, {a \in S : a \in SUBSET ks[i]})

(* Going through the rows of a cluster does what it should.                *)
LEMMA ClusterIsTaken ==
  ASSUME NEW P, NEW S, NEW ks, NEW parts, IsListed(P, S, ks, parts), NEW i \in 1 .. Cardinality(P),
         NEW T, NEW s \in States(T), s.at = Cardinality(Done(ks, S, i - 1)) + 1
  PROVE  IsDone(T, S, ks, i, s, VE!ClusterMax(s, ks[i], parts))
<1> DEFINE K == ks[i]
           n == Cardinality(K)
           c == VE!ClusterMax(s, K, parts)
           A == {a \in S : a \in SUBSET K}
<1>0. /\ AreRowSets(P) /\ AreRowSets(S)
  BY DEF IsListed
<1>1. /\ Cardinality(P) \in Nat /\ K \in P /\ Cardinality(S) \in Nat /\ parts \in [1 .. Cardinality(S) -> S]
      /\ \A a \in S : VE!ClassAt(ks, a) \in Int /\ (VE!ClassAt(ks, a) = i <=> a \in SUBSET K)
  <2>1. /\ Cardinality(P) \in Nat /\ ks \in [1 .. Cardinality(P) -> P]
        /\ Cardinality(S) \in Nat /\ parts \in [1 .. Cardinality(S) -> S]
        /\ IsOrder(S, PartOrder(ks, S))
        /\ \A a \in S : /\ VE!ClassAt(ks, a) \in 1 .. Cardinality(P)
                        /\ \A j \in 1 .. Cardinality(P) : VE!ClassAt(ks, a) = j <=> a \in SUBSET ks[j]
    BY ListedIs
  <2> QED BY <2>1
<1>2. K \in SUBSET Int /\ IsFiniteSet(K) /\ \A a \in S : IsFiniteSet(a)
  BY <1>0, <1>1 DEF AreRowSets, AreClasses
<1>3. PICK H : Goes(s, K, parts, c, H)
  <2> HIDE DEF K, c
  <2> QED BY <1>1, <1>2, ClusterMaxIs DEF c
<1>4. /\ H[0] = [s EXCEPT !.max = 1] /\ c = H[n]
      /\ \A k \in 1 .. n : H[k] = VE!NextRow(H[k - 1], RowsInOrder(K)[k], parts)
  BY <1>3 DEF Goes
<1>5. n \in Nat
  BY <1>2, FS_CardinalityType
<1> DEFINE D == {k \in Nat : k <= n => Taken(T, ks, S, i, k, s, H[k])}
<1>6. 0 \in D
  <2>1. NewParts(ks, S, i, 0) = {}
    BY DEF NewParts
  <2>4. H[0] = [at |-> s.at, max |-> 1, violating |-> s.violating, rows |-> s.rows, maxima |-> s.maxima]
    <3>1. H[0] = [s EXCEPT !.max = 1]
      BY <1>4
    <3> QED BY <3>1 DEF States
  <2>2. H[0] \in States(T) /\ H[0].violating = s.violating /\ H[0].rows = s.rows /\ H[0].maxima = s.maxima
        /\ H[0].at = s.at /\ H[0].max = 1
    <3> HIDE DEF c, A
    <3> QED BY <2>4 DEF States
  <2>3. Done(ks, S, i - 1) \cup {} = Done(ks, S, i - 1)
    OBVIOUS
  <2>5. Taken(T, ks, S, i, 0, s, H[0])
    <3>1. IsGreatest(H[0].max, {})
      BY <2>2 DEF IsGreatest
    <3>2. H[0].at = Cardinality(Done(ks, S, i - 1) \cup {}) + 1
      BY <2>2, <2>3
    <3> HIDE DEF D, c, A, n, K
    <3> QED BY <2>1, <2>2, <3>1, <3>2 DEF Taken
  <2> QED BY <2>5
<1>7. \A k \in Nat : k \in D => k + 1 \in D
  <2> TAKE k \in Nat
  <2> HAVE k \in D
  <2>1. SUFFICES ASSUME k + 1 <= n PROVE Taken(T, ks, S, i, k + 1, s, H[k + 1])
    OBVIOUS
  <2>2. k + 1 \in 1 .. n /\ k + 1 - 1 = k /\ k < n /\ Taken(T, ks, S, i, k, s, H[k])
    BY <1>5, <2>1
  <2>3. H[k + 1] = VE!NextRow(H[k], RowsInOrder(K)[k + 1], parts)
    BY <1>4, <2>2
  <2>4. Taken(T, ks, S, i, k + 1, s, VE!NextRow(H[k], RowsInOrder(ks[i])[k + 1], parts))
    BY <2>2, NextIsTaken
  <2> QED BY <2>3, <2>4
<1> HIDE DEF D
<1>8. \A k \in Nat : k \in D
  BY <1>6, <1>7, CountingUp
<1>9. Taken(T, ks, S, i, n, s, c)
  BY <1>4, <1>5, <1>8 DEF D
<1>10. NewParts(ks, S, i, n) = A
  <2>1. \A a \in S : VE!Min(a) \in a
    BY <1>0, FirstRows
  <2>2. \A r \in K : \E j \in 1 .. n : RowsInOrder(K)[j] = r
    <3> HIDE DEF K
    <3> QED BY <1>2, RowsAre
  <2>3. \A a \in S : a \in SUBSET K => \E j \in 1 .. n : VE!Min(a) = RowsInOrder(K)[j]
    BY <2>1, <2>2
  <2>4. NewParts(ks, S, i, n) = {a \in S : VE!ClassAt(ks, a) = i /\ \E j \in 1 .. n : VE!Min(a) = RowsInOrder(K)[j]}
    BY Zenon DEF NewParts
  <2> HIDE DEF n, K
  <2> QED BY <1>1, <2>3, <2>4
<1>11. Done(ks, S, i - 1) \cup A = Done(ks, S, i)
  <2>1. i \in Int
    BY <1>1
  <2> HIDE DEF K
  <2>2. \A a \in S : VE!ClassAt(ks, a) \in Int /\ (a \in SUBSET K <=> VE!ClassAt(ks, a) = i)
    BY <1>1
  <2> QED BY <2>1, <2>2 DEF Done
<1> HIDE DEF c, n, A
<1>12. /\ c \in States(T) /\ c.violating = s.violating /\ c.rows = s.rows /\ c.maxima = s.maxima
       /\ c.at = Cardinality(Done(ks, S, i)) + 1 /\ IsGreatest(c.max, A)
  BY <1>9, <1>10, <1>11 DEF Taken
<1> QED BY <1>12 DEF c, A, IsDone

(* The greatest part of a class is its greatest part of several rows, or   *)
(* of one.                                                                 *)
LEMMA LargestIs ==
  ASSUME NEW t, IsARows(t), NEW X, NEW Y, NEW K \in VE!Classes(t, X)
  PROVE  /\ IsFiniteSet(VE!Parts(t, K, Y)) /\ VE!Parts(t, K, Y) # {}
         /\ \E b \in VE!Parts(t, K, Y) :
              /\ b \in SUBSET K /\ Cardinality(b) = VE!Largest(VE!Parts(t, K, Y))
              /\ IsGreatest(Cardinality(b), {a \in Stripped(t, X \cup Y) : a \in SUBSET K})
<1> DEFINE Q == VE!Parts(t, K, Y)
           N == {VE!Cardinality(b) : b \in Q}
           f == [b \in Q |-> VE!Cardinality(b)]
<1>1. K \in SUBSET DOMAIN t /\ K # {} /\ (\A r \in K : K = VE!Class(t, X, r))
  BY ClassesPart
<1>2. AreClasses(Q) /\ (\A b \in Q : b # {}) /\ UNION Q = K
  BY <1>1, PartsArePart
<1>3. Q = {VE!Class(t, X \cup Y, r) : r \in K}
  <2>1. \A r \in K : VE!Class(t, Y, r) \cap K = VE!Class(t, X \cup Y, r)
    BY <1>1 DEF VE!Class, VE!Equal
  <2> QED BY <2>1 DEF VE!Parts
<1> HIDE DEF Q
<1>4. IsFiniteSet(Q) /\ Q # {}
  BY <1>1, <1>2 DEF AreClasses
<1>5. ASSUME NEW b \in Q PROVE IsFiniteSet(b) /\ b \in SUBSET K /\ Cardinality(b) \in Nat /\ Cardinality(b) >= 1
                               /\ VE!Cardinality(b) = Cardinality(b)
  <2>1. IsFiniteSet(b) /\ b \in SUBSET K /\ b # {}
    BY <1>2 DEF AreClasses
  <2>2. Cardinality(b) \in Nat /\ Cardinality(b) # 0
    BY <2>1, FS_CardinalityType, FS_EmptySet
  <2> QED BY <2>1, <2>2, SameSizes
<1>6. VE!Max(N) \in N /\ \A x \in N : VE!Max(N) >= x
  <2>1. IsFiniteSet({f[b] : b \in Q})
    BY <1>4, ImageIsFinite
  <2>2. {f[b] : b \in Q} = N
    OBVIOUS
  <2>3. N \in SUBSET Int /\ N # {}
    BY <1>4, <1>5
  <2> HIDE DEF N, f
  <2> QED BY <2>1, <2>2, <2>3, Extremes
<1>7. VE!Largest(Q) = VE!Max(N)
  BY DEF VE!Largest
<1>8. PICK b \in Q : VE!Cardinality(b) = VE!Max(N)
  BY <1>6
<1>9. \A a \in Q : Cardinality(a) <= Cardinality(b)
  <2> TAKE a \in Q
  <2>1. VE!Cardinality(a) \in N
    OBVIOUS
  <2> QED BY <1>5, <1>6, <1>8, <2>1
<1> DEFINE A == {a \in Stripped(t, X \cup Y) : a \in SUBSET K}
<1>10. A \in SUBSET Q
  <2> SUFFICES ASSUME NEW a \in A PROVE a \in Q
    OBVIOUS
  <2>1. a \in VE!Classes(t, X \cup Y) /\ a \in SUBSET K
    BY DEF Stripped
  <2>4. a # {}
    <3> HIDE DEF A
    <3> QED BY <2>1, ClassesPart
  <2>2. PICK r \in a : TRUE
    BY <2>4
  <2>3. r \in K /\ a = VE!Class(t, X \cup Y, r)
    BY <2>1, ClassesPart
  <2> QED BY <1>3, <2>3
<1>11. Cardinality(b) > 1 => b \in A
  <2> HAVE Cardinality(b) > 1
  <2>1. b \in VE!Classes(t, X \cup Y)
    <3>1. PICK r \in K : b = VE!Class(t, X \cup Y, r)
      BY <1>3
    <3> QED BY <1>1, <3>1, ClassesPart
  <2> QED BY <1>5, <2>1 DEF Stripped
<1>12. IsGreatest(Cardinality(b), A)
  <2> HIDE DEF A
  <2>1. Cardinality(b) \in Nat /\ Cardinality(b) >= 1
    BY <1>5
  <2>2. Cardinality(b) = 1 \/ b \in A
    BY <1>11, <2>1
  <2> QED BY <1>9, <1>10, <2>1, <2>2 DEF IsGreatest
<1> QED BY <1>4, <1>5, <1>7, <1>8, <1>12 DEF Q

(* The clusters gone through that lose rows, and the rows they lose: those *)
(* outside their greatest part.                                            *)
Lossy(ks, big, i) == {ks[j] : j \in {l \in 1 .. i : big[ks[l]] # ks[l]}}
LostRows(ks, big, i) == UNION {ks[j] \ big[ks[j]] : j \in 1 .. i}
Passed(P, S, ks, big, i, u) ==
  /\ u \in States(P) /\ u.at = Cardinality(Done(ks, S, i)) + 1
  /\ u.violating = Lossy(ks, big, i) /\ u.rows = Cardinality(LostRows(ks, big, i)) /\ IsFiniteSet(LostRows(ks, big, i))
  /\ Len(u.maxima) = i /\ \A j \in 1 .. i : u.maxima[j][1] = Cardinality(big[ks[j]])

(* One more cluster: it is lossy if its greatest part is not all of it.    *)
LEMMA NextIsPassed ==
  ASSUME NEW P, NEW S, NEW ks, NEW parts, IsListed(P, S, ks, parts),
         NEW big, \A K \in P : big[K] \in SUBSET K /\ IsGreatest(Cardinality(big[K]), {a \in S : a \in SUBSET K}),
         NEW i \in Nat, i < Cardinality(P), NEW u, Passed(P, S, ks, big, i, u)
  PROVE  Passed(P, S, ks, big, i + 1, VE!WithCluster(VE!ClusterMax(u, ks[i + 1], parts), ks[i + 1]))
<1> DEFINE n == Cardinality(P)
           K == ks[i + 1]
           c == VE!ClusterMax(u, K, parts)
           w == VE!WithCluster(c, K)
           lost == K \ big[K]
<1>0. AreRowSets(P)
  BY DEF IsListed
<1>1. /\ n \in Nat /\ ks \in [1 .. n -> P] /\ \A j, l \in 1 .. n : ks[j] = ks[l] => j = l
  BY ClassIs DEF IsListed
<1>2. i + 1 \in 1 .. n /\ i + 1 - 1 = i
  BY <1>1
<1>3. K \in P /\ IsFiniteSet(K) /\ K \in SUBSET Int
  BY <1>0, <1>1, <1>2 DEF AreRowSets, AreClasses
<1>4. /\ u \in States(P) /\ u.at = Cardinality(Done(ks, S, i)) + 1
      /\ u.violating = Lossy(ks, big, i) /\ u.rows = Cardinality(LostRows(ks, big, i)) /\ IsFiniteSet(LostRows(ks, big, i))
      /\ Len(u.maxima) = i /\ \A j \in 1 .. i : u.maxima[j][1] = Cardinality(big[ks[j]])
  BY DEF Passed
<1>5. /\ c \in States(P) /\ c.violating = u.violating /\ c.rows = u.rows /\ c.maxima = u.maxima
      /\ c.at = Cardinality(Done(ks, S, i + 1)) + 1
      /\ IsGreatest(c.max, {a \in S : a \in SUBSET K})
  <2>1. u.at = Cardinality(Done(ks, S, i + 1 - 1)) + 1
    BY <1>2, <1>4
  <2>2. IsDone(P, S, ks, i + 1, u, VE!ClusterMax(u, ks[i + 1], parts))
    BY <1>2, <1>4, <2>1, ClusterIsTaken
  <2> QED BY <2>2 DEF IsDone
<1> HIDE DEF c
<1>6. c.max = Cardinality(big[K])
  <2>1. IsGreatest(Cardinality(big[K]), {a \in S : a \in SUBSET K})
    BY <1>3
  <2> HIDE DEF K
  <2> QED BY <1>5, <2>1 DEF IsGreatest
<1>7. /\ IsFiniteSet(big[K]) /\ IsFiniteSet(lost) /\ Cardinality(lost) = Cardinality(K) - Cardinality(big[K])
      /\ Cardinality(K) \in Nat /\ Cardinality(big[K]) \in Nat
      /\ Cardinality(K) = Cardinality(big[K]) <=> big[K] = K
  <2>0. big[K] \in SUBSET K
    BY <1>3
  <2> HIDE DEF K
  <2>1. /\ IsFiniteSet(big[K]) /\ Cardinality(K) \in Nat /\ Cardinality(big[K]) \in Nat
        /\ Cardinality(K) = Cardinality(big[K]) + Cardinality(K \ big[K]) /\ Cardinality(K \ big[K]) \in Nat
    BY <1>3, <2>0, PartIsSmaller
  <2>2. Cardinality(K) = Cardinality(big[K]) => big[K] = K
    BY <1>3, <2>0, FS_Subset
  <2>3. IsFiniteSet(K \ big[K])
    BY <1>3, FS_Subset
  <2> QED BY <2>1, <2>2, <2>3
<1>8. VE!Cardinality(K) = Cardinality(K)
  BY SameSizes
<1>9. \A j : j \in 1 .. i + 1 <=> j \in 1 .. i \/ j = i + 1
  OBVIOUS
<1>10. Lossy(ks, big, i + 1) = Lossy(ks, big, i) \cup (IF big[K] # K THEN {K} ELSE {})
  BY <1>9 DEF Lossy
<1>11. LostRows(ks, big, i + 1) = LostRows(ks, big, i) \cup lost
  BY <1>9 DEF LostRows
<1>12. LostRows(ks, big, i) \cap lost = {}
  <2> SUFFICES ASSUME NEW r \in LostRows(ks, big, i), r \in lost PROVE FALSE
    OBVIOUS
  <2>1. PICK j \in 1 .. i : r \in ks[j]
    BY DEF LostRows
  <2>2. j \in 1 .. n /\ j # i + 1
    BY <1>1
  <2>3. ks[j] \in P /\ ks[j] # K
    BY <1>1, <1>2, <2>2
  <2> QED BY <1>0, <1>3, <2>1, <2>3 DEF AreRowSets, AreClasses
<1> HIDE DEF lost, K, n
<1>13. /\ IsFiniteSet(LostRows(ks, big, i + 1))
       /\ Cardinality(LostRows(ks, big, i + 1)) = Cardinality(LostRows(ks, big, i)) + Cardinality(K) - Cardinality(big[K])
  <2>1. Cardinality(LostRows(ks, big, i)) \in Nat
    BY <1>4, FS_CardinalityType
  <2>2. /\ IsFiniteSet(LostRows(ks, big, i) \cup lost)
        /\ Cardinality(LostRows(ks, big, i) \cup lost) = Cardinality(LostRows(ks, big, i)) + Cardinality(lost)
    BY <1>4, <1>7, <1>12, UnionIsSum
  <2> QED BY <1>7, <1>11, <2>1, <2>2
<1>14. w = [at |-> c.at, max |-> c.max, rows |-> c.rows + Cardinality(K) - c.max,
            violating |-> c.violating \cup (IF c.max # Cardinality(K) THEN {K} ELSE {}),
            maxima |-> Append(c.maxima, <<c.max, Cardinality(K)>>)]
  BY <1>8 DEF VE!WithCluster
<1> DEFINE W == [at |-> c.at, max |-> c.max, rows |-> c.rows + Cardinality(K) - c.max,
                 violating |-> c.violating \cup (IF c.max # Cardinality(K) THEN {K} ELSE {}),
                 maxima |-> Append(c.maxima, <<c.max, Cardinality(K)>>)]
<1>15. W \in States(P)
  <2>1. c.maxima \in Seq(Nat \X Nat) /\ c.max \in Nat /\ c.at \in Nat \ {0} /\ c.rows \in Int /\ c.violating \in SUBSET P
    BY <1>5 DEF States
  <2>2. Append(c.maxima, <<c.max, Cardinality(K)>>) \in Seq(Nat \X Nat)
    BY <1>7, <2>1
  <2>3. c.violating \cup (IF c.max # Cardinality(K) THEN {K} ELSE {}) \in SUBSET P
    BY <1>3, <2>1
  <2>4. c.rows + Cardinality(K) - c.max \in Int
    BY <1>7, <2>1
  <2> QED BY <2>1, <2>2, <2>3, <2>4 DEF States
<1>16. W.violating = Lossy(ks, big, i + 1)
  <2>1. c.max # Cardinality(K) <=> big[K] # K
    BY <1>6, <1>7
  <2> QED BY <1>4, <1>5, <1>10, <2>1
<1>17. W.rows = Cardinality(LostRows(ks, big, i + 1))
  BY <1>4, <1>5, <1>6, <1>13
<1>18. Len(W.maxima) = i + 1 /\ \A j \in 1 .. i + 1 : W.maxima[j][1] = Cardinality(big[ks[j]])
  <2> DEFINE q == c.maxima
             e == <<c.max, Cardinality(K)>>
  <2>1. q \in Seq(Nat \X Nat) /\ Len(q) = i /\ \A j \in 1 .. i : q[j][1] = Cardinality(big[ks[j]])
    BY <1>4, <1>5 DEF States
  <2>2. e \in Nat \X Nat /\ e[1] = Cardinality(big[ks[i + 1]])
    <3>1. e \in Nat \X Nat /\ e[1] = Cardinality(big[K])
      BY <1>6, <1>7
    <3> QED BY <3>1 DEF K
  <2> HIDE DEF q, e
  <2>3. /\ Len(Append(q, e)) = i + 1 /\ Append(q, e)[i + 1] = e
        /\ \A j \in 1 .. i : Append(q, e)[j] = q[j]
    BY <2>1, <2>2
  <2>4. \A j \in 1 .. i + 1 : Append(q, e)[j][1] = Cardinality(big[ks[j]])
    BY <1>9, <2>1, <2>2, <2>3
  <2> QED BY <2>3, <2>4 DEF q, e
<1> HIDE DEF w, W
<1>19. Passed(P, S, ks, big, i + 1, W)
  <2>1. W.at = Cardinality(Done(ks, S, i + 1)) + 1
    BY <1>5 DEF W
  <2> QED BY <1>13, <1>15, <1>16, <1>17, <1>18, <2>1 DEF Passed
<1> QED BY <1>14, <1>19 DEF w, W, c, K

(* After all clusters: those that lose rows, the rows they lose, and the   *)
(* sizes of the greatest parts.                                            *)
LEMMA PfdIs ==
  ASSUME NEW P, NEW S, NEW ks, NEW parts, IsListed(P, S, ks, parts),
         NEW big, \A K \in P : big[K] \in SUBSET K /\ IsGreatest(Cardinality(big[K]), {a \in S : a \in SUBSET K})
  PROVE  Passed(P, S, ks, big, Cardinality(P), VE!PfdSteps(ks, parts))
<1> DEFINE n == Cardinality(P)
<1>1. /\ n \in Nat /\ ks \in [1 .. n -> P] /\ Cardinality(S) \in Nat /\ parts \in [1 .. Cardinality(S) -> S]
      /\ \A a \in S : VE!ClassAt(ks, a) \in 1 .. n
  <2>1. /\ Cardinality(P) \in Nat /\ ks \in [1 .. Cardinality(P) -> P]
        /\ Cardinality(S) \in Nat /\ parts \in [1 .. Cardinality(S) -> S]
        /\ IsOrder(S, PartOrder(ks, S))
        /\ \A a \in S : /\ VE!ClassAt(ks, a) \in 1 .. Cardinality(P)
                        /\ \A j \in 1 .. Cardinality(P) : VE!ClassAt(ks, a) = j <=> a \in SUBSET ks[j]
    BY ListedIs
  <2> QED BY <2>1
<1>2. (\A a \in S : IsFiniteSet(a)) /\ \A K \in P : IsFiniteSet(K) /\ K \in SUBSET Int
  BY DEF IsListed, AreRowSets, AreClasses
<1>7. PICK H : GoesThrough(ks, parts, n, VE!PfdSteps(ks, parts), H)
  <2> HIDE DEF n
  <2> QED BY <1>1, <1>2, PfdStepsAre
<1>3. /\ H[0] = [at |-> 1, max |-> 1, violating |-> {}, rows |-> 0, maxima |-> <<>>]
      /\ \A k \in 1 .. n : H[k] = VE!WithCluster(VE!ClusterMax(H[k - 1], ks[k], parts), ks[k])
      /\ VE!PfdSteps(ks, parts) = H[n]
  BY <1>7 DEF GoesThrough
<1> HIDE DEF n
<1> DEFINE D == {k \in Nat : k <= n => Passed(P, S, ks, big, k, H[k])}
<1>4. 0 \in D
  <2>1. Lossy(ks, big, 0) = {} /\ LostRows(ks, big, 0) = {} /\ Done(ks, S, 0) = {}
    <3>1. 1 .. 0 = {}
      OBVIOUS
    <3>2. \A a \in S : ~(VE!ClassAt(ks, a) <= 0)
      BY <1>1
    <3> QED BY <3>1, <3>2 DEF Lossy, LostRows, Done
  <2>2. IsFiniteSet({}) /\ Cardinality({}) = 0
    BY FS_EmptySet
  <2>3. H[0] \in States(P)
    BY <1>3 DEF States
  <2>4. H[0].at = 0 + 1 /\ H[0].violating = {} /\ H[0].rows = 0 /\ Len(H[0].maxima) = 0
    <3>1. H[0] = [at |-> 1, max |-> 1, violating |-> {}, rows |-> 0, maxima |-> <<>>]
      BY <1>3
    <3> QED BY <3>1
  <2>5. Passed(P, S, ks, big, 0, H[0])
    <3> DEFINE u == H[0]
    <3> HIDE DEF u
    <3>1. \A j \in 1 .. 0 : u.maxima[j][1] = Cardinality(big[ks[j]])
      OBVIOUS
    <3>2. /\ u.at = Cardinality(Done(ks, S, 0)) + 1 /\ u.violating = Lossy(ks, big, 0)
          /\ u.rows = Cardinality(LostRows(ks, big, 0)) /\ IsFiniteSet(LostRows(ks, big, 0)) /\ Len(u.maxima) = 0
      BY <2>1, <2>2, <2>4 DEF u
    <3>3. u \in States(P)
      BY <2>3 DEF u
    <3>4. Passed(P, S, ks, big, 0, u)
      BY <3>1, <3>2, <3>3 DEF Passed
    <3> QED BY <3>4 DEF u
  <2> QED BY <2>5
<1>5. \A k \in Nat : k \in D => k + 1 \in D
  <2> TAKE k \in Nat
  <2> HAVE k \in D
  <2>1. SUFFICES ASSUME k + 1 <= n PROVE Passed(P, S, ks, big, k + 1, H[k + 1])
    OBVIOUS
  <2>2. k + 1 \in 1 .. n /\ k + 1 - 1 = k /\ k < n /\ Passed(P, S, ks, big, k, H[k])
    BY <1>1, <2>1
  <2>3. H[k + 1] = VE!WithCluster(VE!ClusterMax(H[k], ks[k + 1], parts), ks[k + 1])
    BY <1>3, <2>2
  <2>4. Passed(P, S, ks, big, k + 1, VE!WithCluster(VE!ClusterMax(H[k], ks[k + 1], parts), ks[k + 1]))
    BY <2>2, NextIsPassed DEF n
  <2> QED BY <2>3, <2>4
<1> HIDE DEF D
<1>6. \A k \in Nat : k \in D
  BY <1>4, <1>5, CountingUp
<1> QED BY <1>1, <1>3, <1>6 DEF D, n

(* The sum of the greatest parts' sizes is the number of their rows.       *)
SumOfMaxima(q) == VE!FoldLeft(LAMBDA n, m : n + m[1], 0, q)
IsAdding(q, F) ==
  F = [x \in SUBSET DOMAIN q |-> IF x = {} THEN 0 ELSE F[x \ {VE!Max(x)}] + q[VE!Max(x)][1]]

(* One number more.                                                        *)
LEMMA OneMore ==
  ASSUME NEW k \in Nat
  PROVE  1 .. k + 1 = (1 .. k) \cup {k + 1}
OBVIOUS
AreSizes(A, q, n) ==
  /\ \A j \in 1 .. n : IsFiniteSet(A[j]) /\ q[j][1] = Cardinality(A[j])
  /\ \A j, l \in 1 .. n : j # l => A[j] \cap A[l] = {}
AllOf(A, n) == UNION {A[j] : j \in 1 .. n}

(* The numbers of a list that are the sizes of sets with nothing in common *)
(* add up to the size of their union.                                      *)
LEMMA SumOfMaximaIs ==
  ASSUME NEW n \in Nat, NEW q \in Seq(Nat \X Nat), Len(q) = n,
         NEW A, AreSizes(A, q, n)
  PROVE  SumOfMaxima(q) = Cardinality(AllOf(A, n)) /\ IsFiniteSet(AllOf(A, n))
<1> DEFINE V(k) == q[k][1]
           step == [x \in Nat \X (1 .. n) |-> x[1] + V(x[2])]
<1>0. /\ \A j \in 1 .. n : IsFiniteSet(A[j]) /\ q[j][1] = Cardinality(A[j])
      /\ \A j, l \in 1 .. n : j # l => A[j] \cap A[l] = {}
  BY DEF AreSizes
<1>1. DOMAIN q = 1 .. n /\ \A k \in 1 .. n : V(k) \in Nat
  OBVIOUS
<1> HIDE DEF V
<1>5. step \in [Nat \X (1 .. n) -> Nat]
  BY <1>1
<1>6. \A u \in Nat, k \in 1 .. n : step[<<u, k>>] = u + V(k)
  OBVIOUS
<1> HIDE DEF step
<1>7. PICK G \in [SUBSET (1 .. n) -> Nat] : IsFold(n, 0, step, G)
  <2>1. 0 \in Nat
    OBVIOUS
  <2> QED BY <1>5, <2>1, FoldExists
<1>8. IsAdding(q, G)
  <2>1. \A x \in SUBSET (1 .. n) : G[x] = IF x = {} THEN 0 ELSE G[x \ {VE!Max(x)}] + V(VE!Max(x))
    <3> TAKE x \in SUBSET (1 .. n)
    <3>1. CASE x = {}
      BY <1>7, <3>1 DEF IsFold
    <3>2. CASE x # {}
      <4>1. x \ {VE!Max(x)} \in SUBSET (1 .. n) /\ VE!Max(x) \in 1 .. n
        BY <3>2, SmallerSet
      <4>2. G[x \ {VE!Max(x)}] \in Nat
        BY <4>1
      <4> QED BY <1>6, <1>7, <3>2, <4>1, <4>2 DEF IsFold
    <3> QED BY <3>1, <3>2
  <2>2. G = [x \in SUBSET (1 .. n) |-> G[x]]
    OBVIOUS
  <2> QED BY <1>1, <2>1, <2>2, Zenon DEF IsAdding, V
<1>9. SumOfMaxima(q) = (CHOOSE F : IsAdding(q, F))[DOMAIN q]
  BY Zenon DEF SumOfMaxima, VE!FoldLeft, VE!MapThenFoldSet, IsAdding
<1>10. PICK F : IsAdding(q, F) /\ SumOfMaxima(q) = F[DOMAIN q]
  BY <1>8, <1>9, Zenon
<1>11. \A x \in SUBSET (1 .. n) : F[x] = IF x = {} THEN 0 ELSE F[x \ {VE!Max(x)}] + V(VE!Max(x))
  BY <1>1, <1>10, Zenon DEF IsAdding, V
<1> DEFINE All(k) == UNION {A[j] : j \in 1 .. k}
           P == {k \in Nat : k <= n => F[1 .. k] = Cardinality(All(k)) /\ IsFiniteSet(All(k))}
<1>12. 0 \in P
  <2>1. 1 .. 0 = {} /\ All(0) = {} /\ IsFiniteSet({}) /\ Cardinality({}) = 0
    BY FS_EmptySet
  <2>2. F[{}] = 0
    BY <1>11
  <2> HIDE DEF All
  <2> QED BY <2>1, <2>2
<1>13. \A k \in Nat : k \in P => k + 1 \in P
  <2> TAKE k \in Nat
  <2> HAVE k \in P
  <2>1. SUFFICES ASSUME k + 1 <= n PROVE F[1 .. k + 1] = Cardinality(All(k + 1)) /\ IsFiniteSet(All(k + 1))
    OBVIOUS
  <2>2. k + 1 \in 1 .. n /\ F[1 .. k] = Cardinality(All(k)) /\ IsFiniteSet(All(k))
    BY <2>1
  <2>3. /\ 1 .. k + 1 # {} /\ 1 .. k + 1 \in SUBSET (1 .. n) /\ VE!Max(1 .. k + 1) = k + 1
        /\ (1 .. k + 1) \ {VE!Max(1 .. k + 1)} = 1 .. k + 1 - 1
    <3> DEFINE l == k + 1
    <3>1. l \in 1 .. n
      BY <2>2
    <3> HIDE DEF l, P, All
    <3>2. 1 .. l # {} /\ 1 .. l \in SUBSET (1 .. n) /\ VE!Max(1 .. l) = l /\ (1 .. l) \ {VE!Max(1 .. l)} = 1 .. l - 1
      BY <3>1, PrefixOfFold
    <3> QED BY <3>2 DEF l
  <2>4. F[1 .. k + 1] = F[1 .. k] + V(k + 1)
    <3>1. k + 1 - 1 = k
      OBVIOUS
    <3> QED BY <1>11, <2>3, <3>1
  <2>5. All(k + 1) = All(k) \cup A[k + 1]
    <3>1. 1 .. k + 1 = (1 .. k) \cup {k + 1}
      BY OneMore
    <3> DEFINE I == 1 .. k
               J == 1 .. k + 1
    <3>2. J = I \cup {k + 1} /\ All(k) = UNION {A[j] : j \in I} /\ All(k + 1) = UNION {A[j] : j \in J}
      BY <3>1
    <3> HIDE DEF I, J, All, P
    <3> QED BY <3>2
  <2>6. All(k) \cap A[k + 1] = {}
    <3> SUFFICES ASSUME NEW r \in All(k), r \in A[k + 1] PROVE FALSE
      OBVIOUS
    <3>1. PICK j \in 1 .. k : r \in A[j]
      OBVIOUS
    <3>2. j \in 1 .. n /\ j # k + 1
      BY <2>2
    <3> QED BY <1>0, <2>2, <3>1, <3>2
  <2>7. IsFiniteSet(A[k + 1]) /\ V(k + 1) = Cardinality(A[k + 1])
    BY <1>0, <2>2 DEF V
  <2> HIDE DEF All
  <2>8. IsFiniteSet(All(k) \cup A[k + 1]) /\ Cardinality(All(k) \cup A[k + 1]) = Cardinality(All(k)) + Cardinality(A[k + 1])
    BY <2>2, <2>6, <2>7, UnionIsSum
  <2> QED BY <2>2, <2>4, <2>5, <2>7, <2>8
<1> HIDE DEF P
<1>14. n \in P
  BY <1>12, <1>13, CountingUp
<1> QED BY <1>1, <1>10, <1>14 DEF P, AllOf

(* What a class loses, and the sum of that.                                *)
LostOf(t, Y, K) == VE!Cardinality(K) - VE!Largest(VE!Parts(t, K, Y))
AllLost(t, Y, S) == VE!FoldSet(LAMBDA K, n : n + (VE!Cardinality(K) - VE!Largest(VE!Parts(t, K, Y))), 0, S)
IsAllLost(t, Y, S, F) ==
  F = [s \in SUBSET S |-> IF s = {} THEN 0
                          ELSE F[s \ {CHOOSE x \in s : TRUE}] + LostOf(t, Y, CHOOSE x \in s : TRUE)]

(* What classes lose adds up to the number of the rows outside their       *)
(* greatest parts.                                                         *)
LEMMA LostSumsUp ==
  ASSUME NEW t, NEW Y, NEW S, NEW A, NEW w, AreApart(S, A, w), \A K \in S : w[K] = LostOf(t, Y, K)
  PROVE  AllLost(t, Y, S) = Cardinality(UNION {A[K] : K \in S})
<1>1. /\ \E F : IsSumUp(S, w, F)
      /\ \A F : IsSumUp(S, w, F) => F[S] = Cardinality(UNION {A[K] : K \in S})
  BY SumsUp
<1>2. \A s \in SUBSET S : s # {} => w[CHOOSE x \in s : TRUE] = LostOf(t, Y, CHOOSE x \in s : TRUE)
  <2> TAKE s \in SUBSET S
  <2> HAVE s # {}
  <2>1. (CHOOSE x \in s : TRUE) \in S
    OBVIOUS
  <2> QED BY <2>1
<1>3. \A F : IsAllLost(t, Y, S, F) <=> IsSumUp(S, w, F)
  BY <1>2, Zenon DEF IsAllLost, IsSumUp
<1>4. IsAllLost(t, Y, S, CHOOSE F : IsAllLost(t, Y, S, F))
  BY <1>1, <1>3, Zenon
<1>5. AllLost(t, Y, S) = (CHOOSE F : IsAllLost(t, Y, S, F))[S]
  BY Zenon DEF AllLost, VE!FoldSet, VE!MapThenFoldSet, IsAllLost, LostOf
<1> QED BY <1>1, <1>3, <1>4, <1>5

(* The indexes of both sides are what the lists are made of.               *)
LEMMA IndexesAreListed ==
  ASSUME NEW t, IsARows(t), NEW X, NEW Y
  PROVE  LET ks == VE!ByFirst(Stripped(t, X))
         IN IsListed(Stripped(t, X), Stripped(t, X \cup Y), ks, VE!ByClass(ks, Stripped(t, X \cup Y)))
<1> DEFINE P == Stripped(t, X)
           S == Stripped(t, X \cup Y)
           ks == VE!ByFirst(P)
<1>1. \A Z : AreRowSets(Stripped(t, Z))
  <2> TAKE Z
  <2>1. Stripped(t, Z) \in SUBSET VE!Classes(t, Z)
    BY DEF Stripped
  <2>2. AreClasses(Stripped(t, Z))
    <3>1. AreClasses(VE!Classes(t, Z))
      BY ClassesPart
    <3> QED BY <2>1, <3>1, FS_Subset DEF AreClasses
  <2>3. \A K \in Stripped(t, Z) : K # {} /\ K \in SUBSET DOMAIN t
    BY <2>1, ClassesPart
  <2>4. DOMAIN t \in SUBSET Int
    BY DEF IsARows
  <2> QED BY <2>2, <2>3, <2>4 DEF AreRowSets
<1>2. ASSUME NEW a \in S PROVE \E K \in P : a \in SUBSET K
  <2>1. a \in VE!Classes(t, X \cup Y)
    BY DEF Stripped
  <2>2. PICK r, s \in a : r # s
    BY <2>1, LargeClasses
  <2>3. r \in DOMAIN t /\ a = VE!Class(t, X \cup Y, r)
    <3> HIDE DEF S
    <3> QED BY <2>1, ClassesPart
  <2>4. a \in SUBSET VE!Class(t, X, r)
    BY <2>3 DEF VE!Class, VE!Equal
  <2>5. VE!Class(t, X, r) \in VE!Classes(t, X)
    BY <2>3, ClassesPart
  <2> QED BY <2>2, <2>4, <2>5, LargeClasses
<1>3. AreRowSets(P) /\ AreRowSets(S)
  BY <1>1
<1> HIDE DEF P, S
<1>4. IsSortedBy(P, FirstOrder(P), ks)
  BY <1>3, FirstSorted
<1>5. \A a \in S : VE!ClassAt(ks, a) \in Int
  <2>1. /\ Cardinality(P) \in Nat /\ \A K \in P : \E i \in 1 .. Cardinality(P) : ks[i] = K
        /\ \A a : \A i \in 1 .. Cardinality(P) : a \in SUBSET ks[i] /\ a # {} => VE!ClassAt(ks, a) = i
    <3> HIDE DEF ks
    <3> QED BY <1>3, <1>4, ClassIs
  <2> HIDE DEF ks
  <2> TAKE a \in S
  <2>2. PICK K \in P : a \in SUBSET K
    BY <1>2
  <2>3. PICK i \in 1 .. Cardinality(P) : ks[i] = K
    BY <2>1
  <2>4. VE!ClassAt(ks, a) = i
    BY <1>3, <2>1, <2>2, <2>3 DEF AreRowSets
  <2> QED BY <2>1, <2>4
<1>6. IsSortedBy(S, PartOrder(ks, S), VE!ByClass(ks, S))
  <2> HIDE DEF ks
  <2> QED BY <1>3, <1>5, PartsSorted
<1> QED BY <1>2, <1>3, <1>4, <1>6 DEF IsListed, P, S

(* PFD verification: the classes that lose rows, how many, and the error.  *)
THEOREM PfdIsAlwaysRight ==
  ASSUME NEW t, IsARows(t),
         NEW X \in SUBSET Int, IsFiniteSet(X), X # {}, NEW Y \in SUBSET Int, IsFiniteSet(Y), Y # {}
  PROVE  VE!PfdIsRight(t, X, Y)
<1> DEFINE All == VE!Classes(t, X)
           P == Stripped(t, X)
           S == Stripped(t, X \cup Y)
           ks == VE!ByFirst(P)
           parts == VE!ByClass(ks, S)
           u == VE!PfdSteps(ks, parts)
           n == Cardinality(P)
           Good(K, b) == /\ b \in SUBSET K /\ Cardinality(b) = VE!Largest(VE!Parts(t, K, Y))
                         /\ IsGreatest(Cardinality(b), {a \in S : a \in SUBSET K})
           big == [K \in All |-> CHOOSE b \in VE!Parts(t, K, Y) : Good(K, b)]
           lost == [K \in All |-> K \ big[K]]
<1>1. VE!IndexOf(t, X) = P /\ VE!IndexOf(t, Y) = Stripped(t, Y)
  BY IndexIs
<1>2. VE!Intersect(P, Stripped(t, Y)) = S
  BY IntersectIs
<1>3. VE!VerifyPFD(P, Stripped(t, Y), ks) = u
  BY <1>2 DEF VE!VerifyPFD
<1>4. IsListed(P, S, ks, parts)
  BY IndexesAreListed
<1>5. AreClasses(All) /\ UNION All = DOMAIN t /\ P \in SUBSET All /\ \A K \in All : IsFiniteSet(K) /\ K # {}
  BY ClassesPart DEF Stripped
<1> HIDE DEF Good
<1>6. \A K \in All : Good(K, big[K])
  <2> TAKE K \in All
  <2>1. \E b \in VE!Parts(t, K, Y) :
              /\ b \in SUBSET K /\ Cardinality(b) = VE!Largest(VE!Parts(t, K, Y))
              /\ IsGreatest(Cardinality(b), {a \in Stripped(t, X \cup Y) : a \in SUBSET K})
    BY LargestIs
  <2>2. \E b \in VE!Parts(t, K, Y) : Good(K, b)
    BY <2>1 DEF Good
  <2>3. big[K] = CHOOSE b \in VE!Parts(t, K, Y) : Good(K, b)
    OBVIOUS
  <2> HIDE DEF big
  <2> QED BY <2>2, <2>3
<1> HIDE DEF big
<1>7. \A K \in All : /\ big[K] \in SUBSET K /\ Cardinality(big[K]) = VE!Largest(VE!Parts(t, K, Y))
                     /\ IsGreatest(Cardinality(big[K]), {a \in S : a \in SUBSET K})
  BY <1>6 DEF Good
<1>8. Passed(P, S, ks, big, n, u)
  <2>1. \A K \in P : big[K] \in SUBSET K /\ IsGreatest(Cardinality(big[K]), {a \in S : a \in SUBSET K})
    BY <1>5, <1>7
  <2> HIDE DEF P, S, ks, parts
  <2>2. Passed(P, S, ks, big, Cardinality(P), VE!PfdSteps(ks, parts))
    BY <1>4, <2>1, PfdIs
  <2> QED BY <2>2
<1>9. /\ n \in Nat /\ ks \in [1 .. n -> P] /\ (\A K \in P : \E i \in 1 .. n : ks[i] = K)
      /\ \A i, j \in 1 .. n : ks[i] = ks[j] => i = j
  <2>1. AreRowSets(P) /\ IsSortedBy(P, FirstOrder(P), ks)
    BY <1>4 DEF IsListed
  <2> HIDE DEF P, ks
  <2> QED BY <2>1, ClassIs
<1> HIDE DEF u, n, parts, ks, P, S
<1>10. \A K \in All : /\ IsFiniteSet(big[K]) /\ IsFiniteSet(lost[K])
                      /\ Cardinality(lost[K]) = LostOf(t, Y, K) /\ Cardinality(lost[K]) \in Nat
                      /\ (big[K] = K <=> LostOf(t, Y, K) = 0)
  <2> TAKE K \in All
  <2> DEFINE B == big[K]
  <2>1. IsFiniteSet(K) /\ B \in SUBSET K /\ Cardinality(B) = VE!Largest(VE!Parts(t, K, Y))
    BY <1>5, <1>7
  <2> HIDE DEF B
  <2>2. /\ IsFiniteSet(B) /\ Cardinality(K) \in Nat /\ Cardinality(B) \in Nat
        /\ Cardinality(K) = Cardinality(B) + Cardinality(K \ B) /\ Cardinality(K \ B) \in Nat
    BY <2>1, PartIsSmaller
  <2>3. IsFiniteSet(K \ B)
    BY <2>1, FS_Subset
  <2>4. Cardinality(K) = Cardinality(B) => B = K
    BY <2>1, FS_Subset
  <2>5. VE!Cardinality(K) = Cardinality(K)
    BY SameSizes
  <2>6. LostOf(t, Y, K) = Cardinality(K) - Cardinality(B)
    BY <2>1, <2>5 DEF LostOf
  <2>7. lost[K] = K \ B
    BY DEF B
  <2> HIDE DEF lost
  <2>8. B = K <=> LostOf(t, Y, K) = 0
    BY <2>2, <2>4, <2>6
  <2>9. Cardinality(lost[K]) = LostOf(t, Y, K) /\ Cardinality(lost[K]) \in Nat
    BY <2>2, <2>6, <2>7
  <2> QED BY <2>2, <2>3, <2>7, <2>8, <2>9 DEF B
<1>11. \A K \in All : K \notin P => big[K] = K
  <2> TAKE K \in All
  <2> HAVE K \notin P
  <2>1. \A r, s \in K : r = s
    BY LargeClasses DEF P
  <2>2. big[K] # {}
    <3>1. Cardinality(big[K]) >= 1
      BY <1>7 DEF IsGreatest
    <3>2. Cardinality({}) = 0
      BY FS_EmptySet
    <3> QED BY <3>1, <3>2
  <2>3. PICK r \in big[K] : TRUE
    BY <2>2
  <2>4. big[K] \in SUBSET K
    BY <1>7
  <2> HIDE DEF All
  <2>5. \A s \in K : s \in big[K]
    BY <2>1, <2>3, <2>4
  <2> QED BY <2>4, <2>5
<1>12. \A K, L \in All : K # L => K \cap L = {}
  BY <1>5 DEF AreClasses
<1>22. \A K \in All : lost[K] = K \ big[K]
  OBVIOUS
<1> HIDE DEF All, lost
<1>13. u.violating = {K \in All : LostOf(t, Y, K) > 0}
  <2>1. u.violating = {ks[j] : j \in {l \in 1 .. n : big[ks[l]] # ks[l]}}
    BY <1>8 DEF Passed, Lossy
  <2>2. \A K : K \in u.violating <=> K \in P /\ big[K] # K
    BY <1>9, <2>1
  <2>3. \A K \in All : LostOf(t, Y, K) > 0 <=> big[K] # K
    <3> TAKE K \in All
    <3>1. LostOf(t, Y, K) \in Nat /\ (big[K] = K <=> LostOf(t, Y, K) = 0)
      BY <1>10
    <3> QED BY <3>1
  <2>4. \A K : K \in u.violating <=> K \in All /\ LostOf(t, Y, K) > 0
    BY <1>5, <1>11, <2>2, <2>3
  <2> QED BY <2>4
<1>14. LostRows(ks, big, n) = UNION {lost[K] : K \in All}
  <2>1. LostRows(ks, big, n) = UNION {ks[j] \ big[ks[j]] : j \in 1 .. n}
    BY DEF LostRows
  <2>2. \A K \in All : lost[K] = K \ big[K]
    BY <1>22
  <2>3. ASSUME NEW r \in LostRows(ks, big, n) PROVE r \in UNION {lost[K] : K \in All}
    <3>1. PICK j \in 1 .. n : r \in ks[j] \ big[ks[j]]
      BY <2>1
    <3>2. ks[j] \in All
      BY <1>5, <1>9
    <3> QED BY <2>2, <3>1, <3>2
  <2>4. ASSUME NEW r \in UNION {lost[K] : K \in All} PROVE r \in LostRows(ks, big, n)
    <3>1. PICK K \in All : r \in K \ big[K]
      BY <2>2
    <3>2. PICK j \in 1 .. n : ks[j] = K
      BY <1>9, <1>11, <3>1
    <3> QED BY <2>1, <3>1, <3>2
  <2> QED BY <2>3, <2>4
<1>15. AllLost(t, Y, All) = Cardinality(UNION {lost[K] : K \in All})
  <2> DEFINE w == [K \in All |-> Cardinality(lost[K])]
  <2>1. \A K \in All : lost[K] \in SUBSET K
    BY <1>22
  <2>2. IsFiniteSet(All)
    BY <1>5 DEF AreClasses
  <2>3. \A K, L \in All : K # L => lost[K] \cap lost[L] = {}
    BY <1>12, <2>1
  <2>4. \A K \in All : w[K] = Cardinality(lost[K])
    OBVIOUS
  <2> HIDE DEF w
  <2>5. AreApart(All, lost, w)
    BY <1>10, <2>2, <2>3, <2>4 DEF AreApart
  <2>6. \A K \in All : w[K] = LostOf(t, Y, K)
    BY <1>10, <2>4
  <2> QED BY <2>5, <2>6, LostSumsUp
<1>16. u.rows = AllLost(t, Y, All) /\ u.rows \in Nat /\ IsFiniteSet(LostRows(ks, big, n))
       /\ u.rows = Cardinality(LostRows(ks, big, n))
  <2>1. u.rows = Cardinality(LostRows(ks, big, n)) /\ IsFiniteSet(LostRows(ks, big, n))
    BY <1>8 DEF Passed
  <2> QED BY <1>14, <1>15, <2>1, FS_CardinalityType
<1> DEFINE A == [j \in 1 .. n |-> big[ks[j]]]
           Bigs == UNION {A[j] : j \in 1 .. n}
<1>17. SumOfMaxima(u.maxima) = Cardinality(Bigs) /\ IsFiniteSet(Bigs)
  <2>1. /\ u.maxima \in Seq(Nat \X Nat) /\ Len(u.maxima) = n
        /\ \A j \in 1 .. n : u.maxima[j][1] = Cardinality(big[ks[j]])
    BY <1>8 DEF Passed, States
  <2>2. \A j \in 1 .. n : ks[j] \in All /\ A[j] = big[ks[j]]
    BY <1>5, <1>9
  <2> HIDE DEF A
  <2>3. \A j \in 1 .. n : IsFiniteSet(A[j]) /\ u.maxima[j][1] = Cardinality(A[j]) /\ A[j] \in SUBSET ks[j]
    <3> TAKE j \in 1 .. n
    <3>1. ks[j] \in All /\ A[j] = big[ks[j]]
      BY <2>2
    <3>2. IsFiniteSet(big[ks[j]]) /\ big[ks[j]] \in SUBSET ks[j]
      BY <1>7, <1>10, <3>1
    <3> QED BY <2>1, <3>1, <3>2
  <2>4. \A j, l \in 1 .. n : j # l => A[j] \cap A[l] = {}
    <3> TAKE j, l \in 1 .. n
    <3> HAVE j # l
    <3>1. ks[j] \cap ks[l] = {}
      BY <1>9, <1>12, <2>2
    <3> QED BY <2>3, <3>1
  <2>5. \A j \in 1 .. n : IsFiniteSet(A[j]) /\ u.maxima[j][1] = Cardinality(A[j])
    BY <2>3
  <2> DEFINE q == u.maxima
  <2>6. /\ q \in Seq(Nat \X Nat) /\ Len(q) = n
        /\ \A j \in 1 .. n : IsFiniteSet(A[j]) /\ q[j][1] = Cardinality(A[j])
    BY <2>1, <2>5
  <2> HIDE DEF q
  <2>7. SumOfMaxima(q) = Cardinality(AllOf(A, n)) /\ IsFiniteSet(AllOf(A, n))
    <3>1. n \in Nat /\ q \in Seq(Nat \X Nat) /\ Len(q) = n
      BY <1>9, <2>6
    <3>2. AreSizes(A, q, n)
      BY <2>4, <2>6 DEF AreSizes
    <3> QED BY <3>1, <3>2, SumOfMaximaIs
  <2> QED BY <2>7 DEF q, AllOf
<1>18. VE!Total(P) = Cardinality(Bigs) + u.rows
  <2>1. AreClasses(P)
    <3> QED BY <1>5, FS_Subset DEF AreClasses
  <2>2. VE!Total(P) = Cardinality(UNION P)
    BY <2>1, TotalIs
  <2>3. LostRows(ks, big, n) = UNION {ks[j] \ big[ks[j]] : j \in 1 .. n}
    BY DEF LostRows
  <2>4. \A j \in 1 .. n : A[j] = big[ks[j]] /\ ks[j] \in All /\ ks[j] \in P
    BY <1>5, <1>9
  <2> HIDE DEF A
  <2>5. \A j \in 1 .. n : A[j] \in SUBSET ks[j]
    BY <1>7, <2>4
  <2>6. UNION P = Bigs \cup LostRows(ks, big, n)
    <3>1. ASSUME NEW r \in UNION P PROVE r \in Bigs \cup LostRows(ks, big, n)
      <4>1. PICK j \in 1 .. n : r \in ks[j]
        BY <1>9
      <4> QED BY <2>3, <2>4, <4>1
    <3>2. ASSUME NEW r \in Bigs \cup LostRows(ks, big, n) PROVE r \in UNION P
      <4>1. PICK j \in 1 .. n : r \in ks[j]
        BY <2>3, <2>5
      <4> QED BY <2>4, <4>1
    <3> QED BY <3>1, <3>2
  <2>7. Bigs \cap LostRows(ks, big, n) = {}
    <3> SUFFICES ASSUME NEW r \in Bigs, r \in LostRows(ks, big, n) PROVE FALSE
      OBVIOUS
    <3>1. PICK j \in 1 .. n : r \in A[j]
      OBVIOUS
    <3>2. PICK l \in 1 .. n : r \in ks[l] \ big[ks[l]]
      BY <2>3
    <3>4. ks[j] \in All /\ ks[l] \in All /\ r \in ks[j] /\ r \in ks[l]
      BY <2>4, <2>5, <3>1, <3>2
    <3>3. ks[j] = ks[l]
      BY <1>12, <3>4
    <3> QED BY <2>4, <3>1, <3>2, <3>3
  <2> HIDE DEF Bigs
  <2> DEFINE L == LostRows(ks, big, n)
  <2>8. IsFiniteSet(Bigs) /\ IsFiniteSet(L) /\ Bigs \cap L = {}
    BY <1>16, <1>17, <2>7
  <2> HIDE DEF L
  <2>9. Cardinality(Bigs \cup L) = Cardinality(Bigs) + Cardinality(L)
    BY <2>8, UnionIsSum
  <2> QED BY <1>16, <2>2, <2>6, <2>9 DEF L
<1>19. VE!PerTuple(t, P, u) = <<u.rows, VE!Len(t)>>
  <2>1. VE!PerTuple(t, P, u) = <<VE!Len(t) - (SumOfMaxima(u.maxima) + VE!Len(t) - VE!Total(P)), VE!Len(t)>>
    BY Zenon DEF VE!PerTuple, SumOfMaxima
  <2>2. VE!Len(t) \in Nat /\ Cardinality(Bigs) \in Nat
    BY <1>17, RowsAreFinite, FS_CardinalityType
  <2> HIDE DEF Bigs
  <2>3. VE!Len(t) - (SumOfMaxima(u.maxima) + VE!Len(t) - VE!Total(P)) = u.rows
    BY <1>16, <1>17, <1>18, <2>2
  <2> QED BY <2>1, <2>3
<1>20. VE!VerifyPFD(VE!IndexOf(t, X), VE!IndexOf(t, Y), VE!ByFirst(VE!IndexOf(t, X))) = u
  BY <1>1, <1>3 DEF ks
<1>21. /\ u.violating = {K \in VE!Classes(t, X) : VE!Cardinality(K) - VE!Largest(VE!Parts(t, K, Y)) > 0}
       /\ u.rows = VE!FoldSet(LAMBDA K, m : m + (VE!Cardinality(K) - VE!Largest(VE!Parts(t, K, Y))), 0, VE!Classes(t, X))
       /\ VE!PerTuple(t, VE!IndexOf(t, X), u) = <<u.rows, VE!Len(t)>>
  <2>1. u.violating = {K \in VE!Classes(t, X) : VE!Cardinality(K) - VE!Largest(VE!Parts(t, K, Y)) > 0}
    BY <1>13 DEF LostOf, All
  <2>2. u.rows = VE!FoldSet(LAMBDA K, m : m + (VE!Cardinality(K) - VE!Largest(VE!Parts(t, K, Y))), 0, VE!Classes(t, X))
    BY <1>16, Zenon DEF AllLost, All
  <2> QED BY <1>1, <1>19, <2>1, <2>2
<1> HIDE DEF A, Bigs
<1> QED BY <1>20, <1>21, Zenon DEF VE!PfdIsRight
-----------------------------------------------------------------------------
(* What DiscoveryTables reads are tables of the kinds that the theorems    *)
(* are about: none but the last of them is without rows.                   *)
TablesInv ==
  shape.part \in NumberParts =>
    /\ IsOfNumbers(shape)
    /\ tables \in Seq(Seq(Seq(Nat))) /\ Len(tables) \in 1 .. Len(shape.ts)
    /\ \A i \in 1 .. Len(tables) : \A r \in DOMAIN tables[i] : Len(tables[i][r]) = shape.ts[i].cols
    /\ \A i \in 1 .. Len(tables) - 1 : tables[i] # <<>>

(* They start so.                                                          *)
LEMMA TablesStart == DiscoveryInit => TablesInv
<1> SUFFICES ASSUME DiscoveryInit, shape.part \in NumberParts
             PROVE  /\ IsOfNumbers(shape)
                    /\ tables \in Seq(Seq(Seq(Nat))) /\ Len(tables) \in 1 .. Len(shape.ts)
                    /\ \A i \in 1 .. Len(tables) : \A r \in DOMAIN tables[i] : Len(tables[i][r]) = shape.ts[i].cols
                    /\ \A i \in 1 .. Len(tables) - 1 : tables[i] # <<>>
  BY DEF TablesInv
<1>1. shape \in Shapes /\ tables = <<<<>>>>
  BY DEF DiscoveryInit, Shape, NumberParts
<1>2. IsOfNumbers(shape)
  BY <1>1, ShapesAssumption
<1>3. tables \in Seq(Seq(Seq(Nat))) /\ Len(tables) = 1 /\ tables[1] = <<>>
  <2>1. <<>> \in Seq(Seq(Nat))
    OBVIOUS
  <2> QED BY <1>1, <2>1
<1>4. Len(tables) \in 1 .. Len(shape.ts)
  BY <1>2, <1>3 DEF IsOfNumbers
<1>5. ASSUME NEW i \in 1 .. Len(tables), NEW r \in DOMAIN tables[i] PROVE FALSE
  <2>1. DOMAIN tables[i] = 1 .. 0
    BY <1>3
  <2> QED BY <2>1
<1> QED BY <1>2, <1>3, <1>4, <1>5

(* And stay so.                                                            *)
LEMMA TablesStay == TablesInv /\ [DiscoveryNext]_<<inputVars, domainVars, dynamicVars>> => TablesInv'
<1> SUFFICES ASSUME TablesInv, [DiscoveryNext]_<<inputVars, domainVars, dynamicVars>> PROVE TablesInv'
  OBVIOUS
<1>1. CASE shape' = shape /\ tables' = tables
  BY <1>1 DEF TablesInv
<1>2. CASE shape' = shape /\ shape.ts # <<>> /\ (AddRow \/ AddTable) /\ shape.part \in NumberParts
  <2> DEFINE n == Len(tables)
  <2>1. /\ IsOfNumbers(shape)
        /\ tables \in Seq(Seq(Seq(Nat))) /\ n \in 1 .. Len(shape.ts) /\ Len(shape.ts) \in Nat
        /\ \A i \in 1 .. n : \A r \in DOMAIN tables[i] : Len(tables[i][r]) = shape.ts[i].cols
        /\ \A i \in 1 .. n - 1 : tables[i] # <<>>
    BY <1>2 DEF TablesInv, IsOfNumbers
  <2>2. n \in Nat /\ DOMAIN tables = 1 .. n /\ n \in DOMAIN tables /\ n = Len(tables)
    BY <2>1
  <2> HIDE DEF n
  <2>5. n \in Nat
    BY <2>2
  <2>6. \A i \in 1 .. (n + 1) - 1 : i \in 1 .. n /\ (i = n \/ i \in 1 .. n - 1)
    BY <2>5
  <2>7. \A i \in 1 .. n - 1 : i \in 1 .. n /\ i # n
    BY <2>5
  <2>3. CASE AddRow
    <3>1. PICK row \in [1 .. shape.ts[n].cols -> shape.ts[n].values] : tables' = [tables EXCEPT ![n] = Append(@, row)]
      BY <2>2, <2>3 DEF AddRow, Reading
    <3>2. row \in Seq(Nat) /\ Len(row) = shape.ts[n].cols
      <4>1. shape.ts[n].cols \in Nat /\ shape.ts[n].values \subseteq Nat
        <5>1. shape.ts[n].cols \in 1 .. 9 /\ shape.ts[n].values \subseteq Nat
          BY <2>1 DEF IsOfNumbers
        <5> QED BY <5>1
      <4> DEFINE k == shape.ts[n].cols
      <4>2. k \in Nat /\ row \in [1 .. k -> Nat]
        BY <3>1, <4>1
      <4> HIDE DEF k
      <4>3. row \in Seq(Nat) /\ Len(row) = k
        BY <4>2
      <4> QED BY <4>3 DEF k
    <3> DEFINE t == Append(tables[n], row)
    <3>3. tables[n] \in Seq(Seq(Nat))
      BY <2>1, <2>2
    <3>4. t \in Seq(Seq(Nat)) /\ DOMAIN t = 1 .. Len(tables[n]) + 1 /\ Len(tables[n]) \in Nat /\ t # <<>>
      <4>1. t \in Seq(Seq(Nat)) /\ Len(t) = Len(tables[n]) + 1 /\ Len(tables[n]) \in Nat
        BY <3>2, <3>3
      <4> HIDE DEF t
      <4> QED BY <4>1
    <3>5. \A r \in DOMAIN t : Len(t[r]) = shape.ts[n].cols
      <4> SUFFICES ASSUME NEW r \in DOMAIN t PROVE Len(t[r]) = shape.ts[n].cols
        OBVIOUS
      <4>1. CASE r \in 1 .. Len(tables[n])
        <5>1. t[r] = tables[n][r] /\ r \in DOMAIN tables[n]
          BY <3>2, <3>3, <4>1
        <5> HIDE DEF t
        <5> QED BY <2>1, <2>2, <5>1
      <4>2. CASE r = Len(tables[n]) + 1
        <5>1. t[r] = row
          BY <3>2, <3>3, <4>2
        <5> QED BY <3>2, <5>1
      <4> QED BY <3>4, <4>1, <4>2
    <3>6. tables' = [tables EXCEPT ![n] = t]
      BY <3>1
    <3> HIDE DEF t
    <3>7. tables' \in Seq(Seq(Seq(Nat))) /\ Len(tables') = n /\ \A i \in 1 .. n : tables'[i] = IF i = n THEN t ELSE tables[i]
      BY <2>1, <2>2, <3>4, <3>6
    <3>8. \A i \in 1 .. n : \A r \in DOMAIN tables'[i] : Len(tables'[i][r]) = shape.ts[i].cols
      BY <2>1, <3>5, <3>7
    <3>9. \A i \in 1 .. n - 1 : tables'[i] # <<>>
      BY <2>1, <2>7, <3>7, Zenon
    <3> QED BY <1>2, <2>1, <3>7, <3>8, <3>9 DEF TablesInv
  <2>4. CASE AddTable
    <3>1. n < Len(shape.ts) /\ tables[n] # <<>> /\ tables' = Append(tables, <<>>)
      BY <2>2, <2>4 DEF AddTable, Reading
    <3>2. <<>> \in Seq(Seq(Nat))
      OBVIOUS
    <3>3. /\ tables' \in Seq(Seq(Seq(Nat))) /\ Len(tables') = n + 1
          /\ \A i \in 1 .. n : tables'[i] = tables[i]
          /\ tables'[n + 1] = <<>>
      BY <2>1, <2>2, <3>1, <3>2
    <3>4. ASSUME NEW i \in 1 .. n + 1, NEW r \in DOMAIN tables'[i] PROVE Len(tables'[i][r]) = shape.ts[i].cols
      <4>1. CASE i = n + 1
        <5>1. DOMAIN tables'[i] = 1 .. 0
          BY <3>3, <4>1
        <5> QED BY <5>1
      <4>2. CASE i \in 1 .. n
        BY <2>1, <3>3, <4>2
      <4> QED BY <2>2, <4>1, <4>2
    <3>5. \A i \in 1 .. (n + 1) - 1 : tables'[i] # <<>>
      <4> SUFFICES ASSUME NEW i \in 1 .. (n + 1) - 1 PROVE tables'[i] # <<>>
        OBVIOUS
      <4>1. i \in 1 .. n /\ (i = n \/ i \in 1 .. n - 1)
        BY <2>6
      <4> QED BY <2>1, <3>1, <3>3, <4>1, Zenon
    <3>6. n + 1 \in 1 .. Len(shape.ts)
      BY <2>1, <2>2, <3>1
    <3> QED BY <1>2, <2>1, <3>3, <3>4, <3>5, <3>6 DEF TablesInv
  <2> QED BY <1>2, <2>3, <2>4
<1>3. CASE shape' = shape /\ shape.part \notin NumberParts
  BY <1>3 DEF TablesInv
<1> QED BY <1>1, <1>2, <1>3 DEF DiscoveryNext, inputVars

(* What is read is what the miners are right on.                           *)
LEMMA TablesAreTables ==
  ASSUME TablesInv, shape.part \in NumberParts, Read(shape.part)
  PROVE  AreTables(tables) /\ \A i \in DOMAIN tables : Len(tables[i][1]) <= 9
<1>1. /\ IsOfNumbers(shape)
      /\ tables \in Seq(Seq(Seq(Nat))) /\ Len(tables) = Len(shape.ts) /\ Len(shape.ts) \in Nat \ {0}
      /\ \A i \in 1 .. Len(tables) : \A r \in DOMAIN tables[i] : Len(tables[i][r]) = shape.ts[i].cols
      /\ \A i \in 1 .. Len(tables) - 1 : tables[i] # <<>>
      /\ tables[Len(tables)] # <<>>
  BY DEF TablesInv, Read, Reading, IsOfNumbers
<1>2. DOMAIN tables = 1 .. Len(tables) /\ tables # <<>>
  BY <1>1
<1>3. ASSUME NEW i \in DOMAIN tables
      PROVE  /\ tables[i] # <<>> /\ 1 \in DOMAIN tables[i] /\ Len(tables[i][1]) = shape.ts[i].cols
             /\ shape.ts[i].cols \in 1 .. 9
  <2>1. tables[i] # <<>>
    BY <1>1, <1>2
  <2>2. tables[i] \in Seq(Seq(Nat))
    BY <1>1
  <2>3. 1 \in DOMAIN tables[i]
    BY <2>1, <2>2
  <2>4. shape.ts[i].cols \in 1 .. 9
    BY <1>1, <1>2 DEF IsOfNumbers
  <2> QED BY <1>1, <1>2, <2>1, <2>3, <2>4
<1>4. \A i \in DOMAIN tables : \A r \in DOMAIN tables[i] : Len(tables[i][r]) = Len(tables[i][1])
  BY <1>1, <1>2, <1>3
<1>5. AreTables(tables)
  BY <1>1, <1>2, <1>3, <1>4 DEF AreTables
<1> QED BY <1>3, <1>5

(* Spider and Mind find the inclusion dependencies of the tables: of those *)
(* of every instance, since they do of all tables.                         *)
THEOREM IndsAreAlwaysRight == DiscoverySpec => []IndsAreRight
<1>1. TablesInv => IndsAreRight
  <2> SUFFICES ASSUME TablesInv, Read("inds") PROVE IndsAreRightIn(tables)
    BY DEF IndsAreRight
  <2>1. AreTables(tables) /\ \A i \in DOMAIN tables : Len(tables[i][1]) <= 9
    BY TablesAreTables DEF Read, NumberParts
  <2> QED BY <2>1, SpiderIsAlwaysRight, MindIsAlwaysRight DEF IndsAreRightIn
<1> QED BY <1>1, TablesStart, TablesStay, PTL DEF DiscoverySpec

(* The cells of a row of numbers are numbers.                              *)
LEMMA CellsAreNumbers ==
  ASSUME NEW n \in Nat, NEW t \in Seq(Seq(Nat)), \A r \in DOMAIN t : Len(t[r]) = n
  PROVE  \A r \in DOMAIN t : \A c \in 1 .. n : t[r][c] \in Int
<1> TAKE r \in DOMAIN t
<1> TAKE c \in 1 .. n
<1> DEFINE row == t[r]
<1>1. row \in Seq(Nat) /\ Len(row) = n
  OBVIOUS
<1> HIDE DEF row
<1>2. row[c] \in Nat
  BY <1>1, ElementOfSeq
<1> QED BY <1>2 DEF row

(* The verifiers are right about the table that is read, as about any.     *)
LEMMA PairsAreAlwaysVerified ==
  ASSUME NEW t \in Seq(Seq(Nat)), \A r \in DOMAIN t : Len(t[r]) = 2
  PROVE  PairsAreVerified(t)
<1>1. IsARows(t)
  BY DEF IsARows
<1>2. /\ {1} \in SUBSET Int /\ IsFiniteSet({1}) /\ {1} # {} /\ {2} \in SUBSET Int /\ IsFiniteSet({2}) /\ {2} # {}
      /\ {1, 2} \in SUBSET Int /\ IsFiniteSet({1, 2}) /\ {1, 2} # {}
  <2>1. 1 \in Int /\ 2 \in Int
    OBVIOUS
  <2>2. {1} \in SUBSET Int /\ IsFiniteSet({1}) /\ {1} # {}
    BY <2>1, FewNumbers, Zenon
  <2>3. {2} \in SUBSET Int /\ IsFiniteSet({2}) /\ {2} # {}
    BY <2>1, FewNumbers, Zenon
  <2>4. {1, 2} \in SUBSET Int /\ IsFiniteSet({1, 2}) /\ {1, 2} # {}
    BY <2>1, FewNumbers, Zenon
  <2> QED BY <2>2, <2>3, <2>4
<1>3. \A r \in DOMAIN t : t[r][1] \in Int /\ t[r][2] \in Int
  BY CellsAreNumbers
<1>4. /\ VE!FdIsRight(t, {1}, {2}) /\ VE!UccIsRight(t, {1}) /\ VE!UccIsRight(t, {1, 2}) /\ VE!PfdIsRight(t, {1}, {2})
  BY <1>1, <1>2, FdIsAlwaysRight, UccIsAlwaysRight, PfdIsAlwaysRight
<1>5. ASSUME NEW equal \in BOOLEAN PROVE VE!NdIsRight(t, <<1>>, <<2>>, equal)
  BY <1>1, NdIsAlwaysRight
<1>6. ASSUME NEW c \in {1, 2}, NEW d \in {1, 2}, NEW low \in Nat, NEW high \in Int
      PROVE  AreBounds(t, <<Bounds(c, low, high), Bounds(d, low, high)>>)
  <2>1. \A e \in {c, d} : /\ Bounds(e, low, high).low \in Nat /\ Bounds(e, low, high).high \in Int
                          /\ \A r \in DOMAIN t : t[r][Bounds(e, low, high).column] \in Int
    BY <1>3 DEF Bounds
  <2>2. VE!ToSet(<<Bounds(c, low, high), Bounds(d, low, high)>>) = {Bounds(c, low, high), Bounds(d, low, high)}
    BY DEF VE!ToSet
  <2> QED BY <2>1, <2>2 DEF AreBounds
<1>7. ASSUME NEW c \in {1, 2}, NEW low \in Nat, NEW high \in Int PROVE AreBounds(t, <<Bounds(c, low, high)>>)
  <2>1. /\ Bounds(c, low, high).low \in Nat /\ Bounds(c, low, high).high \in Int
        /\ \A r \in DOMAIN t : t[r][Bounds(c, low, high).column] \in Int
    BY <1>3 DEF Bounds
  <2>2. VE!ToSet(<<Bounds(c, low, high)>>) = {Bounds(c, low, high)}
    BY DEF VE!ToSet
  <2> QED BY <2>1, <2>2 DEF AreBounds
<1>8. VE!DdIsRight(t, <<Bounds(1, 0, 1)>>, <<Bounds(2, 0, 1)>>)
  <2>1. AreBounds(t, <<Bounds(1, 0, 1)>>) /\ AreBounds(t, <<Bounds(2, 0, 1)>>)
    BY <1>7
  <2> QED BY <2>1, DdIsAlwaysRight
<1>9. VE!DdIsRight(t, <<Bounds(1, 1, 2)>>, <<Bounds(2, 1, 1), Bounds(1, 1, 1)>>)
  <2>1. AreBounds(t, <<Bounds(1, 1, 2)>>)
    BY <1>7
  <2>2. AreBounds(t, <<Bounds(2, 1, 1), Bounds(1, 1, 1)>>)
    BY <1>6
  <2> QED BY <2>1, <2>2, DdIsAlwaysRight
<1>10. ASSUME NEW v \in ConstantsOf, NEW w \in ConstantsOf PROVE VE!CfdIsRight(t, {VE!Item(1, v)}, VE!Item(2, w))
  <2>1. \A r \in DOMAIN t : t[r][VE!Item(2, w).column] \in Int
    BY <1>3 DEF VE!Item
  <2> QED BY <1>1, <2>1, CfdIsAlwaysRight
<1>11. VE!ArIsRight(t, {1}, {2}) /\ VE!ArIsRight(t, {1, 2}, {})
  BY ArIsAlwaysRight
<1> QED BY <1>4, <1>5, <1>8, <1>9, <1>10, <1>11 DEF PairsAreVerified

(* And of three columns.                                                   *)
LEMMA TriplesAreAlwaysVerified ==
  ASSUME NEW t \in Seq(Seq(Nat)), \A r \in DOMAIN t : Len(t[r]) = 3
  PROVE  TriplesAreVerified(t)
<1>1. IsARows(t)
  BY DEF IsARows
<1>2. /\ {1} \in SUBSET Int /\ IsFiniteSet({1}) /\ {1} # {} /\ {3} \in SUBSET Int /\ IsFiniteSet({3}) /\ {3} # {}
      /\ {1, 2} \in SUBSET Int /\ IsFiniteSet({1, 2}) /\ {1, 2} # {}
      /\ {2, 3} \in SUBSET Int /\ IsFiniteSet({2, 3}) /\ {2, 3} # {}
  <2>1. 1 \in Int /\ 2 \in Int /\ 3 \in Int
    OBVIOUS
  <2>2. {1} \in SUBSET Int /\ IsFiniteSet({1}) /\ {1} # {}
    BY <2>1, FewNumbers, Zenon
  <2>3. {3} \in SUBSET Int /\ IsFiniteSet({3}) /\ {3} # {}
    BY <2>1, FewNumbers, Zenon
  <2>4. {1, 2} \in SUBSET Int /\ IsFiniteSet({1, 2}) /\ {1, 2} # {}
    BY <2>1, FewNumbers, Zenon
  <2>5. {2, 3} \in SUBSET Int /\ IsFiniteSet({2, 3}) /\ {2, 3} # {}
    BY <2>1, FewNumbers, Zenon
  <2> QED BY <2>2, <2>3, <2>4, <2>5
<1>3. \A r \in DOMAIN t : t[r][3] \in Int
  BY CellsAreNumbers
<1>4. VE!FdIsRight(t, {1, 2}, {3}) /\ VE!FdIsRight(t, {1}, {2, 3}) /\ VE!PfdIsRight(t, {1}, {2, 3})
  BY <1>1, <1>2, FdIsAlwaysRight, PfdIsAlwaysRight
<1>5. ASSUME NEW equal \in BOOLEAN PROVE VE!NdIsRight(t, <<1, 2>>, <<3>>, equal)
  BY <1>1, NdIsAlwaysRight
<1>6. ASSUME NEW v \in ConstantsOf, NEW w \in ConstantsOf
      PROVE  VE!CfdIsRight(t, {VE!Item(1, v), VE!Item(2, w)}, VE!Item(3, VE!Wildcard))
  <2>1. \A r \in DOMAIN t : t[r][VE!Item(3, VE!Wildcard).column] \in Int
    BY <1>3 DEF VE!Item
  <2> QED BY <1>1, <2>1, CfdIsAlwaysRight
<1> QED BY <1>4, <1>5, <1>6 DEF TriplesAreVerified

(* What the verifiers of functional, unique, probabilistic, numerical,     *)
(* differential and conditional dependencies and of association rules say  *)
(* of the tables that are read is so.                                      *)
THEOREM VerifiersAreAlwaysRight == DiscoverySpec => []VerifiersAreRight
<1>1. TablesInv => VerifiersAreRight
  <2> SUFFICES ASSUME TablesInv, Read("verify")
               PROVE  IF Columns(tables[1]) = 2 THEN PairsAreVerified(tables[1]) ELSE TriplesAreVerified(tables[1])
    BY DEF VerifiersAreRight
  <2>1. AreTables(tables)
    BY TablesAreTables DEF Read, NumberParts
  <2>2. tables[1] \in Seq(Seq(Nat)) /\ 1 \in DOMAIN tables /\ DOMAIN tables[1] # {}
    <3>1. tables \in Seq(Seq(Seq(Nat))) /\ tables # <<>>
      BY <2>1 DEF AreTables
    <3>2. 1 \in DOMAIN tables
      BY <3>1
    <3>3. tables[1] \in Seq(Seq(Nat)) /\ tables[1] # <<>>
      BY <2>1, <3>1, <3>2 DEF AreTables
    <3> DEFINE t == tables[1]
    <3> HIDE DEF t
    <3>4. DOMAIN t # {}
      <4>1. t \in Seq(Seq(Nat)) /\ t # <<>>
        BY <3>3 DEF t
      <4>2. DOMAIN t = 1 .. Len(t) /\ Len(t) \in Nat /\ Len(t) # 0
        BY <4>1, EmptySeq
      <4> QED BY <4>2
    <3> QED BY <3>2, <3>3, <3>4 DEF t
  <2>3. /\ \A r \in DOMAIN tables[1] : Len(tables[1][r]) = shape.ts[1].cols
        /\ shape.ts[1].cols \in {2, 3}
    BY <2>2 DEF TablesInv, IsOfNumbers, Read, NumberParts
  <2>4. Columns(tables[1]) = shape.ts[1].cols
    BY <2>2, <2>3 DEF Columns
  <2>5. CASE shape.ts[1].cols = 2
    BY <2>2, <2>3, <2>4, <2>5, PairsAreAlwaysVerified
  <2>6. CASE shape.ts[1].cols = 3
    BY <2>2, <2>3, <2>4, <2>6, TriplesAreAlwaysVerified
  <2> QED BY <2>3, <2>5, <2>6
<1> QED BY <1>1, TablesStart, TablesStay, PTL DEF DiscoverySpec
=============================================================================
