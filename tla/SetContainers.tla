--------------------------- MODULE SetContainers ---------------------------
(***************************************************************************)
(* What the algorithms keep sets of columns in: model::Bitset              *)
(* (src/src/core/model/types/bitset.h), model::VerticalMap (model/table/   *)
(* vertical_map.{h,cpp}), a map from sets to values, and the search tree   *)
(* of EulerFD (algorithms/fd/eulerfd/search_tree.cpp; AID-FD's is a copy   *)
(* of it).  A word of a bitset is the set of its bits that are 1.  Below   *)
(* the last line is what they stand for, by definition.                    *)
(***************************************************************************)
EXTENDS Integers, Sequences, FiniteSets, FiniteSetsExt, SequencesExt

CONSTANT BitsPerWord     \* 64 in the code
-----------------------------------------------------------------------------
(* BaseBitset.  Words are numbered from 0.                                 *)
AllBits == 0 .. BitsPerWord - 1
BitsetWords(n) == n \div BitsPerWord + (IF n % BitsPerWord = 0 THEN 0 ELSE 1)
WordIndices(n) == 0 .. BitsetWords(n) - 1
WhichWord(pos) == pos \div BitsPerWord
MaskBit(pos) == {pos % BitsPerWord}
Left(word, shift) == {b + shift : b \in word} \cap AllBits
Right(word, shift) == {b - shift : b \in word} \cap AllBits
Xor(v, w) == (v \ w) \cup (w \ v)
Low(word) == Min(word)                   \* std::countr_zero

BaseBitset(n) == [bits |-> n, words |-> [i \in WordIndices(n) |-> {}]]
NumWords(x) == BitsetWords(x.bits)
HiWord(x) == NumWords(x) - 1
Wordwise(x, Word(_)) == [x EXCEPT !.words = [i \in DOMAIN @ |-> Word(i)]]
DoAnd(x, y) == Wordwise(x, LAMBDA i : x.words[i] \cap y.words[i])
DoOr(x, y) == Wordwise(x, LAMBDA i : x.words[i] \cup y.words[i])
DoXor(x, y) == Wordwise(x, LAMBDA i : Xor(x.words[i], y.words[i]))
DoFlip(x) == Wordwise(x, LAMBDA i : AllBits \ x.words[i])
DoSet(x) == Wordwise(x, LAMBDA i : AllBits)
DoReset(x) == Wordwise(x, LAMBDA i : {})

DoLeftShift(x, shift) ==
  LET wshift == WhichWord(shift)
      offset == shift % BitsPerWord
  IN Wordwise(x, LAMBDA i : IF i < wshift THEN {}
                            ELSE Left(x.words[i - wshift], offset) \cup
                                 (IF i = wshift THEN {} ELSE Right(x.words[i - wshift - 1], BitsPerWord - offset)))
(* The last word that gets bits is written in every round of the loop, in  *)
(* place: not at all when there is no round.                               *)
ShiftInPlace(words, wshift, offset, limit, last) ==
  FoldLeft(LAMBDA w, i : [w EXCEPT ![i] = Right(w[i + wshift], offset)
                                          \cup Left(w[i + wshift + 1], BitsPerWord - offset),
                                   ![limit] = Right(w[last], offset)],
           words, [k \in 1 .. limit |-> k - 1])
DoRightShift(x, shift) ==
  LET wshift == WhichWord(shift)
      offset == shift % BitsPerWord
      limit == NumWords(x) - wshift - 1
      words == IF offset = 0 THEN [i \in DOMAIN x.words |-> IF i <= limit THEN x.words[i + wshift] ELSE x.words[i]]
               ELSE ShiftInPlace(x.words, wshift, offset, limit, HiWord(x))
  IN IF NumWords(x) <= 1 THEN Wordwise(x, LAMBDA i : Right(x.words[i], shift))
     ELSE IF shift = 0 THEN x
     ELSE Wordwise(x, LAMBDA i : IF i > limit THEN {} ELSE words[i])

DoFindFirst(x) ==
  LET found == {i \in DOMAIN x.words : x.words[i] # {}}
  IN IF found = {} THEN x.bits ELSE Min(found) * BitsPerWord + Low(x.words[Min(found)])
DoFindNext(x, prev) ==
  LET pos == prev + 1
      first == WhichWord(pos)
      from == Left(AllBits, pos % BitsPerWord)
      masked == [i \in first .. HiWord(x) |-> IF i = first THEN x.words[i] \cap from ELSE x.words[i]]
      found == {i \in DOMAIN masked : masked[i] # {}}
  IN IF pos >= NumWords(x) * BitsPerWord \/ found = {} THEN x.bits
     ELSE Min(found) * BitsPerWord + Low(masked[Min(found)])
AreAll(x) ==
  /\ \A i \in DOMAIN x.words : i < HiWord(x) => x.words[i] = AllBits
  /\ x.bits > 0 => x.words[HiWord(x)] = Right(AllBits, NumWords(x) * BitsPerWord - x.bits)
IsAny(x) == \E i \in DOMAIN x.words : x.words[i] # {}
DoCount(x) == FoldLeft(LAMBDA sum, i : sum + Cardinality(x.words[i]), 0, [k \in 1 .. NumWords(x) |-> k - 1])
(* The number as the set of its bits, or the exception.                    *)
DoToULong(x) ==
  IF \E i \in DOMAIN x.words : i > 0 /\ x.words[i] # {} THEN "overflow_error"
  ELSE IF NumWords(x) = 0 THEN {} ELSE x.words[0]
HashCode(x) == FoldLeft(LAMBDA hash, i : Xor(hash, x.words[i]), {}, [k \in 1 .. NumWords(x) |-> k - 1])
-----------------------------------------------------------------------------
(* BitsetImpl.  A position out of range throws.                            *)
DoSanitize(x) ==
  IF x.bits % BitsPerWord = 0 THEN x
  ELSE [x EXCEPT !.words[HiWord(x)] = @ \ Left(AllBits, x.bits % BitsPerWord)]
FromULong(n, val) ==
  IF n = 0 THEN BaseBitset(0)
  ELSE [BaseBitset(n) EXCEPT !.words[0] = IF n < BitsPerWord THEN val \ Left(AllBits, n) ELSE val]
ShiftLeftBy(x, position) == IF position < x.bits THEN DoSanitize(DoLeftShift(x, position)) ELSE DoReset(x)
ShiftRightBy(x, position) == IF position < x.bits THEN DoRightShift(x, position) ELSE DoReset(x)
UncheckedSet(x, pos, val) ==
  [x EXCEPT !.words[WhichWord(pos)] = IF val THEN @ \cup MaskBit(pos) ELSE @ \ MaskBit(pos)]
UncheckedFlip(x, pos) == [x EXCEPT !.words[WhichWord(pos)] = Xor(@, MaskBit(pos))]
UncheckedTest(x, pos) == x.words[WhichWord(pos)] \cap MaskBit(pos) # {}
Checked(x, pos, result) == IF pos >= x.bits THEN "out_of_range" ELSE result
SetAll(x) == DoSanitize(DoSet(x))
SetBit(x, pos, val) == Checked(x, pos, UncheckedSet(x, pos, val))
ResetBit(x, pos) == Checked(x, pos, UncheckedSet(x, pos, FALSE))
FlipAll(x) == DoSanitize(DoFlip(x))
FlipBit(x, pos) == Checked(x, pos, UncheckedFlip(x, pos))
Test(x, pos) == Checked(x, pos, UncheckedTest(x, pos))

(* Characters, the highest bit first; at most n of them from position pos. *)
CopyFromPtr(bits, s, pos, n) ==
  LET nbits == Min({bits, n, Len(s) - pos})
      read == SubSeq(s, pos + 1, pos + nbits)
  IN IF \E k \in DOMAIN read : read[k] \notin {"0", "1"} THEN "invalid_argument"
     ELSE FoldLeft(LAMBDA x, k : IF read[k] = "1" THEN UncheckedSet(x, nbits - k, TRUE) ELSE x,
                   BaseBitset(bits), [k \in 1 .. nbits |-> k])
FromString(bits, s, pos, n) == IF pos > Len(s) THEN "out_of_range" ELSE CopyFromPtr(bits, s, pos, n)
RECURSIVE Ones(_, _)
Ones(x, n) == IF n >= x.bits THEN {} ELSE {n} \cup Ones(x, DoFindNext(x, n))
CopyToString(x) ==
  LET ones == Ones(x, DoFindFirst(x)) IN [k \in 1 .. x.bits |-> IF x.bits - k \in ones THEN "1" ELSE "0"]
(* operator>>: the characters read, the bitset, and the state of the       *)
(* stream.  Another character is put back and read again, until the loop   *)
(* is through.                                                             *)
Extract(x, stream) ==
  LET others == {k \in DOMAIN stream : stream[k] \notin {"0", "1"}}
      len == Min({x.bits} \cup {k - 1 : k \in others \cup {Len(stream) + 1}})
  IN [x |-> IF len > 0 THEN CopyFromPtr(x.bits, SubSeq(stream, 1, len), 0, len) ELSE x, read |-> len,
      state |-> (IF len < x.bits /\ len = Len(stream) THEN {"eof"} ELSE {}) \cup
                (IF len = 0 /\ x.bits > 0 THEN {"fail"} ELSE {})]
-----------------------------------------------------------------------------
(* VerticalMap.  A SetTrie is its nodes, each the set of the bits on its   *)
(* path (ascending), and the values of those that have one.  shared_ptrs   *)
(* to values are the values.                                               *)
EmptyMap == [size |-> 0, nodes |-> {{}}, values |-> [key \in {} |-> 0]]
Rest(node, key) == {i \in key : \A j \in node : j < i}
Keys(map) == DOMAIN map.values
Without(map, key) == [map EXCEPT !.values = [k \in DOMAIN @ \ {key} |-> @[k]]]

(* The children of a node, by their bits in ascending order.               *)
Subtries(map, node) ==
  SetToSortSeq({i \in UNION map.nodes : i \in Rest(node, UNION map.nodes) /\ node \cup {i} \in map.nodes}, <)
IsEmptyTrie(map, node) == node \in Keys(map) /\ Subtries(map, node) = <<>>

GetOrCreateSubTrie(map, key) == map.nodes \cup {key} \cup {{j \in key : j < i} : i \in key}
Associate(map, key, value) ==
  [map EXCEPT !.nodes = GetOrCreateSubTrie(map, key),
              !.values = [k \in Keys(map) \cup {key} |-> IF k = key THEN value ELSE @[k]]]
Put(map, key, value) ==
  [Associate(map, key, value) EXCEPT !.size = IF key \in Keys(map) THEN @ ELSE @ + 1]
Get(map, key) == IF key \in Keys(map) THEN {map.values[key]} ELSE {}

RECURSIVE RemoveKey(_, _, _)
RemoveKey(map, key, node) ==
  LET next == node \cup {Min(Rest(node, key))}
      removed == RemoveKey(map, key, next)
  IN IF Rest(node, key) = {} THEN Without(map, node)
     ELSE IF next \notin map.nodes THEN map
     ELSE IF IsEmptyTrie(removed, next) THEN [Without(removed, next) EXCEPT !.nodes = @ \ {next}]
     ELSE removed
RemoveEntry(map, key) == [RemoveKey(map, key, {}) EXCEPT !.size = IF key \in Keys(map) THEN @ - 1 ELSE @]

(* The keys that a search hands to its collector, in this order: from the  *)
(* values on, the entries.                                                 *)
RECURSIVE CollectSubsetKeys(_, _, _)
CollectSubsetKeys(map, key, node) ==
  (IF node \in Keys(map) THEN <<node>> ELSE <<>>) \o
  FlattenSeq([k \in DOMAIN Subtries(map, node) |->
                LET i == Subtries(map, node)[k]
                IN IF i \in key THEN CollectSubsetKeys(map, key, node \cup {i}) ELSE <<>>])
RECURSIVE CollectRestrictedSupersetKeys(_, _, _, _)
CollectRestrictedSupersetKeys(map, key, blacklist, node) ==
  LET rest == Rest(node, key)
  IN (IF rest = {} /\ node \in Keys(map) THEN <<node>> ELSE <<>>) \o
     FlattenSeq([k \in DOMAIN Subtries(map, node) |->
                   LET i == Subtries(map, node)[k]
                   IN IF (rest = {} \/ i <= Min(rest)) /\ i \notin blacklist
                      THEN CollectRestrictedSupersetKeys(map, key, blacklist, node \cup {i}) ELSE <<>>])
CollectSupersetKeys(map, key) == CollectRestrictedSupersetKeys(map, key, {}, {})
TraverseEntries(map) == CollectRestrictedSupersetKeys(map, {}, {}, {})
GetSubsetKeys(map, key) == CollectSubsetKeys(map, key, {})
GetSupersetKeys(map, key) == CollectSupersetKeys(map, key)
GetRestrictedSupersetKeys(map, key, exclusion) ==
  IF key \cap exclusion # {} THEN "runtime_error" ELSE CollectRestrictedSupersetKeys(map, key, exclusion, {})
(* The first key found whose value satisfies a condition, none if there is *)
(* none.                                                                   *)
AnyOf(map, keys, condition) ==
  LET fits == {k \in DOMAIN keys : map.values[keys[k]] \in condition} IN IF fits = {} THEN {} ELSE {keys[Min(fits)]}
GetAnySubsetEntry(map, key, condition) == AnyOf(map, GetSubsetKeys(map, key), condition)
GetAnySupersetEntry(map, key, condition) == AnyOf(map, GetSupersetKeys(map, key), condition)
RemoveKeys(map, keys) == FoldLeft(LAMBDA m, key : RemoveEntry(m, key), map, keys)
RemoveSupersetEntries(map, key) == RemoveKeys(map, GetSupersetKeys(map, key))
RemoveSubsetEntries(map, key) == RemoveKeys(map, GetSubsetKeys(map, key))
KeySet(map) == TraverseEntries(map)
-----------------------------------------------------------------------------
(* SearchTreeEulerFD.  An inner node has the union and the intersection of *)
(* the sets below it, and the first bit in which they differ: those that   *)
(* have it are on its right.                                               *)
NPos == 64
FindFirst(set) == IF set = {} THEN NPos ELSE Min(set)
EmptyTree == [cardinality |-> 0, root |-> <<>>]
Leaf(set) == [leaf |-> TRUE, set |-> set, union |-> set, inter |-> set]
Inner(bit, left, right) ==
  [leaf |-> FALSE, bit |-> bit, left |-> left, right |-> right,
   union |-> left.union \cup right.union, inter |-> left.inter \cap right.inter]

InsertLeafIntoEnd(node, set) ==
  LET node_bit == FindFirst(node.set \ set)
      set_bit == FindFirst(set \ node.set)
  IN IF node_bit < set_bit THEN Inner(node_bit, Leaf(set), node) ELSE Inner(set_bit, node, Leaf(set))
InsertLeafIntoMiddle(node, set, set_bit) ==
  IF set_bit \in set THEN Inner(set_bit, node, Leaf(set)) ELSE Inner(set_bit, Leaf(set), node)
RECURSIVE AddBelow(_, _, _)
AddBelow(node, set, prev_node_bit) ==
  IF node.leaf THEN IF node.set = set THEN node ELSE InsertLeafIntoEnd(node, set)
  ELSE LET differ == {b \in prev_node_bit .. node.bit - 1 : (b \in set) # (b \in node.union)}
       IN IF differ # {} THEN InsertLeafIntoMiddle(node, set, Min(differ))
          ELSE IF node.bit \in set THEN Inner(node.bit, node.left, AddBelow(node.right, set, node.bit + 1))
          ELSE Inner(node.bit, AddBelow(node.left, set, node.bit + 1), node.right)

RECURSIVE FindNode(_, _)
FindNode(node, set) ==
  IF node.leaf THEN node.set = set
  ELSE /\ set \subseteq node.union /\ node.inter \subseteq set
       /\ FindNode(IF node.bit \in set THEN node.right ELSE node.left, set)
RECURSIVE CutLeaf(_, _)
CutLeaf(node, set) ==
  LET child == IF node.bit \in set THEN node.right ELSE node.left
      another_child == IF node.bit \in set THEN node.left ELSE node.right
  IN IF child.leaf THEN another_child
     ELSE IF node.bit \in set THEN Inner(node.bit, node.left, CutLeaf(child, set))
     ELSE Inner(node.bit, CutLeaf(child, set), node.right)

HasSet(tree, set) == tree.root # <<>> /\ FindNode(tree.root[1], set)
AddSet(tree, set) ==
  LET root == IF tree.root = <<>> THEN Leaf(set) ELSE AddBelow(tree.root[1], set, 0)
  IN [cardinality |-> tree.cardinality + (IF <<root>> = tree.root THEN 0 ELSE 1), root |-> <<root>>]
RemoveSet(tree, set) ==
  IF ~HasSet(tree, set) THEN tree
  ELSE [cardinality |-> tree.cardinality - 1,
        root |-> IF tree.root[1].leaf THEN <<>> ELSE <<CutLeaf(tree.root[1], set)>>]

RECURSIVE CollectSubsets(_, _)
CollectSubsets(node, set) ==
  IF node.leaf THEN IF node.set \subseteq set THEN {node.set} ELSE {}
  ELSE IF ~(node.inter \subseteq set) THEN {}
  ELSE CollectSubsets(node.left, set) \cup (IF node.bit \in set THEN CollectSubsets(node.right, set) ELSE {})
RECURSIVE SupersetsTraverse(_, _)
SupersetsTraverse(node, set) ==
  IF node.leaf THEN set \subseteq node.set
  ELSE set \subseteq node.union /\ (SupersetsTraverse(node.left, set) \/ SupersetsTraverse(node.right, set))
RECURSIVE SetsBelow(_)
SetsBelow(node) == IF node.leaf THEN {node.set} ELSE SetsBelow(node.left) \cup SetsBelow(node.right)
ForEach(tree) == IF tree.root = <<>> THEN {} ELSE SetsBelow(tree.root[1])
ForEachSubset(tree, set) == IF tree.root = <<>> THEN {} ELSE CollectSubsets(tree.root[1], set)
ContainsAnySubsetOf(tree, set) == ForEachSubset(tree, set) # {}
ContainsAnySupersetOf(tree, set) == tree.root # <<>> /\ SupersetsTraverse(tree.root[1], set)
-----------------------------------------------------------------------------
(* The set of positions a bitset stands for, and one from such a set.      *)
Positions(x) == {pos \in 0 .. x.bits - 1 : UncheckedTest(x, pos)}
Bitset(n, set) == FoldSet(LAMBDA pos, x : UncheckedSet(x, pos, TRUE), BaseBitset(n), set)
Is(x, n, set) == x = Bitset(n, set)
FirstFrom(set, n, pos) == Min({n} \cup {p \in set : p >= pos})
(* DoRightShift is right when its loop has one round, or none because no   *)
(* bits move from word to word.                                            *)
RightShiftWorks(n, shift) ==
  BitsetWords(n) = 1 \/ shift % BitsPerWord = 0 \/ BitsetWords(n) - WhichWord(shift) = 2

PairIsRight(n, a, b) ==
  LET x == Bitset(n, a)
      y == Bitset(n, b)
  IN /\ Is(DoAnd(x, y), n, a \cap b) /\ Is(DoOr(x, y), n, a \cup b) /\ Is(DoXor(x, y), n, Xor(a, b))
     /\ x = y <=> a = b
PositionIsRight(n, a, pos) ==
  LET x == Bitset(n, a)
      In(result, set) == IF pos < n THEN Is(result, n, set) ELSE result = "out_of_range"
  IN /\ In(SetBit(x, pos, TRUE), a \cup {pos}) /\ In(SetBit(x, pos, FALSE), a \ {pos})
     /\ In(ResetBit(x, pos), a \ {pos})
     /\ In(FlipBit(x, pos), Xor(a, {pos})) /\ Test(x, pos) = (IF pos < n THEN pos \in a ELSE "out_of_range")
     /\ DoFindNext(x, pos) = FirstFrom(a, n, pos + 1)
     /\ Is(ShiftLeftBy(x, pos), n, {p + pos : p \in a} \cap (0 .. n - 1))
     /\ pos < n /\ RightShiftWorks(n, pos) => Is(ShiftRightBy(x, pos), n, {p - pos : p \in a} \cap (0 .. n - 1))
WholeIsRight(n, a) ==
  LET x == Bitset(n, a)
      text == CopyToString(x)
  IN /\ Is(SetAll(x), n, 0 .. n - 1) /\ Is(FlipAll(x), n, (0 .. n - 1) \ a) /\ Is(DoReset(x), n, {})
     /\ AreAll(x) = (a = 0 .. n - 1) /\ IsAny(x) = (a # {}) /\ DoCount(x) = Cardinality(a)
     /\ DoFindFirst(x) = FirstFrom(a, n, 0)
     /\ HashCode(x) = {b \in AllBits : Cardinality({p \in a : p % BitsPerWord = b}) % 2 = 1}
     /\ DoToULong(x) = (IF \E p \in a : p >= BitsPerWord THEN "overflow_error" ELSE a)
     /\ Is(FromULong(n, a \cap AllBits), n, a \cap AllBits) /\ Is(FromULong(n, AllBits), n, AllBits \cap (0 .. n - 1))
     /\ FromString(n, text, 0, n) = x /\ Extract(BaseBitset(n), text \o <<"0">>) = [x |-> x, read |-> n, state |-> {}]
     /\ \A k \in 0 .. n - 1 : LET read == Extract(x, SubSeq(text, 1, k)).x
                             IN IF k = 0 THEN read = x ELSE Is(read, n, {p - (n - k) : p \in a} \cap (0 .. n - 1))

(* A history of Put and Remove, of keys that are there when removed, and   *)
(* of Add and Remove; the value of a key is the number of its last Put.    *)
Steps(history, op, key) == {k \in DOMAIN history : history[k] = [op |-> op, key |-> key]}
Present(history, n) ==
  LET LastTime(op, key) == Max({0} \cup (Steps(history, op, key) \cap (1 .. n)))
  IN {key \in {history[k].key : k \in 1 .. n} : LastTime("put", key) > LastTime("remove", key)}
RemovesWhatIsThere(history) ==
  \A k \in DOMAIN history : history[k].op = "remove" => history[k].key \in Present(history, k - 1)
LastPut(history, key) == Max(Steps(history, "put", key))
MapOf(history) ==
  FoldLeft(LAMBDA map, k : IF history[k].op = "put" THEN Put(map, history[k].key, k)
                           ELSE RemoveEntry(map, history[k].key),
           EmptyMap, [k \in DOMAIN history |-> k])
TreeOf(history) ==
  FoldLeft(LAMBDA tree, h : IF h.op = "put" THEN AddSet(tree, h.key) ELSE RemoveSet(tree, h.key), EmptyTree, history)
EachOnce(keys, set) == ToSet(keys) = set /\ Len(keys) = Cardinality(set)
MapHolds(map, keys) == EachOnce(KeySet(map), keys) /\ map.size = Cardinality(keys) /\ Keys(map) = keys
IsAnyOf(map, any, keys, condition) ==
  LET fit == {k \in keys : map.values[k] \in condition} IN any \subseteq fit /\ (any = {} <=> fit = {})
MapAnswers(map, keys, key, columns) ==
  LET subsets == {k \in keys : k \subseteq key}
      supersets == {k \in keys : key \subseteq k}
  IN /\ EachOnce(GetSubsetKeys(map, key), subsets) /\ EachOnce(GetSupersetKeys(map, key), supersets)
     /\ MapHolds(RemoveSubsetEntries(map, key), keys \ subsets)
     /\ MapHolds(RemoveSupersetEntries(map, key), keys \ supersets)
     /\ \A black \in SUBSET (columns \ key) :
          EachOnce(GetRestrictedSupersetKeys(map, key, black), {k \in supersets : k \cap black = {}})
     /\ \A condition \in {0 .. 2, 3 .. 4} :
          /\ IsAnyOf(map, GetAnySubsetEntry(map, key, condition), subsets, condition)
          /\ IsAnyOf(map, GetAnySupersetEntry(map, key, condition), supersets, condition)
MapIsRight(history, columns) ==
  LET map == MapOf(history)
      keys == Present(history, Len(history))
  IN RemovesWhatIsThere(history) =>
       /\ MapHolds(map, keys)
       /\ \A key \in SUBSET columns : /\ Get(map, key) = (IF key \in keys THEN {LastPut(history, key)} ELSE {})
                                      /\ MapAnswers(map, keys, key, columns)
TreeIsRight(history, columns) ==
  LET tree == TreeOf(history)
      sets == Present(history, Len(history))
  IN /\ tree.cardinality = Cardinality(sets) /\ ForEach(tree) = sets
     /\ \A set \in SUBSET columns :
          /\ ForEachSubset(tree, set) = {s \in sets : s \subseteq set} /\ HasSet(tree, set) = (set \in sets)
          /\ ContainsAnySubsetOf(tree, set) = (\E s \in sets : s \subseteq set)
          /\ ContainsAnySupersetOf(tree, set) = (\E s \in sets : set \subseteq s)

(* Every bitset of up to max_bits is what it stands for, and every         *)
(* operation on it does what it says.                                      *)
BitsetsAreRight(max_bits) ==
  \A n \in 0 .. max_bits : \A a \in SUBSET (0 .. n - 1) :
    /\ WholeIsRight(n, a) /\ \A b \in SUBSET (0 .. n - 1) : PairIsRight(n, a, b)
    /\ \A pos \in 0 .. n : PositionIsRight(n, a, pos)
=============================================================================
