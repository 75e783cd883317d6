-------------------------------- MODULE Tke --------------------------------
(***************************************************************************)
(* algos::tke::TKE (src/src/core/algorithms/fem/tke/tke.cpp): one object,  *)
(* its loaded sequence, and calls of Execute with different numbers of     *)
(* episodes and windows.  A miner's answer is any that TopKMiner's         *)
(* TopKIsRight allows it.                                                  *)
(***************************************************************************)
EXTENDS TkeEpisodes

CONSTANTS
  Databases,    \* what the stream may hold: nonempty sets of events
  Ks, Windows,  \* the values given to the two options
  MaxExecutes   \* bound: calls of Execute

ASSUME TkeAssumption ==
  /\ \A d \in Databases :
       d \in Seq((SUBSET Nat) \ {{}}) /\ (\A t \in DOMAIN d : IsFiniteSet(d[t])) /\ Len(d) <= SizeLimit
  /\ Ks \subseteq Nat \ {0} /\ Windows \subseteq Nat /\ MaxExecutes \in Nat

VARIABLES
  loaded,                    \* what load_data read
  event_sequence_, reverse_mapping_,
  top_k_frequent_episodes_,
  executes,                  \* calls of Execute so far
  asked                      \* the options of the last call
tkeVars == <<loaded, event_sequence_, reverse_mapping_, top_k_frequent_episodes_,
          executes, asked>>

Events(sequence) == UNION ToSet(sequence)
EventSupport(sequence, event) == Cardinality(LocationList(sequence, event))

(* A fault: one place too high.                                            *)
BugEventsMinSup(sequence, k) ==
  LET supports(n) == Cardinality({e \in Events(sequence) : EventSupport(sequence, e) >= n})
  IN IF Cardinality(Events(sequence)) > k
       THEN Max({n \in 1 .. Len(sequence) : supports(n) >= k - 1})
       ELSE 1

(* The k-th highest of the supports of the events.                         *)
EventsMinSup(sequence, k) ==
  LET supports(n) == Cardinality({e \in Events(sequence) : EventSupport(sequence, e) >= n})
  IN IF Cardinality(Events(sequence)) > k
       THEN Max({n \in 1 .. Len(sequence) : supports(n) >= k})
       ELSE 1

(* The frequent events, in order, take the numbers from 0 on; the others   *)
(* leave the sequence.                                                     *)
Frequent(sequence, minsup) ==
  Sorted({e \in Events(sequence) : EventSupport(sequence, e) >= minsup})
Renamed(sequence, reverse_mapping) ==
  [t \in DOMAIN sequence |->
     {i \in 0 .. Len(reverse_mapping) - 1 : reverse_mapping[i + 1] \in sequence[t]}]

(* Every parallel episode over the renamed events that occurs.             *)
OccurringEpisodes(sequence, events_num) ==
  LET lists == BuildLocationLists(sequence, events_num)
      found[n \in 1 .. events_num] ==
        IF n = 1 THEN ToSet(ParallelSeeds(lists, events_num))
        ELSE UNION {ToSet(ParallelExtensions(p, lists, events_num)) : p \in found[n - 1]}
  IN {p \in UNION {found[n] : n \in 1 .. events_num} : p.locations # {}}

(* Every composite episode over these parallel episodes that has the       *)
(* minimal support.  None is longer than the sequence.                     *)
CompositeEpisodes(parallel, minsup, window, length) ==
  LET found[n \in 1 .. length] ==
        IF n = 1 THEN ToSet(CompositeSeeds(parallel))
        ELSE UNION {ToSet(CompositeExtensions(c, parallel, minsup, window)) :
                      c \in {d \in found[n - 1] : Len(d.bounds) >= minsup}}
  IN {c \in UNION {found[n] : n \in 1 .. length} : Len(c.bounds) >= minsup}

(* A fault: the events keep their new numbers.                             *)
BugDecoded(composite, parallel, reverse_mapping) ==
  [blocks |-> [i \in DOMAIN composite.blocks |-> parallel[composite.blocks[i]].events],
   support |-> Len(composite.bounds)]

Decoded(composite, parallel, reverse_mapping) ==
  [blocks |-> [i \in DOMAIN composite.blocks |->
                 {reverse_mapping[e + 1] : e \in parallel[composite.blocks[i]].events}],
   support |-> Len(composite.bounds)]

(* ParallelTopKMiner's answer comes in descending order of support.        *)
Descending(eps) ==
  {s \in [1 .. Cardinality(eps) -> eps] :
     /\ ToSet(s) = eps
     /\ \A i, j \in DOMAIN s : i < j => Cardinality(s[i].locations) >= Cardinality(s[j].locations)}

(* The answers TopKIsRight allows a miner that is to find k members of S.  *)
Answers(S, k, support, least_support) ==
  IF Cardinality(S) <= k THEN {S}
  ELSE {T \in kSubset(k, S) :
          \A e \in T, f \in S \ T : least_support[f] <= support[e]}

ParallelSupport(eps) == [p \in eps |-> Cardinality(p.locations)]
BoundSupport(eps) == [c \in eps |-> Len(c.bounds)]
LeastBlockSupport(eps, parallel) ==
  [c \in eps |-> Min({Len(c.bounds)} \cup
                    {Cardinality(parallel[b].locations) : b \in ToSet(c.blocks)})]
----------------------------------------------------------------------------
(* load_data has been called.                                              *)
TkeInit ==
  /\ loaded \in Databases /\ event_sequence_ = loaded
  /\ reverse_mapping_ = <<>> /\ top_k_frequent_episodes_ = {}
  /\ executes = 0 /\ asked = None

Execute(k, window) ==
  LET frequent == Frequent(event_sequence_, EventsMinSup(event_sequence_, k))
      renamed == Renamed(event_sequence_, frequent)
      all == OccurringEpisodes(renamed, Len(frequent))
  IN
  /\ executes < MaxExecutes
  /\ executes' = executes + 1 /\ asked' = [k |-> k, window |-> window]
  /\ event_sequence_' = renamed /\ reverse_mapping_' = frequent
  /\ \E top \in Answers(all, k, ParallelSupport(all), ParallelSupport(all)) :
       LET parallel == CHOOSE s \in Descending(top) : TRUE
           minsup == IF Len(parallel) >= k
                       THEN Cardinality(Last(parallel).locations) ELSE 1
           composite == CompositeEpisodes(parallel, minsup, window, Len(event_sequence_))
       IN \E best \in Answers(composite, k, BoundSupport(composite),
                             LeastBlockSupport(composite, parallel)) :
            top_k_frequent_episodes_' =
              {Decoded(c, parallel, frequent) : c \in best}
  /\ UNCHANGED loaded

TkeNext == \E k \in Ks, window \in Windows : Execute(k, window)

TkeSpec == TkeInit /\ [][TkeNext]_tkeVars
----------------------------------------------------------------------------
(* All the composite episodes of the data that occur, with their supports. *)
Locations(block) == {t \in DOMAIN loaded : block \subseteq loaded[t]}
SupportOf(blocks) ==
  Cardinality(Starts([i \in DOMAIN blocks |-> Locations(blocks[i])],
                     DOMAIN loaded, asked.window))
AllEpisodes ==
  LET blocks == {b \in (SUBSET Events(loaded)) \ {{}} : Locations(b) # {}} IN
  {ep \in {[blocks |-> bs, support |-> SupportOf(bs)] :
             bs \in UNION {[1 .. n -> blocks] : n \in DOMAIN loaded}} : ep.support > 0}

(* Every episode reported occurs in the loaded data, as often as reported. *)
(* algorithm.h:31 says that ResetState is there "for Execute to run        *)
(* repeatedly with different configuration parameters on the same          *)
(* dataset"; Execute renames the events of the loaded sequence in place.   *)
SupportsAreExact == asked # None => top_k_frequent_episodes_ \subseteq AllEpisodes

(* The answer is exact, and complete up to the miners' pruning: infrequent *)
(* events are dropped first, blocks come from the best parallel episodes   *)
(* only, and yet an episode that is left out, and occurs more often than   *)
(* one that is reported, has a block that does not.                        *)
AnswerIsRight ==
  asked # None =>
    LET all == AllEpisodes
        others == all \ top_k_frequent_episodes_ IN
    /\ top_k_frequent_episodes_ \subseteq all
    /\ Cardinality(top_k_frequent_episodes_) <= asked.k
    /\ others # {} => Cardinality(top_k_frequent_episodes_) = asked.k
    /\ \A ep \in top_k_frequent_episodes_ :
         \A other \in {o \in others : o.support > ep.support} :
            \E i \in DOMAIN other.blocks :
               Cardinality(Locations(other.blocks[i])) <= ep.support
=============================================================================
