---------------------------- MODULE TkeEpisodes ----------------------------
(***************************************************************************)
(* The episodes of TKE (src/src/core/algorithms/fem/tke/model): parallel   *)
(* episodes, sets of events that occur at the same time, and composite     *)
(* episodes, sequences of parallel episodes inside a window.  A sorted     *)
(* list of timestamps is a set; a database is a sequence of event sets,    *)
(* one for each timestamp.                                                 *)
(***************************************************************************)
EXTENDS Integers, Sequences, FiniteSets, SequencesExt

CONSTANTS
  None,       \* std::nullopt
  SizeLimit   \* the values of size_t are 0 .. SizeLimit - 1

Bound == [start : Nat, end : Nat]
ASSUME SizeAssumption == SizeLimit \in Nat \ {0} /\ None \notin Seq(Bound)

LocationList(database, event) == {t \in DOMAIN database : event \in database[t]}
BuildLocationLists(database, events_num) ==
  [event \in 0 .. events_num - 1 |-> LocationList(database, event)]

(* A parallel episode is its event set and its location list.              *)
Merge(locations, other) == locations \cap other
ParallelExtension(ep, event, lists) ==
  [events |-> ep.events \cup {event}, locations |-> Merge(ep.locations, lists[event])]
ParallelSeeds(lists, events_num) ==
  [i \in 1 .. events_num |-> [events |-> {i - 1}, locations |-> lists[i - 1]]]
ParallelExtensions(ep, lists, events_num) ==
  LET start_event == Max(ep.events) + 1
  IN [i \in 1 .. events_num - start_event |->
        ParallelExtension(ep, start_event + i - 1, lists)]

(* A composite episode is its blocks and its bound list: the first and the *)
(* last timestamp of each of its occurrences, by first timestamp.          *)
Sorted(locations) ==
  [i \in 1 .. Cardinality(locations) |->
     CHOOSE t \in locations : Cardinality({u \in locations : u < t}) = i - 1]
BoundListOf(locations) ==
  [i \in 1 .. Cardinality(locations) |->
     [start |-> Sorted(locations)[i], end |-> Sorted(locations)[i]]]

Prefixed(bound, new_bounds) == IF new_bounds = None THEN None ELSE <<bound>> \o new_bounds

(* One pass over the bounds and the locations: a location that is not      *)
(* after the end of the bound is passed over, one outside the window       *)
(* leaves the bound without a continuation, any other continues it.        *)
Walk(bounds, locs, max_misses, window_length) ==
  LET walk[at \in (1 .. Len(bounds) + 1) \X (1 .. Len(locs) + 1) \X (0 .. max_misses)] ==
        LET i == at[1]  j == at[2]  misses == at[3] IN
        IF i > Len(bounds) \/ j > Len(locs) THEN <<>>
        ELSE IF locs[j] <= bounds[i].end THEN walk[<<i, j + 1, misses>>]
        ELSE IF locs[j] - bounds[i].start < window_length
          THEN Prefixed([start |-> bounds[i].start, end |-> locs[j]], walk[<<i + 1, j, misses>>])
        ELSE IF misses + 1 > max_misses THEN None
        ELSE walk[<<i + 1, j, misses + 1>>]
  IN walk[<<1, 1, 0>>]

(* A fault: one miss too few is allowed.                                   *)
BugMaxMisses(bounds, min_support) == (Len(bounds) - min_support - 1) % SizeLimit

MaxMisses(bounds, min_support) == (Len(bounds) - min_support) % SizeLimit
Extend(bounds, locations, min_support, window_length) ==
  LET new_bounds == Walk(bounds, Sorted(locations),
                         MaxMisses(bounds, min_support), window_length)
  IN IF new_bounds = None THEN None
     ELSE IF Len(new_bounds) < min_support THEN None
     ELSE new_bounds

(* A composite episode: the indices of its blocks in the list of parallel  *)
(* episodes, and its bound list.  One that TryExtend refuses has none.     *)
CompositeSeeds(parallel) ==
  [i \in DOMAIN parallel |-> [blocks |-> <<i>>, bounds |-> BoundListOf(parallel[i].locations)]]
CompositeExtensions(ep, parallel, min_support, window_length) ==
  [i \in DOMAIN parallel |->
     LET new_bound == Extend(ep.bounds, parallel[i].locations, min_support, window_length)
     IN [blocks |-> Append(ep.blocks, i),
         bounds |-> IF new_bound = None THEN <<>> ELSE new_bound]]
----------------------------------------------------------------------------
(* What the episodes mean: an occurrence of a sequence of location lists   *)
(* takes a timestamp from each, one after another, all inside the window.  *)
(* The support of an episode is the number of its starts.                  *)
Occurrences(blocks, times, window_length) ==
  LET n == Len(blocks) IN
  {o \in [1 .. n -> times] :
     /\ \A i \in 1 .. n : o[i] \in blocks[i]
     /\ \A i \in 1 .. n - 1 : o[i] < o[i + 1]
     /\ n = 1 \/ o[n] - o[1] < window_length}
Starts(blocks, times, window_length) ==
  {o[1] : o \in Occurrences(blocks, times, window_length)}
=============================================================================
