-------------------------- MODULE CompositeEpisode -------------------------
(***************************************************************************)
(* algos::tke::CompositeEpisode and its BoundList                          *)
(* (src/src/core/algorithms/fem/tke/model/composite_episode.cpp,           *)
(* bound_list.cpp): how the bound list of an episode comes from those of   *)
(* its prefixes, one TryExtend at a time.  The minimal support is read     *)
(* from a shared variable while other threads raise it, so any value may   *)
(* come with any call, above the support of the episode too.               *)
(***************************************************************************)
EXTENDS TkeEpisodes

CONSTANTS
  Times,          \* bound: the timestamps are 1 .. Times
  MaxBlocks,      \* bound: the length of an episode
  WindowLength

(* There are no more timestamps than a size can count.                     *)
ASSUME EpisodeAssumption ==
  /\ Times \in Nat /\ Times <= SizeLimit
  /\ MaxBlocks \in Nat /\ WindowLength \in Nat

VARIABLES
  sequence_,     \* the location lists of the episode's blocks
  bound_list_,
  refused        \* the last extension TryExtend refused, and the support asked for
episodeVars == <<sequence_, bound_list_, refused>>

(* A parallel episode that was found occurs.                               *)
LocationLists == (SUBSET (1 .. Times)) \ {{}}

EpisodeInit ==
  \E locations \in LocationLists :
    /\ sequence_ = <<locations>> /\ bound_list_ = BoundListOf(locations)
    /\ refused = None

TryExtend(ext, min_support) ==
  LET new_bound == Extend(bound_list_, ext, min_support, WindowLength) IN
  /\ Len(sequence_) < MaxBlocks
  /\ \/ /\ new_bound = None
        /\ refused' = [ext |-> ext, min_support |-> min_support]
        /\ UNCHANGED <<sequence_, bound_list_>>
     \/ /\ new_bound # None
        /\ sequence_' = Append(sequence_, ext) /\ bound_list_' = new_bound
        /\ refused' = None

EpisodeNext ==
  \E ext \in LocationLists, min_support \in 1 .. Times + 1 : TryExtend(ext, min_support)

CompositeEpisodeSpec == EpisodeInit /\ [][EpisodeNext]_episodeVars
----------------------------------------------------------------------------
FirstEnd(blocks, start) ==
  Min({o[Len(blocks)] : o \in {p \in Occurrences(blocks, 1 .. Times, WindowLength) :
                                p[1] = start}})
AllStarts(blocks) == Starts(blocks, 1 .. Times, WindowLength)

(* The bound list, built greedily from that of the prefix with one pass    *)
(* that never goes back in the locations, holds every start of the episode *)
(* once, with the earliest end, in order.                                  *)
BoundListIsRight ==
  LET starts == Sorted(AllStarts(sequence_)) IN
  bound_list_ = [i \in 1 .. Len(starts) |->
                   [start |-> starts[i], end |-> FirstEnd(sequence_, starts[i])]]

(* TryExtend refuses what has too little support and nothing else: the     *)
(* early exit, whose bound wraps around when the minimal support is above  *)
(* that of the parent, loses no episode.                                   *)
RefusalIsRight ==
  refused # None =>
    Cardinality(AllStarts(Append(sequence_, refused.ext))) < refused.min_support

EpisodesAreRight == BoundListIsRight /\ RefusalIsRight
=============================================================================
